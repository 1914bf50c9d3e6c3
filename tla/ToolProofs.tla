------------------------------ MODULE ToolProofs ------------------------------
(***************************************************************************)
(* Two tools that answer the model.                                        *)
(*                                                                         *)
(* run_command, for any caps and any amount of output: what Invoke reports *)
(* as completed is complete, and what it reports as cut is cut.            *)
(*                                                                         *)
(* apply_patch, for any words, files and patches: the hunks of a change    *)
(* are placed where the answer says, and where they declare when the patch *)
(* is one of this very file.                                               *)
(***************************************************************************)
EXTENDS RunCommand, PatchText, TLAPS, NaturalsInduction, WellFoundedInduction,
        SequenceTheorems

\* What a stage of Invoke knows of the processes, the pipe and the watching
\* goroutine.  A pipe that was drained stays so, since nothing is left to write.
Stage ==
    /\ inv \in {"called", "asking", "accepted"} =>
         leader = "none" /\ heir = "none" /\ pipe = "none" /\ watch = "none"
    /\ inv \in {"reaping", "joining", "draining"} => pipe # "none"
    /\ inv \in {"joining", "draining", "judging", "rejudging"} => leader = "reaped"
    /\ inv \in {"draining", "judging", "rejudging"} => watch \in {"used", "unused"}
    /\ inv \in {"judging", "rejudging"} => pipe \in {"drained", "closed"}

Output ==
    /\ kept = IF written > SafetyCap THEN SafetyCap ELSE written
    /\ pipe = "drained" => ~Writing
    /\ leader = "none" => heir = "none"

\* The result, once it is there, keeps what was true when it was made.
Report ==
    result.kind \in {"ok", "exit_error"} =>
         /\ leader = "reaped" /\ pipe \in {"drained", "closed"}
         /\ result.truncated <=> kept > MaxOutput

IInv == TypeOK /\ Stage /\ Output /\ Report /\ SuccessIsWhole

-----------------------------------------------------------------------------
LEMMA InitHolds == Init => IInv
<1> SUFFICES ASSUME Init PROVE IInv
  OBVIOUS
<1> USE OutputAssumption DEF Init, NoResult
<1>1. TypeOK
  BY DEF TypeOK, Result
<1>2. Stage
  BY DEF Stage
<1>3. Output
  BY DEF Output
<1>4. Report
  BY DEF Report
<1>5. SuccessIsWhole
  BY DEF SuccessIsWhole
<1> QED BY <1>1, <1>2, <1>3, <1>4, <1>5 DEF IInv

Kinds == {"invalid", "denied", "not_started", "timeout", "cancelled"}

\* What Invoke returns is a Result.
LEMMA EndsInResult ==
    ASSUME NEW kind \in Kinds, Ends(kind)
    PROVE  result' \in Result
  BY DEF Ends, Kinds, Result

LEMMA CappedInResult ==
    ASSUME NEW kind \in {"ok", "exit_error"}
    PROVE  Capped(kind) \in Result
<1>1. (kept > MaxOutput) \in BOOLEAN
  OBVIOUS
<1> QED BY <1>1 DEF Capped, Result

LEMMA InvokeReturnsResult ==
    ASSUME IInv, Checks \/ Answered \/ Starts \/ Judges \/ JudgesAgain
    PROVE  result' \in Result
<1>1. result \in Result /\ cmdErr \in {"none", "cancelled", "timeout"}
  BY DEF IInv, TypeOK
<1>2. Verdict \in Result
  <2>1. [kind |-> "wait_error", truncated |-> FALSE] \in Result
    BY DEF Result
  <2> QED BY <2>1, CappedInResult DEF Verdict
<1>3. (\E kind \in Kinds : Ends(kind)) \/ result' = result \/ result' = Verdict
  <2> USE DEF Goes, Kinds
  <2>1. CASE Checks
    BY <2>1 DEF Checks
  <2>2. CASE Answered
    BY <2>2 DEF Answered
  <2>3. CASE Starts
    BY <2>3 DEF Starts
  <2>4. CASE Judges
    BY <1>1, <2>4 DEF Judges
  <2>5. CASE JudgesAgain
    BY <2>5 DEF JudgesAgain
  <2> QED BY <2>1, <2>2, <2>3, <2>4, <2>5
<1> QED BY <1>1, <1>2, <1>3, EndsInResult

\* Every step keeps the invariant.
LEMMA StepHolds == IInv /\ [Next]_vars => IInv'
<1> SUFFICES ASSUME IInv, [Next]_vars PROVE IInv'
  OBVIOUS
<1> USE OutputAssumption
    DEF IInv, TypeOK, Stage, Output, Report, SuccessIsWhole, Writing, NoResult,
        given, processes, output, Ends, Goes
<1>1. CASE Checks
  BY <1>1, InvokeReturnsResult DEF Checks
<1>2. CASE Answered
  BY <1>2, InvokeReturnsResult DEF Answered
<1>3. CASE Starts
  BY <1>3, InvokeReturnsResult DEF Starts
<1>4. CASE CancelTurn
  BY <1>4 DEF CancelTurn
<1>5. CASE CommandContextEnds
  BY <1>5 DEF CommandContextEnds, Running
<1>6. CASE LeaderForks \/ LeaderExits \/ HeirExits
  BY <1>6 DEF LeaderForks, LeaderExits, HeirExits
<1>7. CASE Writes
  BY <1>7 DEF Writes, KeptOf
<1>8. CASE PipeEnds
  BY <1>8 DEF PipeEnds
<1>9. CASE TermsGroup
  BY <1>9 DEF TermsGroup, Sigterm, Signals
<1>10. CASE LeaderGone
  BY <1>10 DEF LeaderGone
<1>11. CASE KillsGroup
  BY <1>11 DEF KillsGroup, Sigkill, Signals
<1>12. CASE WatchDelayEnds
  BY <1>12 DEF WatchDelayEnds
<1>13. CASE Reaps
  BY <1>13 DEF Reaps
<1>14. CASE Joins
  BY <1>14 DEF Joins
<1>15. CASE Drains
  BY <1>15 DEF Drains
<1>16. CASE Judges
  BY <1>16, InvokeReturnsResult DEF Judges
<1>17. CASE JudgesAgain
  <2>1. leader # "running" /\ UNCHANGED <<leader, exit>>
    BY <1>17 DEF JudgesAgain, Sigterm, Signals
  <2>2. /\ Verdict.kind \in {"ok", "exit_error", "wait_error"}
        /\ Verdict.kind \in {"ok", "exit_error"} => (Verdict.truncated <=> kept > MaxOutput)
        /\ Verdict.kind = "ok" => exit = "success" /\ watch # "used" /\ pipe # "closed"
    <3>1. CASE exit # "success"
      <4>1. Verdict = Capped("exit_error")
        BY <3>1 DEF Verdict
      <4> QED BY <4>1 DEF Capped
    <3>2. CASE exit = "success" /\ (watch = "used" \/ pipe = "closed")
      BY <3>2 DEF Verdict
    <3>3. CASE exit = "success" /\ ~(watch = "used" \/ pipe = "closed")
      BY <3>3 DEF Verdict, Capped
    <3> QED BY <3>1, <3>2, <3>3
  <2>3. CASE ctx = "cancelled"
    BY <1>17, <2>1, <2>3, InvokeReturnsResult DEF JudgesAgain, Sigterm, Signals
  <2>4. CASE ctx # "cancelled"
    BY <1>17, <2>1, <2>2, <2>4, InvokeReturnsResult DEF JudgesAgain
  <2> QED BY <2>3, <2>4
<1>18. CASE UNCHANGED vars
  BY <1>18 DEF vars
<1> QED
  BY <1>1, <1>2, <1>3, <1>4, <1>5, <1>6, <1>7, <1>8, <1>9, <1>10, <1>11, <1>12, <1>13,
     <1>14, <1>15, <1>16, <1>17, <1>18
  DEF Next, Invoke, Watch

LEMMA Invariant == Spec => []IInv
  BY InitHolds, StepHolds, PTL DEF Spec

-----------------------------------------------------------------------------
\* The types of RunCommand, and a result exactly when Invoke has returned.
THEOREM CommandTypeCorrect == Spec => []TypeOK
  BY Invariant, PTL DEF IInv

\* A command reported as completed exited by itself with status 0, and nothing that
\* it or a process it left behind wrote is missing (Invoke, cmd.Wait).
THEOREM CompletedIsWhole == Spec => []SuccessIsWhole
  BY Invariant, PTL DEF IInv

\* The output of a result is marked as cut exactly when something is missing,
\* although capWriter drops output of its own (Truncate, writerSafetyCapBytes).
THEOREM CutIsReported == Spec => []TruncationReported
<1>1. IInv => TruncationReported
  BY OutputAssumption DEF IInv, TypeOK, Output, Report, TruncationReported
<1> QED BY <1>1, Invariant, PTL

-----------------------------------------------------------------------------
(* Recursive functions on the numbers up to n *)

LEMMA LeastOf ==
    ASSUME NEW T, T \subseteq Nat, T # {}
    PROVE  \E m \in T : \A k \in T : m <= k
<1> DEFINE R == OpToRel(<, Nat)
<1>1. IsWellFoundedOn(R, Nat)
  BY NatLessThanWellFounded
<1> HIDE DEF R
<1>2. PICK m \in T : \A k \in T : <<k, m>> \notin R
  BY <1>1, WFMin
<1>3. \A k \in T : ~(k < m)
  BY <1>2 DEF R, OpToRel
<1> QED BY <1>3

Chained(f, n, S, base, step) ==
    /\ f \in [0..n -> S]
    /\ f[0] = base
    /\ \A i \in 1..n : f[i] = step[<<f[i - 1], i>>]

LEMMA ChainExists ==
    ASSUME NEW n \in Nat, NEW S, NEW base \in S, NEW step \in [S \X (1..n) -> S]
    PROVE  \E f : Chained(f, n, S, base, step)
<1> USE DEF Chained
<1> DEFINE Chain(k, f) == Chained(f, k, S, base, step)
           T == {k \in 0..n : \A f : ~Chain(k, f)}
<1>1. CASE T = {}
  <2>1. n \in 0..n /\ n \notin T
    BY <1>1
  <2>2. PICK f : Chain(n, f)
    BY <2>1
  <2> QED BY <2>2
<1>2. CASE T # {}
  <2>1. T \subseteq Nat
    OBVIOUS
  <2>2. PICK m \in T : \A k \in T : m <= k
    <3> HIDE DEF T
    <3> QED BY <1>2, <2>1, LeastOf
  <2>3. m # 0
    <3>1. Chain(0, [i \in 0..0 |-> base])
      OBVIOUS
    <3> QED BY <2>2, <3>1
  <2>4. m \in 1..n /\ m - 1 \in 0..n /\ m - 1 \notin T
    BY <2>2, <2>3
  <2>5. PICK f : Chain(m - 1, f)
    BY <2>4
  <2> DEFINE e == [i \in 0..m |-> IF i = m THEN step[<<f[m - 1], m>>] ELSE f[i]]
  <2>6. f[m - 1] \in S /\ step[<<f[m - 1], m>>] \in S
    <3>1. f[m - 1] \in S
      BY <2>4, <2>5
    <3>2. <<f[m - 1], m>> \in S \X (1..n)
      BY <2>4, <3>1
    <3> QED BY <3>1, <3>2
  <2>7. \A i \in 0..m : i = m \/ i \in 0..(m - 1)
    BY <2>4
  <2>8. e \in [0..m -> S] /\ e[0] = base /\ e[m] = step[<<f[m - 1], m>>]
    BY <2>4, <2>5, <2>6, <2>7
  <2>9. ASSUME NEW i \in 1..m PROVE e[i] = step[<<e[i - 1], i>>]
    <3>1. i - 1 \in 0..(m - 1) /\ i - 1 # m /\ e[i - 1] = f[i - 1]
      BY <2>4
    <3>2. CASE i = m
      BY <2>8, <3>1, <3>2
    <3>3. CASE i # m
      <4>1. i \in 1..(m - 1) /\ e[i] = f[i]
        BY <2>4, <3>3
      <4> QED BY <2>5, <3>1, <4>1
    <3> QED BY <3>2, <3>3
  <2>10. Chain(m, e)
    <3> HIDE DEF e
    <3> QED BY <2>8, <2>9
  <2> QED BY <2>2, <2>10
<1> QED BY <1>1, <1>2

\* What the lines with these prefixes say, when each of them says something of W.
LEMMA SideTyped ==
    ASSUME NEW W, NEW h, NEW prefixes, Len(h.lines) \in Nat,
           \A i \in 1..Len(h.lines) : h.lines[i].prefix \in prefixes => h.lines[i].says \in W
    PROVE  Side(h, prefixes) \in Seq(W)
<1> DEFINE n == Len(h.lines)
           E(s, i) == IF h.lines[i].prefix \in prefixes THEN Append(s, h.lines[i].says) ELSE s
           step == [p \in Seq(W) \X (1..n) |-> E(p[1], p[2])]
           Recurs(g) == g = [i \in 0..n |-> IF i = 0 THEN <<>>
                                        ELSE IF h.lines[i].prefix \in prefixes THEN Append(g[i - 1], h.lines[i].says)
                                        ELSE g[i - 1]]
<1>1. step \in [Seq(W) \X (1..n) -> Seq(W)]
  <2>1. ASSUME NEW p \in Seq(W) \X (1..n) PROVE E(p[1], p[2]) \in Seq(W)
    <3>1. p[1] \in Seq(W) /\ p[2] \in 1..n
      OBVIOUS
    <3>2. h.lines[p[2]].prefix \in prefixes => h.lines[p[2]].says \in W
      BY <3>1
    <3> QED BY <3>1, <3>2, AppendProperties
  <2> QED BY <2>1
<1>2. <<>> \in Seq(W)
  OBVIOUS
<1>3. PICK f : Chained(f, n, Seq(W), <<>>, step)
  <2>1. n \in Nat
    OBVIOUS
  <2> HIDE DEF step, n
  <2> QED BY <1>1, <1>2, <2>1, ChainExists
<1>4. ASSUME NEW i \in 1..n PROVE f[i] = E(f[i - 1], i)
  <2>1. i - 1 \in 0..n
    OBVIOUS
  <2>2. f[i - 1] \in Seq(W)
    BY <1>3, <2>1 DEF Chained
  <2>3. <<f[i - 1], i>> \in Seq(W) \X (1..n)
    BY <2>2
  <2>4. step[<<f[i - 1], i>>] = E(f[i - 1], i)
    BY <2>3
  <2> HIDE DEF step
  <2> QED BY <1>3, <2>4 DEF Chained
<1>5. Recurs(f)
  <2>1. \A i \in 0..n : i = 0 \/ i \in 1..n
    OBVIOUS
  <2> QED BY <1>3, <1>4, <2>1 DEF Chained
<1>6. Side(h, prefixes) = (CHOOSE g : Recurs(g))[n]
  BY DEF Side
<1>7. PICK g : g = (CHOOSE x : Recurs(x))
  OBVIOUS
<1>8. Recurs(g)
  <2> HIDE DEF Recurs
  <2> QED BY <1>5, <1>7
<1> DEFINE T == {i \in 0..n : g[i] # f[i]}
<1>9. CASE T = {}
  <2>1. g[n] = f[n] /\ f[n] \in Seq(W)
    BY <1>3, <1>9 DEF Chained
  <2> HIDE DEF Recurs
  <2> QED BY <1>6, <1>7, <2>1
<1>10. CASE T # {}
  <2>1. T \subseteq Nat
    OBVIOUS
  <2>2. PICK m \in T : \A k \in T : m <= k
    <3> HIDE DEF T
    <3> QED BY <1>10, <2>1, LeastOf
  <2>3. m # 0
    BY <1>3, <1>8, <2>2 DEF Chained
  <2>4. m \in 1..n /\ m - 1 \in 0..n /\ ~(m <= m - 1)
    BY <2>2, <2>3
  <2>5. g[m - 1] = f[m - 1]
    BY <2>2, <2>4
  <2>6. g[m] = f[m]
    BY <1>4, <1>8, <2>3, <2>4, <2>5
  <2> QED BY <2>2, <2>6
<1> QED BY <1>9, <1>10

LEMMA FlattenTyped ==
    ASSUME NEW S, NEW ss \in Seq(Seq(S))
    PROVE  FlattenSeq(ss) \in Seq(S)
<1> DEFINE n == Len(ss)
           Recurs(g) == g = [i \in 1..n |-> IF i = 1 THEN ss[i] ELSE g[i - 1] \o ss[i]]
<1>1. CASE n = 0
  <2>1. ss = <<>>
    BY <1>1
  <2> QED BY <2>1 DEF FlattenSeq
<1>2. CASE n # 0
  <2> DEFINE step == [p \in Seq(S) \X (1..n) |-> p[1] \o ss[p[2]]]
  <2>1. n \in Nat /\ n \in 1..n /\ \A i \in 1..n : ss[i] \in Seq(S)
    BY <1>2
  <2>2. step \in [Seq(S) \X (1..n) -> Seq(S)]
    <3>1. ASSUME NEW p \in Seq(S) \X (1..n) PROVE p[1] \o ss[p[2]] \in Seq(S)
      <4>1. p[1] \in Seq(S) /\ ss[p[2]] \in Seq(S)
        BY <2>1
      <4> QED BY <4>1, ConcatProperties
    <3> QED BY <3>1
  <2>3. <<>> \in Seq(S)
    OBVIOUS
  <2>4. PICK f : Chained(f, n, Seq(S), <<>>, step)
    <3>1. n \in Nat
      BY <2>1
    <3> HIDE DEF step, n
    <3> QED BY <2>2, <2>3, <3>1, ChainExists
  <2>5. ASSUME NEW i \in 1..n PROVE f[i] = f[i - 1] \o ss[i]
    <3>0. i - 1 \in 0..n
      OBVIOUS
    <3>1. f[i - 1] \in Seq(S)
      <4> HIDE DEF step, n
      <4> QED BY <2>4, <3>0 DEF Chained
    <3>2. step[<<f[i - 1], i>>] = f[i - 1] \o ss[i]
      BY <3>1
    <3> HIDE DEF step
    <3> QED BY <2>4, <3>2 DEF Chained
  <2> DEFINE e == [i \in 1..n |-> f[i]]
  <2>6. f[1] = ss[1]
    <3>0. 1 \in 1..n /\ 1 - 1 = 0
      BY <2>1, <1>2
    <3>1. f[1] = <<>> \o ss[1] /\ ss[1] \in Seq(S)
      <4>1. f[1] = f[0] \o ss[1]
        BY <2>5, <3>0
      <4> HIDE DEF step, n
      <4> QED BY <2>1, <2>4, <3>0, <4>1 DEF Chained
    <3> QED BY <3>1, ConcatEmptySeq
  <2>7. Recurs(e)
    <3>1. \A i \in 1..n : i = 1 \/ i - 1 \in 1..n
      OBVIOUS
    <3>2. \A i \in 1..n : e[i] = IF i = 1 THEN ss[i] ELSE e[i - 1] \o ss[i]
      BY <2>5, <2>6, <3>1
    <3> QED BY <3>2
  <2>8. FlattenSeq(ss) = (CHOOSE g : Recurs(g))[n]
    BY <1>2 DEF FlattenSeq
  <2>9. PICK g : g = (CHOOSE x : Recurs(x))
    OBVIOUS
  <2>10. Recurs(g)
    <3> HIDE DEF Recurs, e
    <3> QED BY <2>7, <2>9
  <2> DEFINE T == {i \in 1..n : g[i] # f[i]}
  <2>11. CASE T = {}
    <3>1. g[n] = f[n]
      BY <2>1, <2>11
    <3>2. f[n] \in Seq(S)
      <4> HIDE DEF n, step
      <4>1. n \in 0..n
        BY <2>1
      <4> QED BY <2>4, <4>1 DEF Chained
    <3> QED BY <2>8, <2>9, <3>1, <3>2
  <2>12. CASE T # {}
    <3>1. T \subseteq Nat
      OBVIOUS
    <3>2. PICK m \in T : \A k \in T : m <= k
      <4> HIDE DEF T
      <4> QED BY <2>12, <3>1, LeastOf
    <3>3. m # 1
      BY <2>6, <2>10, <3>2
    <3>4. m \in 1..n /\ m - 1 \in 1..n /\ ~(m <= m - 1)
      BY <3>2, <3>3
    <3>5. g[m - 1] = f[m - 1]
      BY <3>2, <3>4
    <3>6. g[m] = f[m]
      BY <2>5, <2>10, <3>3, <3>4, <3>5
    <3> QED BY <3>2, <3>6
  <2> QED BY <2>11, <2>12
<1> QED BY <1>1, <1>2

-----------------------------------------------------------------------------
(* The texts written of the intended changes *)

HeaderIsNumbered(l) == l.kind = "@@" => l.arg.start \in Nat

\* A sequence of lines in which the headers of hunks have a line number.
Numbered(ls) ==
    /\ Len(ls) \in Nat
    /\ ls = [i \in 1..Len(ls) |-> ls[i]]
    /\ \A i \in 1..Len(ls) : HeaderIsNumbered(ls[i])

HunkShaped(h) ==
    /\ h = [start |-> h.start, lines |-> h.lines, old |-> h.old, new |-> h.new]
    /\ h.start \in Nat
    /\ Len(h.lines) \in Nat
    /\ \A i \in 1..Len(h.lines) : h.lines[i].prefix # "@@"

Shaped(c) ==
    /\ "hunks" \in DOMAIN c
    /\ Len(c.hunks) \in Nat /\ DOMAIN c.hunks = 1..Len(c.hunks)
    /\ \A i \in 1..Len(c.hunks) : HunkShaped(c.hunks[i])

ChangesShaped(cs) ==
    /\ Len(cs) \in Nat
    /\ cs = [i \in 1..Len(cs) |-> cs[i]]
    /\ \A i \in 1..Len(cs) : Shaped(cs[i])

LEMMA NumberedSeq ==
    ASSUME NEW ls, Numbered(ls)
    PROVE  ls \in Seq({ls[i] : i \in 1..Len(ls)})
<1>1. \A i \in 1..Len(ls) : ls[i] \in {ls[j] : j \in 1..Len(ls)}
  OBVIOUS
<1> QED BY <1>1 DEF Numbered

LEMMA SeqNumbered ==
    ASSUME NEW S, NEW ls \in Seq(S), \A l \in S : HeaderIsNumbered(l)
    PROVE  Numbered(ls)
BY DEF Numbered

LEMMA NumberedBoth ==
    ASSUME NEW a, NEW b, Numbered(a), Numbered(b)
    PROVE  Numbered(a \o b)
<1> DEFINE S == {a[i] : i \in 1..Len(a)} \cup {b[i] : i \in 1..Len(b)}
<1>1. a \in Seq(S) /\ b \in Seq(S)
  <2>1. \A i \in 1..Len(a) : a[i] \in S
    OBVIOUS
  <2>2. \A i \in 1..Len(b) : b[i] \in S
    OBVIOUS
  <2> HIDE DEF S
  <2> QED BY <2>1, <2>2 DEF Numbered
<1>2. \A l \in S : HeaderIsNumbered(l)
  BY DEF Numbered
<1>3. a \o b \in Seq(S)
  BY <1>1, ConcatProperties
<1> HIDE DEF S
<1> QED BY <1>2, <1>3, SeqNumbered

LEMMA NumberedOne ==
    ASSUME NEW l, HeaderIsNumbered(l)
    PROVE  Numbered(<<l>>)
BY DEF Numbered

LEMMA NumberedNone == Numbered(<<>>)
BY DEF Numbered

LEMMA NumberedFlat ==
    ASSUME NEW n \in Nat, NEW ss, DOMAIN ss = 1..n, ss = [i \in 1..n |-> ss[i]],
           \A i \in 1..n : Numbered(ss[i])
    PROVE  Numbered(FlattenSeq(ss))
<1> DEFINE S == UNION {{ss[i][j] : j \in 1..Len(ss[i])} : i \in 1..n}
<1>1. ASSUME NEW i \in 1..n PROVE ss[i] \in Seq(S)
  <2>1. \A j \in 1..Len(ss[i]) : ss[i][j] \in S
    OBVIOUS
  <2> HIDE DEF S
  <2> QED BY <2>1 DEF Numbered
<1>2. ss \in Seq(Seq(S))
  <2> HIDE DEF S
  <2> QED BY <1>1
<1>3. \A l \in S : HeaderIsNumbered(l)
  BY DEF Numbered
<1>4. FlattenSeq(ss) \in Seq(S)
  <2> HIDE DEF S
  <2> QED BY <1>2, FlattenTyped
<1> HIDE DEF S
<1> QED BY <1>3, <1>4, SeqNumbered

LEMMA RenderLineKind ==
    ASSUME NEW l, l.prefix # "@@"
    PROVE  RenderLine(l).kind # "@@"
<1>1. CASE l.says = <<"minus", "p">>
  BY <1>1 DEF RenderLine, Line
<1>2. CASE l.says = <<"plus", "p">>
  BY <1>2 DEF RenderLine, Line
<1>3. CASE l.says = <<"signature", "p">>
  BY <1>3 DEF RenderLine, Line
<1>4. CASE l.says \notin {<<"minus", "p">>, <<"plus", "p">>, <<"signature", "p">>}
  <2>1. RenderLine(l) = Line(l.prefix, l.says)
    BY <1>4 DEF RenderLine
  <2> QED BY <2>1 DEF Line
<1> QED BY <1>1, <1>2, <1>3, <1>4

LEMMA RenderHunkNumbered ==
    ASSUME NEW h, HunkShaped(h)
    PROVE  Numbered(RenderHunk(h))
<1> DEFINE head == Line("@@", [start |-> h.start, old |-> h.old, new |-> h.new])
           body == [i \in 1..Len(h.lines) |-> RenderLine(h.lines[i])]
<1>1. HeaderIsNumbered(head)
  BY DEF HeaderIsNumbered, Line, HunkShaped
<1>2. \A i \in 1..Len(h.lines) : RenderLine(h.lines[i]).kind # "@@"
  BY RenderLineKind DEF HunkShaped
<1>3. Numbered(body)
  <2>1. Len(h.lines) \in Nat
    BY DEF HunkShaped
  <2>2. Len(body) = Len(h.lines) /\ body = [i \in 1..Len(body) |-> body[i]]
    BY <2>1
  <2> QED BY <1>2, <2>1, <2>2 DEF Numbered, HeaderIsNumbered
<1> HIDE DEF head, body
<1>4. Numbered(<<head>> \o body)
  BY <1>1, <1>3, NumberedOne, NumberedBoth
<1> QED BY <1>4 DEF RenderHunk, head, body

LEMMA LineNumbered ==
    ASSUME NEW kind, NEW arg, kind # "@@"
    PROVE  Numbered(<< Line(kind, arg) >>)
BY NumberedOne DEF Line, HeaderIsNumbered

LEMMA PairNumbered ==
    ASSUME NEW k, NEW a, NEW l, NEW b, k # "@@", l # "@@"
    PROVE  Numbered(<< Line(k, a), Line(l, b) >>)
BY DEF Line, HeaderIsNumbered, Numbered

LEMMA RenderChangeNumbered ==
    ASSUME NEW c, Shaped(c)
    PROVE  Numbered(RenderChange(c))
<1>1. Numbered(RenderHeader(c))
  <2>1. Numbered(<< Line("git", c.path) >>)
    BY LineNumbered
  <2>2. Numbered(IF c.mode # "none" THEN << Line("oldmode", OtherMode(c.mode)), Line("newmode", c.mode) >>
                                    ELSE <<>>)
    BY PairNumbered, NumberedNone
  <2>3. Numbered(CASE c.op = "rename" -> << Line("renamefrom", c.old), Line("renameto", c.path) >>
                   [] c.op = "create" -> << Line("newfile", "644") >>
                   [] c.op = "delete" -> << Line("deleted", "644") >>
                   [] OTHER -> <<>>)
    <3>1. CASE c.op = "rename"
      BY <3>1, PairNumbered
    <3>2. CASE c.op = "create"
      BY <3>2, LineNumbered
    <3>3. CASE c.op = "delete"
      BY <3>3, LineNumbered
    <3>4. CASE c.op \notin {"rename", "create", "delete"}
      BY <3>4, NumberedNone
    <3> QED BY <3>1, <3>2, <3>3, <3>4
  <2> QED BY <2>1, <2>2, <2>3, NumberedBoth DEF RenderHeader
<1>2. Numbered(RenderPair(c))
  BY PairNumbered DEF RenderPair
<1>3. Numbered(FlattenSeq([i \in 1..Len(c.hunks) |-> RenderHunk(c.hunks[i])]))
  <2> DEFINE ss == [i \in 1..Len(c.hunks) |-> RenderHunk(c.hunks[i])]
  <2>1. \A i \in 1..Len(c.hunks) : Numbered(ss[i])
    BY RenderHunkNumbered DEF Shaped
  <2>2. Len(c.hunks) \in Nat /\ DOMAIN ss = 1..Len(c.hunks) /\ ss = [i \in 1..Len(c.hunks) |-> ss[i]]
    BY DEF Shaped
  <2> HIDE DEF ss
  <2>3. Numbered(FlattenSeq(ss))
    BY <2>1, <2>2, NumberedFlat
  <2> QED BY <2>3 DEF ss
<1>4. Numbered(<< Line("binary", c.path) >>)
  BY LineNumbered
<1>5. Numbered(IF c.header THEN RenderHeader(c) ELSE <<>>)
  BY <1>1, NumberedNone
<1>6. Numbered(IF c.hunks # <<>> \/ c.op \in {"create", "delete"} THEN RenderPair(c) ELSE <<>>)
  BY <1>2, NumberedNone
<1>7. Numbered(IF c.binary THEN << Line("binary", c.path) >>
               ELSE FlattenSeq([i \in 1..Len(c.hunks) |-> RenderHunk(c.hunks[i])]))
  BY <1>3, <1>4
<1> QED BY <1>5, <1>6, <1>7, NumberedBoth DEF RenderChange

LEMMA RenderNumbered ==
    ASSUME NEW cs, ChangesShaped(cs)
    PROVE  Numbered(Render(cs))
<1> DEFINE ss == [i \in 1..Len(cs) |-> RenderChange(cs[i])]
<1>1. \A i \in 1..Len(cs) : Numbered(ss[i])
  BY RenderChangeNumbered DEF ChangesShaped
<1>2. Len(cs) \in Nat /\ DOMAIN ss = 1..Len(cs) /\ ss = [i \in 1..Len(cs) |-> ss[i]]
  BY DEF ChangesShaped
<1> HIDE DEF ss
<1>3. Numbered(FlattenSeq(ss))
  BY <1>1, <1>2, NumberedFlat
<1> QED BY <1>3 DEF ss, Render

LEMMA DeclaredShaped ==
    ASSUME NEW c, NEW by, Shaped(c)
    PROVE  Shaped(Declared(c, by))
<1> DEFINE hs == [i \in DOMAIN c.hunks |-> [c.hunks[i] EXCEPT !.old = @ + by, !.new = @ + by]]
<1>1. Declared(c, by) = [c EXCEPT !.hunks = hs]
  BY DEF Declared
<1>2. DOMAIN c.hunks = 1..Len(c.hunks) /\ Len(c.hunks) \in Nat
  BY DEF Shaped
<1>3. DOMAIN hs = 1..Len(c.hunks) /\ Len(hs) = Len(c.hunks)
  BY <1>2
<1>4. ASSUME NEW i \in 1..Len(c.hunks) PROVE HunkShaped(hs[i])
  <2> DEFINE h == c.hunks[i]
  <2>1. HunkShaped(h)
    BY DEF Shaped
  <2>2. hs[i] = [h EXCEPT !.old = @ + by, !.new = @ + by]
    BY <1>2
  <2> HIDE DEF h, hs
  <2> QED BY <2>1, <2>2 DEF HunkShaped
<1> HIDE DEF hs
<1> QED BY <1>1, <1>2, <1>3, <1>4 DEF Shaped

LEMMA InsertIs ==
    ASSUME NEW s, NEW k \in Nat, NEW e
    PROVE  InsertAt(s, k + 1, e) = SubSeq(s, 1, k) \o <<e>> \o SubSeq(s, k + 1, Len(s))
<1>1. k + 1 - 1 = k
  OBVIOUS
<1>2. PICK i : i = k + 1 /\ i - 1 = k
  BY <1>1
<1>3. InsertAt(s, i, e) = SubSeq(s, 1, i - 1) \o <<e>> \o SubSeq(s, i, Len(s))
  BY DEF InsertAt
<1> QED BY <1>2, <1>3

LEMMA StrayedShaped ==
    ASSUME NEW cs, NEW behind \in Nat, ChangesShaped(cs), Len(cs) > 0, Len(cs[1].hunks) > 0,
           behind < Len(cs[1].hunks[1].lines),
           NEW S, cs[1].hunks[1].lines \in Seq(S)
    PROVE  ChangesShaped(Strayed(cs, behind))
<1>1. CASE behind = 0
  BY <1>1 DEF Strayed
<1>2. CASE behind # 0
  <2> DEFINE c == cs[1]
             h == c.hunks[1]
             other == Body("other", "none")
             ls == SubSeq(h.lines, 1, behind) \o <<other>> \o SubSeq(h.lines, behind + 1, Len(h.lines))
             g == [h EXCEPT !.lines = ls]
             d == [c EXCEPT !.hunks[1] = g]
  <2>0. Len(cs) \in Nat /\ 1 \in 1..Len(cs)
    BY DEF ChangesShaped
  <2>1. Shaped(c) /\ Len(c.hunks) \in Nat /\ 1 \in 1..Len(c.hunks) /\ DOMAIN c.hunks = 1..Len(c.hunks)
    BY <2>0 DEF ChangesShaped, Shaped
  <2>2. HunkShaped(h)
    BY <2>1 DEF Shaped
  <2>3. ls = InsertAt(h.lines, behind + 1, other)
    BY InsertIs
  <2>4. Strayed(cs, behind) = [cs EXCEPT ![1] = d]
    <3>1. Strayed(cs, behind) = [cs EXCEPT ![1].hunks[1].lines = InsertAt(@, behind + 1, other)]
      BY <1>2 DEF Strayed
    <3> HIDE DEF ls
    <3> QED BY <2>3, <3>1
  <2>5. HunkShaped(g)
    <3> DEFINE Named_ == S \cup {other}
    <3> DEFINE L == Len(h.lines)
    <3>1. h.lines \in Seq(S) /\ L \in Nat /\ behind < L
      BY <2>2 DEF HunkShaped
    <3>2. /\ SubSeq(h.lines, 1, behind) \in Seq(S) /\ Len(SubSeq(h.lines, 1, behind)) = behind
          /\ SubSeq(h.lines, behind + 1, L) \in Seq(S)
          /\ \A i \in 1..behind : SubSeq(h.lines, 1, behind)[i] = h.lines[i]
          /\ Len(SubSeq(h.lines, behind + 1, L)) = L - behind
          /\ \A i \in 1..(L - behind) : SubSeq(h.lines, behind + 1, L)[i] = h.lines[behind + i]
      <4> HIDE DEF h
      <4> QED BY <3>1
    <3>3. /\ Len(ls) = L + 1
          /\ \A i \in 1..(L + 1) : \/ ls[i] = other
                                   \/ \E j \in 1..L : ls[i] = h.lines[j]
      <4> DEFINE a == SubSeq(h.lines, 1, behind)
                 b == SubSeq(h.lines, behind + 1, L)
      <4>1. a \in Seq(S \cup {other}) /\ b \in Seq(S \cup {other}) /\ <<other>> \in Seq(S \cup {other})
        BY <3>2, SeqMonotonic
      <4>2. ls = a \o <<other>> \o b
        OBVIOUS
      <4>3. /\ Len(a) = behind /\ Len(b) = L - behind
            /\ \A i \in 1..behind : a[i] = h.lines[i]
            /\ \A i \in 1..(L - behind) : b[i] = h.lines[behind + i]
        BY <3>2
      <4> DEFINE ao == a \o <<other>>
      <4>4. <<other>> = [i \in 1..1 |-> other] /\ Len(<<other>>) = 1
        OBVIOUS
      <4> HIDE DEF a, b, ls, other, h
      <4>5. ao \in Seq(S \cup {other}) /\ Len(ao) = behind + 1
            /\ \A i \in 1..(behind + 1) : ao[i] = IF i <= behind THEN a[i] ELSE other
        BY <3>1, <4>1, <4>3, <4>4, ConcatProperties
      <4>6. ls = ao \o b
        BY <4>2
      <4> HIDE DEF ao
      <4>7. Len(ls) = L + 1
            /\ \A i \in 1..(L + 1) : ls[i] = IF i <= behind + 1 THEN ao[i] ELSE b[i - (behind + 1)]
        BY <3>1, <4>1, <4>3, <4>5, <4>6, ConcatProperties
      <4>8. ASSUME NEW i \in 1..(L + 1)
            PROVE  ls[i] = other \/ \E j \in 1..L : ls[i] = h.lines[j]
        <5>1. CASE i <= behind
          <6>1. i \in 1..L /\ i \in 1..behind /\ i \in 1..(behind + 1) /\ i <= behind + 1
            BY <3>1, <5>1
          <6>2. ls[i] = h.lines[i]
            BY <4>3, <4>5, <4>7, <5>1, <6>1
          <6> QED BY <6>1, <6>2
        <5>2. CASE i = behind + 1
          BY <3>1, <4>5, <4>7, <5>2
        <5>3. CASE i > behind + 1
          <6>1. i - (behind + 1) \in 1..(L - behind) /\ behind + (i - (behind + 1)) \in 1..L
            BY <3>1, <5>3
          <6>2. ls[i] = h.lines[behind + (i - (behind + 1))]
            BY <4>3, <4>7, <5>3, <6>1
          <6> QED BY <6>1, <6>2
        <5> QED BY <5>1, <5>2, <5>3
      <4> QED BY <4>7, <4>8
    <3>4. other.prefix # "@@"
      BY DEF Body
    <3>5. \A i \in 1..Len(ls) : ls[i].prefix # "@@"
      <4> HIDE DEF ls, h, other
      <4> QED BY <2>2, <3>1, <3>3, <3>4 DEF HunkShaped
    <3>6. g.lines = ls /\ g.start = h.start
          /\ g = [start |-> g.start, lines |-> g.lines, old |-> g.old, new |-> g.new]
      <4> HIDE DEF ls, h
      <4> QED BY <2>2 DEF HunkShaped
    <3> HIDE DEF ls, g, h
    <3> QED BY <2>2, <3>1, <3>3, <3>5, <3>6 DEF HunkShaped
  <2>6. Shaped(d)
    <3> HIDE DEF c, g
    <3> DEFINE hs == [c.hunks EXCEPT ![1] = g]
    <3>1. d = [c EXCEPT !.hunks = hs]
      OBVIOUS
    <3>2. DOMAIN hs = 1..Len(c.hunks) /\ Len(hs) = Len(c.hunks)
          /\ hs[1] = g /\ \A i \in 1..Len(c.hunks) : i # 1 => hs[i] = c.hunks[i]
      BY <2>1
    <3> HIDE DEF hs, d
    <3> QED BY <2>1, <2>5, <3>1, <3>2 DEF Shaped
  <2> HIDE DEF d
  <2> DEFINE ds == [cs EXCEPT ![1] = d]
  <2>7. /\ DOMAIN cs = 1..Len(cs) /\ Len(ds) = Len(cs)
        /\ ds = [i \in 1..Len(ds) |-> ds[i]]
        /\ \A i \in 1..Len(cs) : ds[i] = IF i = 1 THEN d ELSE cs[i]
    <3>1. DOMAIN cs = 1..Len(cs)
      <4> DEFINE e == [i \in 1..Len(cs) |-> cs[i]]
      <4>1. cs = e /\ DOMAIN e = 1..Len(cs)
        BY DEF ChangesShaped
      <4> HIDE DEF e
      <4> QED BY <4>1
    <3>2. DOMAIN ds = 1..Len(cs) /\ \A i \in 1..Len(cs) : ds[i] = IF i = 1 THEN d ELSE cs[i]
      BY <2>0, <3>1
    <3>3. Len(ds) = Len(cs)
      <4> HIDE DEF ds
      <4> QED BY <2>0, <3>2
    <3>4. ds = [i \in DOMAIN ds |-> ds[i]]
      OBVIOUS
    <3> HIDE DEF ds
    <3> QED BY <3>1, <3>2, <3>3, <3>4
  <2> HIDE DEF ds
  <2>8. ChangesShaped(ds)
    BY <2>0, <2>6, <2>7 DEF ChangesShaped
  <2> QED BY <2>4, <2>8 DEF ds
<1> QED BY <1>1, <1>2

LEMMA WrittenNumbered ==
    ASSUME NEW cs, NEW s, s.stray \in Nat, s.tail # "@@", ChangesShaped(cs),
           s.stray = 0 \/ /\ Len(cs) > 0 /\ Len(cs[1].hunks) > 0
                          /\ s.stray < Len(cs[1].hunks[1].lines)
                          /\ \E S : cs[1].hunks[1].lines \in Seq(S)
    PROVE  Numbered(Written(cs, s))
<1> DEFINE wrong == [i \in DOMAIN cs |-> Declared(cs[i], s.counts)]
           ls == Render(Strayed(wrong, s.stray))
           bared == IF s.bare THEN [i \in DOMAIN ls |-> Bared(ls[i])] ELSE ls
<1>1. Len(cs) \in Nat /\ DOMAIN cs = 1..Len(cs)
  BY DEF ChangesShaped
<1>2. Len(wrong) = Len(cs) /\ wrong = [i \in 1..Len(wrong) |-> wrong[i]]
      /\ \A i \in 1..Len(cs) : wrong[i] = Declared(cs[i], s.counts)
  BY <1>1
<1>3. ChangesShaped(wrong)
  <2>1. \A i \in 1..Len(cs) : Shaped(wrong[i])
    BY <1>2, DeclaredShaped DEF ChangesShaped
  <2> HIDE DEF wrong
  <2> QED BY <1>1, <1>2, <2>1 DEF ChangesShaped
<1>4. ChangesShaped(Strayed(wrong, s.stray))
  <2>1. CASE s.stray = 0
    BY <1>3, <2>1 DEF Strayed
  <2>2. CASE s.stray # 0
    <3>1. PICK S : cs[1].hunks[1].lines \in Seq(S)
      BY <2>2
    <3>2. Shaped(cs[1]) /\ 1 \in 1..Len(cs) /\ wrong[1] = Declared(cs[1], s.counts)
      BY <1>1, <1>2, <2>2 DEF ChangesShaped
    <3>3. 1 \in 1..Len(cs[1].hunks) /\ 1 \in DOMAIN cs[1].hunks /\ HunkShaped(cs[1].hunks[1])
      BY <2>2, <3>2 DEF Shaped
    <3>4. Len(wrong[1].hunks) = Len(cs[1].hunks) /\ wrong[1].hunks[1].lines = cs[1].hunks[1].lines
      <4> DEFINE c == cs[1]
      <4>1. Shaped(c) /\ 1 \in DOMAIN c.hunks /\ HunkShaped(c.hunks[1])
        BY <3>2, <3>3
      <4>2. Len(Declared(c, s.counts).hunks) = Len(c.hunks)
            /\ Declared(c, s.counts).hunks[1] = [c.hunks[1] EXCEPT !.old = @ + s.counts, !.new = @ + s.counts]
        <5> HIDE DEF c
        <5> QED BY <4>1 DEF Shaped, Declared
      <4>3. Declared(c, s.counts).hunks[1].lines = c.hunks[1].lines
        <5> HIDE DEF c
        <5> QED BY <4>1, <4>2 DEF HunkShaped
      <4> QED BY <3>2, <4>2, <4>3
    <3> HIDE DEF wrong
    <3> QED BY <1>2, <1>3, <2>2, <3>1, <3>4, StrayedShaped
  <2> QED BY <2>1, <2>2
<1>5. Numbered(ls)
  BY <1>4, RenderNumbered
<1> HIDE DEF ls, wrong
<1>6. Numbered(bared)
  <2>1. Len(ls) \in Nat /\ DOMAIN ls = 1..Len(ls) /\ \A i \in 1..Len(ls) : HeaderIsNumbered(ls[i])
    BY <1>5 DEF Numbered
  <2>2. ASSUME NEW l, HeaderIsNumbered(l) PROVE HeaderIsNumbered(Bared(l))
    BY <2>2 DEF Bared, HeaderIsNumbered, Line
  <2>3. CASE s.bare
    <3> DEFINE bs == [i \in DOMAIN ls |-> Bared(ls[i])]
    <3>1. Len(bs) = Len(ls) /\ bs = [i \in 1..Len(bs) |-> bs[i]]
          /\ \A i \in 1..Len(ls) : bs[i] = Bared(ls[i])
      BY <2>1
    <3>2. \A i \in 1..Len(ls) : HeaderIsNumbered(bs[i])
      BY <2>1, <2>2, <3>1
    <3>3. Numbered(bs)
      <4> HIDE DEF bs
      <4> QED BY <2>1, <3>1, <3>2 DEF Numbered
    <3> QED BY <2>3, <3>3
  <2>4. CASE ~s.bare
    BY <1>5, <2>4
  <2> QED BY <2>3, <2>4
<1>7. Numbered(Tail_(s.tail))
  <2>1. CASE s.tail = "signature"
    BY <2>1, PairNumbered DEF Tail_
  <2>2. CASE s.tail = "none"
    BY <2>2, NumberedNone DEF Tail_
  <2>3. CASE s.tail \notin {"signature", "none"}
    BY <2>3, LineNumbered DEF Tail_
  <2> QED BY <2>1, <2>2, <2>3
<1>8. Written(cs, s) = bared \o Tail_(s.tail)
  BY DEF Written, ls, wrong
<1> HIDE DEF bared
<1> QED BY <1>6, <1>7, <1>8, NumberedBoth

LEMMA HunkIsShaped ==
    ASSUME NEW start \in Nat, NEW body, Len(body) \in Nat,
           \A i \in 1..Len(body) : body[i].prefix # "@@"
    PROVE  HunkShaped(Hunk(start, body)) /\ Hunk(start, body).lines = body
BY DEF HunkShaped, Hunk

LEMMA ModifyIsShaped ==
    ASSUME NEW header, NEW hs, Len(hs) \in Nat, DOMAIN hs = 1..Len(hs),
           \A i \in 1..Len(hs) : HunkShaped(hs[i])
    PROVE  Shaped(Modify(header, hs)) /\ Modify(header, hs).hunks = hs
<1>1. Modify(header, hs).hunks = hs /\ "hunks" \in DOMAIN Modify(header, hs)
  BY DEF Modify, NoChange
<1> QED BY <1>1 DEF Shaped

LEMMA OneHunk ==
    ASSUME NEW h, HunkShaped(h)
    PROVE  /\ Len(<<h>>) = 1 /\ DOMAIN <<h>> = 1..Len(<<h>>)
           /\ \A i \in 1..Len(<<h>>) : HunkShaped(<<h>>[i])
OBVIOUS

LEMMA OneLineHunk ==
    ASSUME NEW start \in Nat, NEW l, l.prefix # "@@"
    PROVE  HunkShaped(Hunk(start, <<l>>))
<1>1. Len(<<l>>) = 1 /\ <<l>>[1] = l
  OBVIOUS
<1> QED BY <1>1, HunkIsShaped

\* One hunk or two, in any of the placements.
LEMMA PlacementsShaped ==
    ASSUME NEW cs \in Placements
    PROVE  ChangesShaped(cs)
<1>1. PICK hs \in SeqsUpTo(PlainHunks, 2) : cs = <<Modify(FALSE, hs)>>
  BY DEF Placements
<1>2. PICK k \in 1..2 : hs \in [1..k -> PlainHunks]
  BY <1>1 DEF SeqsUpTo
<1>3. ASSUME NEW h \in PlainHunks PROVE HunkShaped(h)
  <2>1. PICK start \in 0..MaxStart, b \in PlainBodies :
          h = Hunk(start, [i \in DOMAIN b |-> Body(b[i][1], b[i][2])])
    BY DEF PlainHunks
  <2>2. PICK n \in 1..MaxBody : b \in [1..n -> {" ", "+", "-"} \X Words]
    BY DEF PlainBodies, SeqsUpTo
  <2> DEFINE body == [i \in DOMAIN b |-> Body(b[i][1], b[i][2])]
  <2>3. n \in Nat /\ start \in Nat
    BY TextAssumption
  <2>4. Len(body) = n /\ \A i \in 1..n : body[i].prefix = b[i][1] /\ b[i][1] \in {" ", "+", "-"}
    <3>1. ASSUME NEW i \in 1..n PROVE b[i][1] \in {" ", "+", "-"}
      <4>1. b[i] \in {" ", "+", "-"} \X Words
        BY <2>2
      <4> QED BY <4>1
    <3>2. DOMAIN body = 1..n /\ Len(body) = n
      <4>1. DOMAIN b = 1..n
        BY <2>2
      <4>2. DOMAIN body = 1..n
        BY <4>1
      <4> HIDE DEF body
      <4> QED BY <2>3, <4>2
    <3>3. \A i \in 1..n : body[i].prefix = b[i][1]
      BY <2>2 DEF Body
    <3> QED BY <3>1, <3>2, <3>3
  <2>5. \A i \in 1..Len(body) : body[i].prefix # "@@"
    <3> HIDE DEF body
    <3> QED BY <2>4
  <2> HIDE DEF body
  <2> QED BY <2>1, <2>3, <2>4, <2>5, HunkIsShaped DEF body
<1>4. Len(hs) = k /\ DOMAIN hs = 1..k /\ \A i \in 1..k : HunkShaped(hs[i])
  BY <1>2, <1>3
<1>5. Shaped(Modify(FALSE, hs))
  <2>1. Len(hs) \in Nat
    BY <1>4
  <2> QED BY <1>4, <2>1, ModifyIsShaped
<1>6. ASSUME NEW c, Shaped(c) PROVE ChangesShaped(<<c>>)
  BY <1>6 DEF ChangesShaped
<1> QED BY <1>1, <1>5, <1>6

LEMMA OddBodiesShaped ==
    ASSUME NEW b \in OddBodies
    PROVE  /\ HunkShaped(Hunk(1, b))
           /\ b \in Seq(OddLines)
<1>0. ASSUME NEW l \in OddLines PROVE l.prefix # "@@"
  <2>1. \E says : l \in {Body(" ", says), Body("\\", says), Body("+", says), Body("-", says)}
    BY Zenon DEF OddLines
  <2>2. PICK says : l \in {Body(" ", says), Body("\\", says), Body("+", says), Body("-", says)}
    BY <2>1
  <2>3. \E p \in {" ", "\\", "+", "-"} : l = Body(p, says)
    BY <2>2, Zenon
  <2>4. \A p \in {" ", "\\", "+", "-"} : Body(p, says).prefix # "@@"
    BY DEF Body
  <2> QED BY <2>3, <2>4
<1> DEFINE short == {x \in SeqsUpTo(OddLines, MaxBody) : OldCount(x) + NewCount(x) > 0}
<1>1. ASSUME NEW x \in short PROVE x \in Seq(OddLines)
  <2>1. PICK n \in 1..MaxBody : x \in [1..n -> OddLines]
    BY DEF SeqsUpTo
  <2>2. n \in Nat
    BY TextAssumption
  <2> QED BY <2>1, <2>2, SeqDef
<1>2. b \in short \/ \E x \in short : b = <<Body(" ", Word)>> \o x
  BY DEF OddBodies
<1>3. <<Body(" ", Word)>> \in Seq(OddLines)
  BY DEF OddLines
<1> HIDE DEF short
<1>4. b \in Seq(OddLines)
  BY <1>1, <1>2, <1>3, ConcatProperties
<1>5. Len(b) \in Nat /\ \A i \in 1..Len(b) : b[i] \in OddLines
  BY <1>4
<1> QED BY <1>0, <1>4, <1>5, HunkIsShaped

LEMMA FollowShaped ==
    ASSUME NEW header \in BOOLEAN, NEW more \in Follow(header)
    PROVE  ChangesShaped(more)
<1>1. ASSUME NEW c, Shaped(c) PROVE ChangesShaped(<<c>>)
  BY <1>1 DEF ChangesShaped
<1>2. ChangesShaped(<<>>)
  BY DEF ChangesShaped
<1>3. \A p \in {"+", "-"} : HunkShaped(Hunk(1, <<Body(p, Word)>>))
  BY OneLineHunk DEF Body
<1>4. Shaped(Modify(header, <<Hunk(1, <<Body("+", Word)>>)>>))
  BY <1>3, OneHunk, ModifyIsShaped
<1>5. ASSUME NEW op \in {"create", "delete"}
      PROVE  Shaped([NoChange EXCEPT !.header = header, !.path = "q", !.op = op,
                       !.hunks = <<Hunk(1, <<Body(IF op = "create" THEN "+" ELSE "-", Word)>>)>>])
  <2> DEFINE h == Hunk(1, <<Body(IF op = "create" THEN "+" ELSE "-", Word)>>)
  <2>1. HunkShaped(h)
    <3>1. CASE op = "create"
      BY <1>3, <3>1
    <3>2. CASE op = "delete"
      BY <1>3, <3>2
    <3> QED BY <3>1, <3>2
  <2> HIDE DEF h
  <2>2. Shaped([NoChange EXCEPT !.header = header, !.path = "q", !.op = op, !.hunks = <<h>>])
    <3>1. Len(<<h>>) \in Nat /\ DOMAIN <<h>> = 1..Len(<<h>>) /\ \A i \in 1..Len(<<h>>) : HunkShaped(<<h>>[i])
      BY <2>1, OneHunk
    <3> QED BY <3>1 DEF Shaped, NoChange
  <2> QED BY <2>2 DEF h
<1>6. /\ Shaped([NoChange EXCEPT !.header = TRUE, !.path = "q", !.op = "rename", !.old = "o"])
      /\ Shaped([NoChange EXCEPT !.header = TRUE, !.path = "q", !.mode = "755"])
      /\ Shaped([NoChange EXCEPT !.header = TRUE, !.path = "q", !.binary = TRUE])
  <2>1. Len(<<>>) = 0 /\ DOMAIN <<>> = 1..Len(<<>>) /\ \A i \in 1..Len(<<>>) : HunkShaped(<<>>[i])
    OBVIOUS
  <2> QED BY <2>1 DEF Shaped, NoChange
<1>7. \/ more = <<>>
      \/ more = <<Modify(header, <<Hunk(1, <<Body("+", Word)>>)>>)>>
      \/ \E op \in {"create", "delete"} :
           more = <<[NoChange EXCEPT !.header = header, !.path = "q", !.op = op,
                       !.hunks = <<Hunk(1, <<Body(IF op = "create" THEN "+" ELSE "-", Word)>>)>>]>>
      \/ more = <<[NoChange EXCEPT !.header = TRUE, !.path = "q", !.op = "rename", !.old = "o"]>>
      \/ more = <<[NoChange EXCEPT !.header = TRUE, !.path = "q", !.mode = "755"]>>
      \/ more = <<[NoChange EXCEPT !.header = TRUE, !.path = "q", !.binary = TRUE]>>
  BY Zenon DEF Follow
<1> QED BY <1>1, <1>2, <1>4, <1>5, <1>6, <1>7, Zenon

LEMMA OddShaped ==
    ASSUME NEW header \in BOOLEAN, NEW cs \in Odd(header)
    PROVE  /\ ChangesShaped(cs)
           /\ Len(cs) > 0 /\ Len(cs[1].hunks) > 0
           /\ cs[1].hunks[1].lines \in Seq(OddLines)
<1>0. PICK first \in OddModify(header), more \in Follow(header) : cs = <<first>> \o more
  BY DEF Odd
<1>1. PICK b \in OddBodies, second \in Second : first = Modify(header, <<Hunk(1, b)>> \o second)
  BY DEF OddModify
<1>2. HunkShaped(Hunk(1, b)) /\ b \in Seq(OddLines) /\ Hunk(1, b).lines = b
  BY OddBodiesShaped DEF Hunk
<1>3. HunkShaped(Hunk(2, <<Body("-", Word)>>))
  BY OneLineHunk DEF Body
<1> DEFINE hs == <<Hunk(1, b)>> \o second
<1>4. /\ Len(hs) \in Nat /\ Len(hs) > 0 /\ DOMAIN hs = 1..Len(hs)
      /\ \A i \in 1..Len(hs) : HunkShaped(hs[i])
      /\ hs[1] = Hunk(1, b)
  <2>1. CASE second = <<>>
    <3>1. hs = <<Hunk(1, b)>>
      BY <2>1
    <3> HIDE DEF hs
    <3> QED BY <1>2, <3>1
  <2>2. CASE second = <<Hunk(2, <<Body("-", Word)>>)>>
    <3> DEFINE h == Hunk(1, b)
               g == Hunk(2, <<Body("-", Word)>>)
    <3>1. hs = <<h>> \o <<g>>
      BY <2>2
    <3> HIDE DEF hs, h, g
    <3>2. hs \in Seq({h, g}) /\ Len(hs) = 2 /\ hs[1] = h /\ hs[2] = g
      <4>1. <<h>> \in Seq({h, g}) /\ <<g>> \in Seq({h, g}) /\ Len(<<h>>) = 1 /\ Len(<<g>>) = 1
            /\ <<h>>[1] = h /\ <<g>>[1] = g
        OBVIOUS
      <4> QED BY <3>1, <4>1, ConcatProperties
    <3>3. HunkShaped(h) /\ HunkShaped(g)
      BY <1>2, <1>3 DEF h, g
    <3> QED BY <3>2, <3>3 DEF h
  <2> QED BY <2>1, <2>2 DEF Second
<1> HIDE DEF hs
<1> DEFINE c == Modify(header, hs)
<1>5. Shaped(c) /\ c.hunks = hs
  BY <1>4, ModifyIsShaped
<1>6. ChangesShaped(more)
  BY FollowShaped
<1> HIDE DEF c
<1>7. cs = <<c>> \o more
  BY <1>0, <1>1 DEF c, hs
<1>8. /\ Len(cs) = 1 + Len(more) /\ cs = [i \in 1..Len(cs) |-> cs[i]]
      /\ cs[1] = c /\ \A i \in 2..Len(cs) : cs[i] = more[i - 1]
  <2> DEFINE S == {c} \cup {more[i] : i \in 1..Len(more)}
  <2>1. more \in Seq(S) /\ <<c>> \in Seq(S)
    <3>1. \A i \in 1..Len(more) : more[i] \in S
      OBVIOUS
    <3>2. c \in S
      OBVIOUS
    <3> HIDE DEF S
    <3> QED BY <1>6, <3>1, <3>2 DEF ChangesShaped
  <2> HIDE DEF S
  <2> QED BY <1>7, <2>1
<1>9. ChangesShaped(cs)
  <2>1. Len(more) \in Nat /\ \A i \in 1..Len(more) : Shaped(more[i])
    BY <1>6 DEF ChangesShaped
  <2>2. ASSUME NEW i \in 1..Len(cs) PROVE Shaped(cs[i])
    <3>1. i = 1 \/ (i \in 2..Len(cs) /\ i - 1 \in 1..Len(more))
      BY <1>8, <2>1
    <3> QED BY <1>5, <1>8, <2>1, <3>1
  <2>3. Len(cs) \in Nat
    BY <1>8, <2>1
  <2> QED BY <1>8, <2>2, <2>3 DEF ChangesShaped
<1> QED
  <2>1. Len(more) \in Nat
    BY <1>6 DEF ChangesShaped
  <2> QED BY <1>2, <1>4, <1>5, <1>8, <1>9, <2>1

LEMMA InitNumbered == TextInit => Numbered(text)
<1> SUFFICES ASSUME TextInit PROVE Numbered(text)
  OBVIOUS
<1>1. CASE intended \in Placements /\ slips = NoSlips /\ Begin(Written(intended, slips))
  <2>1. slips.stray = 0 /\ slips.tail = "none"
    BY <1>1 DEF NoSlips
  <2>2. ChangesShaped(intended)
    BY <1>1, PlacementsShaped
  <2>3. Numbered(Written(intended, slips))
    BY <2>1, <2>2, WrittenNumbered
  <2> QED BY <1>1, <2>3 DEF Begin
<1>2. CASE /\ intended \in Odd(TRUE) \cup Odd(FALSE) /\ slips \in Slips
           /\ slips.stray < Len(intended[1].hunks[1].lines)
           /\ Begin(Written(intended, slips))
  <2>1. slips.stray \in Nat /\ slips.tail # "@@"
    BY <1>2, TextAssumption DEF Slips
  <2>2. /\ ChangesShaped(intended)
        /\ Len(intended) > 0 /\ Len(intended[1].hunks) > 0
        /\ intended[1].hunks[1].lines \in Seq(OddLines)
    BY <1>2, OddShaped
  <2>3. Numbered(Written(intended, slips))
    BY <1>2, <2>1, <2>2, WrittenNumbered
  <2> QED BY <1>2, <2>3 DEF Begin
<1>3. CASE \E t \in Broken : Begin(t)
  <2>1. PICK t \in Broken : Begin(t)
    BY <1>3
  <2>2. Numbered(t)
    BY DEF Broken, Line, Numbered, HeaderIsNumbered
  <2> QED BY <2>1, <2>2 DEF Begin
<1> QED BY <1>1, <1>2, <1>3 DEF TextInit
(* The hunks of a patch: what the parser makes of its text *)

\* The lines a body can be read from, and the hunks and changes made of them.
Args == {text[i].arg : i \in Nat} \cup {"none"}
Bodies == {Body(Prefix(text[i]), Says(text[i])) : i \in Nat} \cup {Body(" ", "empty")}
Hunks == {Hunk(start, body) : start \in Nat, body \in Seq(Bodies)}
Changes == [op : {"modify", "create", "delete", "rename"}, path : Args, old : Args, mode : Args,
            binary : BOOLEAN, header : BOOLEAN, hunks : Seq(Hunks)]

ParseTyped ==
    /\ pos \in Nat \ {0}
    /\ change \in Changes
    /\ hunk = [start |-> hunk.start, lines |-> hunk.lines, old |-> hunk.old, new |-> hunk.new]
    /\ hunk.start \in Nat /\ hunk.lines \in Seq(Bodies)
    /\ parsed \in Seq(Changes)

\* The hunks staged for a file are made of its words.
Staged(h) ==
    /\ h.start \in Nat
    /\ OldSide(h) \in Seq(Words) /\ NewSide(h) \in Seq(Words)

ApplyTyped ==
    /\ file \in Seq(Words) /\ lines \in Seq(Words)
    /\ hunks \in Seq(Hunks) /\ Len(placed) <= Len(hunks)
    /\ \A i \in 1..Len(hunks) : Staged(hunks[i])
    /\ placed \in Seq(Int)
    /\ offset \in Int /\ resize \in Int /\ floor \in Nat

\* Where hunk i was put in the file, and where its old lines end there.
At(i) == PlaceOf(hunks[i], placed[i])
End(i) == IF i = 0 THEN 0 ELSE At(i) + Len(OldSide(hunks[i]))
Done == Len(placed)

\* The lines are made of the file's and the new ones, piece by piece, and behind
\* the last hunk put they are the file's.
Pieces(u) ==
    /\ u[0] = <<>>
    /\ \A i \in 1..Done :
         u[i] = u[i - 1] \o SubSeq(file, End(i - 1) + 1, At(i)) \o NewSide(hunks[i])
Assembled ==
    \E u \in [0..Done -> Seq(Words)] :
        /\ Pieces(u)
        /\ lines = u[Done] \o SubSeq(file, End(Done) + 1, Len(file))
        /\ floor = Len(u[Done])
        /\ resize = floor - End(Done)
HunksFit ==
    /\ \A i \in 1..Done : MatchesAt(file, OldSide(hunks[i]), At(i)) /\ End(i - 1) <= At(i)
    /\ End(Done) <= Len(file)

\* As long as every hunk stands where it declares, what shifts the next one is
\* what the hunks before it have added.
Exact ==
    Fit(file, hunks, Declares) =>
        /\ offset = resize
        /\ outcome # "patch_conflict"
        /\ \A i \in 1..Done : placed[i] = hunks[i].start

TextInv == Numbered(text) /\ ParseTyped /\ ApplyTyped /\ Assembled /\ HunksFit /\ Exact
-----------------------------------------------------------------------------
(* Every step of the parser keeps the types of what it reads *)

LEMMA NoChangeTyped == NoChange \in Changes
<1>1. "none" \in Args /\ <<>> \in Seq(Hunks)
  BY DEF Args
<1> QED BY <1>1 DEF NoChange, Changes

LEMMA PeekArg ==
    ASSUME ParseTyped
    PROVE  Peek.arg \in Args /\ text[pos + 1].arg \in Args
BY DEF ParseTyped, Peek, Args

LEMMA SetsStay ==
    ASSUME text' = text
    PROVE  Args' = Args /\ Bodies' = Bodies /\ Hunks' = Hunks /\ Changes' = Changes
<1>1. Args' = Args /\ Bodies' = Bodies
  BY DEF Args, Bodies
<1>2. Hunks' = Hunks
  BY <1>1 DEF Hunks
<1> QED BY <1>1, <1>2 DEF Changes

\* A step that leaves the hunk alone.
LEMMA FileStepTyped ==
    ASSUME ParseTyped, text' = text, hunk' = hunk, pos' \in Nat \ {0},
           change' \in Changes, parsed' \in Seq(Changes)
    PROVE  ParseTyped'
BY SetsStay DEF ParseTyped

LEMMA FirstStop ==
    ASSUME NEW stops, stops \subseteq Nat \ {0}, NEW last \in Nat \ {0}, \A j \in stops : j <= last
    PROVE  (CHOOSE i \in stops \cup {last} : \A j \in stops : i <= j) \in Nat \ {0}
<1>1. \E i \in stops \cup {last} : \A j \in stops : i <= j
  <2>1. CASE stops = {}
    BY <2>1
  <2>2. CASE stops # {}
    <3>1. stops \subseteq Nat
      OBVIOUS
    <3>2. \E m \in stops : \A k \in stops : m <= k
      BY <2>2, <3>1, LeastOf
    <3> QED BY <3>2
  <2> QED BY <2>1, <2>2
<1>2. (CHOOSE i \in stops \cup {last} : \A j \in stops : i <= j) \in stops \cup {last}
  BY <1>1, Zenon
<1> QED BY <1>2

LEMMA HunkCounted ==
    ASSUME NEW h, h = [start |-> h.start, lines |-> h.lines, old |-> h.old, new |-> h.new]
    PROVE  [h EXCEPT !.old = OldCount(h.lines), !.new = NewCount(h.lines)] = Hunk(h.start, h.lines)
<1>0. PICK s, b, o, n : s = h.start /\ b = h.lines /\ o = h.old /\ n = h.new
  OBVIOUS
<1>1. PICK x, y : x = OldCount(h.lines) /\ y = NewCount(h.lines)
  OBVIOUS
<1>2. PICK g : g = [h EXCEPT !.old = x]
  OBVIOUS
<1>3. h = [start |-> s, lines |-> b, old |-> o, new |-> n]
  BY <1>0
<1>4. g = [start |-> s, lines |-> b, old |-> x, new |-> n]
  BY <1>2, <1>3
<1>5. [g EXCEPT !.new = y] = [start |-> s, lines |-> b, old |-> x, new |-> y]
  BY <1>4
<1>6. [h EXCEPT !.old = x, !.new = y] = [g EXCEPT !.new = y]
  BY <1>2
<1> QED BY <1>0, <1>1, <1>5, <1>6 DEF Hunk

LEMMA ParseInit == TextInit => ParseTyped
<1> SUFFICES ASSUME TextInit PROVE ParseTyped
  OBVIOUS
<1>1. pos = 1 /\ change = NoChange /\ hunk = NoHunk /\ parsed = <<>>
  BY DEF TextInit, Begin
<1> QED BY <1>1, NoChangeTyped DEF ParseTyped, NoHunk

LEMMA ParseStepTyped ==
    ASSUME Numbered(text), ParseTyped, ParseStep
    PROVE  text' = text /\ ParseTyped'
<1> USE DEF Passes, Refuse, Is, HasLine
<1>0. /\ pos \in Nat \ {0} /\ change \in Changes /\ parsed \in Seq(Changes)
      /\ Peek.arg \in Args /\ text[pos + 1].arg \in Args
  BY PeekArg DEF ParseTyped
<1>1. CASE BeginsFile
  <2>1. change' \in Changes
    <3>1. [NoChange EXCEPT !.header = TRUE, !.path = Peek.arg] \in Changes
      BY <1>0, NoChangeTyped DEF Changes
    <3> QED BY <1>1, <3>1, NoChangeTyped DEF BeginsFile
  <2> QED BY <1>0, <1>1, <2>1, FileStepTyped DEF BeginsFile
<1>2. CASE NoFile \/ SkipsBetween \/ EndsText
  BY <1>0, <1>2, FileStepTyped DEF NoFile, SkipsBetween, EndsText
<1>3. CASE EndsFile
  <2>1. parsed' = Append(parsed, change) /\ pos' = pos + 0 /\ UNCHANGED <<text, change, hunk>>
    BY <1>3 DEF EndsFile, Finishes
  <2>2. pos' = pos /\ parsed' \in Seq(Changes)
    BY <1>0, <2>1, AppendProperties
  <2> QED BY <1>0, <2>1, <2>2, FileStepTyped
<1>4. CASE ReadsMode \/ ReadsRename
  <2>1. /\ text' = text /\ hunk' = hunk /\ parsed' = parsed
        /\ pos' \in {pos + 1, pos + 2}
        /\ change' \in {change, [change EXCEPT !.op = "create"], [change EXCEPT !.op = "delete"],
                        [change EXCEPT !.mode = text[pos + 1].arg],
                        [change EXCEPT !.op = "rename", !.old = Peek.arg],
                        [change EXCEPT !.path = Peek.arg]}
    BY <1>4 DEF ReadsMode, ReadsRename, Reads
  <2>2. change' \in Changes
    BY <1>0, <2>1 DEF Changes
  <2> QED BY <1>0, <2>1, <2>2, FileStepTyped
<1>5. CASE BadMode \/ BadHunk \/ SkipsInFile \/ StrayLine
  <2>1. UNCHANGED <<text, change, hunk, parsed>> /\ pos' \in {pos, pos + 1}
    <3>1. CASE BadMode \/ StrayLine
      BY <3>1 DEF BadMode, StrayLine
    <3>2. CASE BadHunk
      BY <3>2 DEF BadHunk
    <3>3. CASE SkipsInFile
      BY <3>3 DEF SkipsInFile
    <3> QED BY <1>5, <3>1, <3>2, <3>3
  <2> QED BY <1>0, <2>1, FileStepTyped
<1>6. CASE ReadsBinary
  <2> DEFINE stops == {i \in pos + 1 .. Len(text) : text[i].kind \in {"git", "badgit", "blank"}}
             end == IF Peek.kind = "binary" THEN pos + 1
                    ELSE CHOOSE i \in stops \cup {Len(text) + 1} : \A j \in stops : i <= j
             c == [change EXCEPT !.binary = TRUE]
  <2>1. Finishes(c, end - pos)
    BY <1>6 DEF ReadsBinary
  <2>2. Len(text) \in Nat
    BY DEF Numbered
  <2>3. stops \subseteq Nat \ {0} /\ \A j \in stops : j <= Len(text) + 1
    BY <1>0, <2>2
  <2>4. end \in Nat \ {0}
    <3>1. pos + 1 \in Nat \ {0} /\ Len(text) + 1 \in Nat \ {0}
      BY <1>0, <2>2
    <3> HIDE DEF stops
    <3>0. PICK t, l : t = stops /\ l = Len(text) + 1
      OBVIOUS
    <3>3. t \subseteq Nat \ {0} /\ l \in Nat \ {0} /\ \A j \in t : j <= l
      BY <2>3, <3>0, <3>1
    <3>4. (CHOOSE i \in t \cup {l} : \A j \in t : i <= j) \in Nat \ {0}
      BY <3>3, FirstStop
    <3>2. (CHOOSE i \in stops \cup {Len(text) + 1} : \A j \in stops : i <= j) \in Nat \ {0}
      BY <3>0, <3>4, Zenon
    <3> QED BY <3>1, <3>2
  <2>5. c \in Changes
    BY <1>0 DEF Changes
  <2> HIDE DEF end, c
  <2>6. pos' = end /\ parsed' = Append(parsed, c) /\ UNCHANGED <<text, change, hunk>>
    BY <1>0, <2>1, <2>4 DEF Finishes
  <2>7. parsed' \in Seq(Changes)
    BY <1>0, <2>5, <2>6, AppendProperties
  <2> QED BY <1>0, <2>4, <2>6, <2>7, FileStepTyped
<1>7. CASE ReadsPair
  <2>1. ASSUME NEW op \in {"create", "delete"} PROVE Named(Implies(change, Peek.arg, op), Peek.arg) \in Changes
    <3>1. Implies(change, Peek.arg, op) \in Changes
      BY <1>0 DEF Implies, Changes
    <3> QED BY <1>0, <3>1 DEF Named, Changes
  <2>2. change' \in Changes
    BY <1>7, <2>1 DEF ReadsPair
  <2> QED BY <1>0, <1>7, <2>2, FileStepTyped DEF ReadsPair
<1>8. CASE BeginsHunk
  <2>1. pos \in 1..Len(text) /\ Peek.kind = "@@"
    BY <1>0, <1>8 DEF BeginsHunk, Numbered
  <2>2. Peek.arg.start \in Nat
    BY <2>1 DEF Peek, Numbered, HeaderIsNumbered
  <2>3. hunk' = [start |-> Peek.arg.start, lines |-> <<>>, old |-> Peek.arg.old, new |-> Peek.arg.new]
    BY <1>8 DEF BeginsHunk, NoHunk
  <2>4. UNCHANGED <<text, change, parsed>> /\ pos' = pos + 1
    BY <1>8 DEF BeginsHunk
  <2> QED BY <1>0, <2>2, <2>3, <2>4, SetsStay DEF ParseTyped
<1>9. CASE ReadsBody
  <2> DEFINE l == IF Peek.kind = "blank" THEN [prefix |-> " ", says |-> "empty"]
                  ELSE [prefix |-> Prefix(Peek), says |-> Says(Peek)]
  <2>1. l \in Bodies
    BY <1>0 DEF Bodies, Body, Peek
  <2>2. hunk' = [hunk EXCEPT !.lines = Append(@, l)] /\ UNCHANGED <<text, change, parsed>> /\ pos' = pos + 1
    BY <1>9 DEF ReadsBody
  <2> HIDE DEF l
  <2>3. hunk.lines \in Seq(Bodies) /\ Append(hunk.lines, l) \in Seq(Bodies)
    BY <2>1, AppendProperties DEF ParseTyped
  <2>4. hunk' = [start |-> hunk.start, lines |-> Append(hunk.lines, l), old |-> hunk.old, new |-> hunk.new]
    BY <2>2 DEF ParseTyped
  <2> QED BY <1>0, <2>2, <2>3, <2>4, SetsStay DEF ParseTyped
<1>10. CASE EndsHunk
  <2>1. CASE Old + New = 0
    BY <1>0, <1>10, <2>1, FileStepTyped DEF EndsHunk
  <2>2. CASE Old + New # 0
    <3> DEFINE h == [hunk EXCEPT !.old = Old, !.new = New]
    <3>1. h = Hunk(hunk.start, hunk.lines)
      <4>1. hunk = [start |-> hunk.start, lines |-> hunk.lines, old |-> hunk.old, new |-> hunk.new]
        BY DEF ParseTyped
      <4> QED BY <4>1, HunkCounted DEF Old, New
    <3>2. h \in Hunks
      BY <3>1 DEF ParseTyped, Hunks
    <3>3. change' = [change EXCEPT !.hunks = Append(@, h)] /\ UNCHANGED <<text, pos, hunk, parsed>>
      BY <1>10, <2>2 DEF EndsHunk
    <3> HIDE DEF h
    <3>4. change.hunks \in Seq(Hunks) /\ Append(change.hunks, h) \in Seq(Hunks)
      BY <1>0, <3>2, AppendProperties DEF Changes
    <3>5. change' \in Changes
      BY <1>0, <3>3, <3>4 DEF Changes
    <3> QED BY <1>0, <3>3, <3>5, FileStepTyped
  <2> QED BY <2>1, <2>2
<1> QED BY <1>1, <1>2, <1>3, <1>4, <1>5, <1>6, <1>7, <1>8, <1>9, <1>10 DEF ParseStep

-----------------------------------------------------------------------------
(* A hunk put behind the last one *)

\* Lines that begin with a and go on as f does behind e.
Continues(ls, a, f, e) == ls = a \o SubSeq(f, e + 1, Len(f))

BeginsThenGoesOn(ls, W, a, f, e) ==
    /\ ls \in Seq(W)
    /\ Len(ls) = Len(a) + (Len(f) - e)
    /\ \A i \in 1..Len(a) : ls[i] = a[i]
    /\ \A j \in 1..(Len(f) - e) : ls[Len(a) + j] = f[e + j]

LEMMA PieceIs ==
    ASSUME NEW W, NEW f \in Seq(W), NEW e \in Nat, NEW q \in Nat, e <= q, q <= Len(f)
    PROVE  /\ SubSeq(f, e + 1, q) \in Seq(W)
           /\ Len(SubSeq(f, e + 1, q)) = q - e
           /\ \A j \in 1..(q - e) : SubSeq(f, e + 1, q)[j] = f[e + j]
OBVIOUS

LEMMA ContinuesIs ==
    ASSUME NEW W, NEW f \in Seq(W), NEW a \in Seq(W), NEW e \in Nat, e <= Len(f),
           NEW ls, Continues(ls, a, f, e)
    PROVE  BeginsThenGoesOn(ls, W, a, f, e)
<1> DEFINE t == SubSeq(f, e + 1, Len(f))
<1>1. /\ t \in Seq(W) /\ Len(t) = Len(f) - e
      /\ \A j \in 1..(Len(f) - e) : t[j] = f[e + j]
  OBVIOUS
<1>2. ls = a \o t
  BY DEF Continues
<1> HIDE DEF t
<1>3. /\ ls \in Seq(W)
      /\ Len(ls) = Len(a) + Len(t)
      /\ \A i \in 1..Len(a) + Len(t) : ls[i] = IF i <= Len(a) THEN a[i] ELSE t[i - Len(a)]
  BY <1>1, <1>2, ConcatProperties
<1>4. ASSUME NEW j \in 1..(Len(f) - e) PROVE ls[Len(a) + j] = f[e + j]
  <2>1. Len(a) + j \in 1..Len(a) + Len(t) /\ ~(Len(a) + j <= Len(a)) /\ Len(a) + j - Len(a) = j
    BY <1>1
  <2> QED BY <1>1, <1>3, <2>1
<1>5. ASSUME NEW i \in 1..Len(a) PROVE ls[i] = a[i]
  <2>1. i \in 1..Len(a) + Len(t) /\ i <= Len(a)
    BY <1>1
  <2> QED BY <1>3, <2>1
<1> QED BY <1>1, <1>3, <1>4, <1>5 DEF BeginsThenGoesOn

\* Old lines stand in the lines where they stand in the file.
LEMMA MatchesBehind ==
    ASSUME NEW W, NEW f \in Seq(W), NEW a \in Seq(W), NEW e \in Nat, e <= Len(f),
           NEW ls, Continues(ls, a, f, e),
           NEW old, Len(old) \in Nat, NEW p \in Int, p >= Len(a)
    PROVE  MatchesAt(ls, old, p) <=> MatchesAt(f, old, p - Len(a) + e)
<1>0. BeginsThenGoesOn(ls, W, a, f, e)
  BY ContinuesIs
<1>1. /\ Len(a) \in Nat /\ Len(f) \in Nat
      /\ Len(ls) = Len(a) + (Len(f) - e)
      /\ \A j \in 1..(Len(f) - e) : ls[Len(a) + j] = f[e + j]
  BY <1>0 DEF BeginsThenGoesOn
<1> DEFINE q == p - Len(a) + e
<1>2. 0 <= p /\ 0 <= q /\ q \in Int /\ (p + Len(old) <= Len(ls) <=> q + Len(old) <= Len(f))
  BY <1>1
<1>3. ASSUME NEW k \in 1..Len(old), p + Len(old) <= Len(ls) PROVE ls[p + k] = f[q + k]
  <2>1. p + k - Len(a) \in 1..(Len(f) - e)
    BY <1>1, <1>3
  <2>2. p + k = Len(a) + (p + k - Len(a)) /\ q + k = e + (p + k - Len(a))
    BY <1>1
  <2> QED BY <1>1, <2>1, <2>2
<1> HIDE DEF q
<1>4. MatchesAt(ls, old, p) <=> MatchesAt(f, old, q)
  BY <1>2, <1>3 DEF MatchesAt
<1> QED BY <1>4 DEF q

PutThere(W, f, b, ls, end, q, k) ==
    /\ b \in Seq(W) /\ Len(b) = end
    /\ q \in Nat /\ q + k <= Len(f)
    /\ Continues(ls, b, f, q + k)

\* The lines with a hunk put in them begin with a, with what is left of the file up
\* to the hunk's place and with its new lines, and go on as the file does behind it.
LEMMA SplicedContinues ==
    ASSUME NEW W, NEW f \in Seq(W), NEW a \in Seq(W), NEW e \in Nat, e <= Len(f),
           NEW ls, Continues(ls, a, f, e),
           NEW new \in Seq(W), NEW k \in Nat, NEW p \in Int, p >= Len(a), p + k <= Len(ls),
           NEW q \in Int, q = p - Len(a) + e
    PROVE  PutThere(W, f, a \o SubSeq(f, e + 1, q) \o new, Spliced(ls, p, k, new), p + Len(new), q, k)
<1>0. BeginsThenGoesOn(ls, W, a, f, e)
  BY ContinuesIs
<1>1. /\ Len(a) \in Nat /\ Len(f) \in Nat /\ Len(new) \in Nat
      /\ ls \in Seq(W) /\ Len(ls) = Len(a) + (Len(f) - e)
      /\ \A i \in 1..Len(a) : ls[i] = a[i]
      /\ \A j \in 1..(Len(f) - e) : ls[Len(a) + j] = f[e + j]
  BY <1>0 DEF BeginsThenGoesOn
<1>2. q \in Nat /\ e <= q /\ q + k <= Len(f)
  BY <1>1
<1> DEFINE m == SubSeq(f, e + 1, q)
<1>3. m \in Seq(W) /\ Len(m) = q - e /\ \A j \in 1..(q - e) : m[j] = f[e + j]
  <2>1. q <= Len(f)
    BY <1>1, <1>2
  <2> QED BY <1>2, <2>1, PieceIs
<1> HIDE DEF m
<1>4. a \o m \in Seq(W) /\ Len(a \o m) = p
      /\ \A i \in 1..p : (a \o m)[i] = IF i <= Len(a) THEN a[i] ELSE m[i - Len(a)]
  <2>1. Len(a) + Len(m) = p
    BY <1>1, <1>2, <1>3
  <2> QED BY <1>3, <2>1, ConcatProperties
<1>5. SubSeq(ls, 1, p) = a \o m
  <2>1. SubSeq(ls, 1, p) \in Seq(W) /\ Len(SubSeq(ls, 1, p)) = p
        /\ \A i \in 1..p : SubSeq(ls, 1, p)[i] = ls[i]
    BY <1>1
  <2>2. ASSUME NEW i \in 1..p PROVE ls[i] = (a \o m)[i]
    <3>1. CASE i <= Len(a)
      BY <1>1, <1>4, <3>1
    <3>2. CASE i > Len(a)
      <4>0. q = p - Len(a) + e /\ i \in Int /\ i <= p
        OBVIOUS
      <4>1. i - Len(a) \in 1..(q - e) /\ i - Len(a) \in 1..(Len(f) - e) /\ Len(a) + (i - Len(a)) = i
        BY <1>1, <1>2, <3>2, <4>0
      <4>2. ls[i] = f[e + (i - Len(a))]
        BY <1>1, <4>1
      <4>3. (a \o m)[i] = m[i - Len(a)]
        BY <1>4, <3>2, <1>1, <4>0
      <4>4. m[i - Len(a)] = f[e + (i - Len(a))]
        BY <1>3, <4>1
      <4> QED BY <4>2, <4>3, <4>4
    <3>3. i <= Len(a) \/ i > Len(a)
      BY <1>1
    <3> QED BY <3>1, <3>2, <3>3, Zenon
  <2> QED BY <1>4, <2>1, <2>2, SeqEqual
<1>6. SubSeq(ls, p + k + 1, Len(ls)) = SubSeq(f, q + k + 1, Len(f))
  <2> DEFINE x == SubSeq(ls, p + k + 1, Len(ls))
             y == SubSeq(f, q + k + 1, Len(f))
             n == Len(f) - (q + k)
  <2>0. n \in Nat /\ Len(ls) - (p + k) = n
    BY <1>1, <1>2
  <2>1. x \in Seq(W) /\ Len(x) = n /\ \A i \in 1..n : x[i] = ls[p + k + i]
    BY <1>1, <2>0
  <2>2. y \in Seq(W) /\ Len(y) = n /\ \A i \in 1..n : y[i] = f[q + k + i]
    BY <1>1, <1>2, <2>0
  <2> HIDE DEF x, y
  <2>3. ASSUME NEW i \in 1..n PROVE x[i] = y[i]
    <3>1. p + k + i - Len(a) \in 1..(Len(f) - e)
      BY <1>1, <1>2
    <3>2. p + k + i = Len(a) + (p + k + i - Len(a)) /\ q + k + i = e + (p + k + i - Len(a))
      BY <1>1, <1>2
    <3>3. ls[p + k + i] = f[q + k + i]
      BY <1>1, <3>1, <3>2
    <3> QED BY <2>1, <2>2, <3>3
  <2> HIDE DEF n
  <2>4. x = y
    BY <2>1, <2>2, <2>3, SeqEqual
  <2> QED BY <2>4 DEF x, y
<1>7. (a \o m) \o new \in Seq(W) /\ Len((a \o m) \o new) = p + Len(new)
  BY <1>4, ConcatProperties
<1>8. Spliced(ls, p, k, new) = ((a \o m) \o new) \o SubSeq(f, q + k + 1, Len(f))
  BY <1>5, <1>6 DEF Spliced
<1> QED BY <1>2, <1>7, <1>8 DEF m, Continues, PutThere

-----------------------------------------------------------------------------
(* Every step of applyModify keeps where the hunks are and what the lines are *)

ApplyInv == ApplyTyped /\ Assembled /\ HunksFit

LEMMA SidesCount ==
    ASSUME ApplyTyped, NEW i \in 1..Len(hunks)
    PROVE  /\ hunks[i].start \in Nat
           /\ OldSide(hunks[i]) \in Seq(Words) /\ NewSide(hunks[i]) \in Seq(Words)
           /\ Len(OldSide(hunks[i])) \in Nat /\ Len(NewSide(hunks[i])) \in Nat
BY DEF ApplyTyped, Staged

\* Where the lines go on as the file does.
LEMMA LinesNow ==
    ASSUME ApplyInv
    PROVE  \E u \in [0..Done -> Seq(Words)] :
             /\ Pieces(u) /\ u[Done] \in Seq(Words)
             /\ Continues(lines, u[Done], file, End(Done))
             /\ Len(u[Done]) = floor /\ floor - End(Done) = resize
             /\ End(Done) \in Nat /\ End(Done) <= Len(file) /\ Done \in Nat
<1>1. PICK u \in [0..Done -> Seq(Words)] :
        /\ Pieces(u)
        /\ lines = u[Done] \o SubSeq(file, End(Done) + 1, Len(file))
        /\ floor = Len(u[Done])
        /\ resize = floor - End(Done)
  BY DEF ApplyInv, Assembled
<1>2. Done \in Nat /\ Done \in 0..Done
  BY DEF ApplyInv, ApplyTyped, Done
<1>3. End(Done) \in Nat
  <2>1. CASE Done = 0
    BY <2>1 DEF End
  <2>2. CASE Done # 0
    <3>1. Done \in 1..Done /\ Done \in 1..Len(hunks)
      BY <1>2, <2>2 DEF ApplyInv, ApplyTyped, Done
    <3>2. At(Done) \in Nat
      <4>1. placed[Done] \in Int /\ 0 <= At(Done)
        BY <3>1 DEF ApplyInv, ApplyTyped, HunksFit, MatchesAt, Done
      <4>2. At(Done) \in Int
        BY <4>1 DEF At, PlaceOf
      <4> QED BY <4>1, <4>2
    <3> QED BY <2>2, <3>1, <3>2, SidesCount DEF End, ApplyInv
  <2> QED BY <2>1, <2>2
<1>4. End(Done) <= Len(file)
  BY DEF ApplyInv, HunksFit
<1> QED BY <1>1, <1>2, <1>3, <1>4 DEF Continues

\* A hunk is put where its old lines stand in the lines, behind the last one, and
\* its place in the file is reported.
LEMMA PutKeeps ==
    ASSUME ApplyInv, HasHunk, NEW p \in Int, NEW applied \in Int,
           MatchesAt(lines, OldSide(Now), p), p >= floor,
           PlaceOf(Now, applied) = p - resize,
           Put(p, applied), Hunks' = Hunks
    PROVE  ApplyInv'
<1>1. PICK u \in [0..Done -> Seq(Words)] :
        /\ Pieces(u) /\ u[Done] \in Seq(Words)
        /\ Continues(lines, u[Done], file, End(Done))
        /\ Len(u[Done]) = floor /\ floor - End(Done) = resize
        /\ End(Done) \in Nat /\ End(Done) <= Len(file) /\ Done \in Nat
  BY LinesNow
<1>0. PICK n : n = Done
  OBVIOUS
<1> DEFINE h == hunks[n + 1]
           k == Len(OldSide(h))
           new == NewSide(h)
           a == u[n]
           e == End(n)
           q == p - resize
           b == a \o SubSeq(file, e + 1, q) \o new
           v == [i \in 0..(n + 1) |-> IF i = n + 1 THEN b ELSE u[i]]
<1>2. n + 1 \in 1..Len(hunks) /\ Now = h /\ n \in Nat
  BY <1>0, <1>1 DEF HasHunk, Done, Now, ApplyInv, ApplyTyped
<1>3. h.start \in Nat /\ OldSide(h) \in Seq(Words) /\ new \in Seq(Words) /\ k \in Nat /\ Len(new) \in Nat
  BY <1>2, SidesCount DEF ApplyInv
<1>4. /\ file \in Seq(Words) /\ a \in Seq(Words) /\ e \in Nat /\ e <= Len(file)
      /\ Len(a) = floor /\ resize = Len(a) - e /\ Len(a) \in Nat
      /\ Continues(lines, a, file, e)
      /\ offset \in Int /\ resize \in Int /\ floor \in Nat
      /\ placed \in Seq(Int) /\ Len(placed) = n /\ hunks \in Seq(Hunks)
  BY <1>0, <1>1 DEF ApplyInv, ApplyTyped, Done
<1>5. /\ lines' = Spliced(lines, p, k, new)
      /\ placed' = Append(placed, applied)
      /\ floor' = p + Len(new)
      /\ offset' = floor' - (IF k = 0 THEN h.start ELSE h.start - 1 + k)
      /\ resize' = resize + Len(new) - k
      /\ UNCHANGED <<file, hunks, outcome>>
  BY <1>2 DEF Put
<1>6. p + k <= Len(lines) /\ MatchesAt(file, OldSide(h), q)
  <2>1. p - Len(a) + e = q
    BY <1>4
  <2>2. p >= Len(a)
    BY <1>4
  <2>3. MatchesAt(file, OldSide(h), p - Len(a) + e)
    <3> HIDE DEF h, a, e, q, b, v, k, new
    <3> QED BY <1>2, <1>3, <1>4, <2>2, MatchesBehind DEF k
  <2>4. p + k <= Len(lines)
    BY <1>2 DEF MatchesAt
  <2> QED BY <2>1, <2>3, <2>4
<1> HIDE DEF h, k, new, a, e, q, b, v
<1>7. /\ b \in Seq(Words) /\ Len(b) = p + Len(new)
      /\ q \in Nat /\ q + k <= Len(file) /\ e <= q
      /\ Continues(lines', b, file, q + k)
  <2>1. q \in Int /\ q = p - Len(a) + e /\ p >= Len(a) /\ e <= q
    BY <1>4 DEF q
  <2>2. p + k <= Len(lines) /\ k \in Nat /\ new \in Seq(Words) /\ e <= Len(file)
    BY <1>3, <1>4, <1>6
  <2>3. PutThere(Words, file, a \o SubSeq(file, e + 1, q) \o new, Spliced(lines, p, k, new), p + Len(new), q, k)
    BY <1>4, <2>1, <2>2, SplicedContinues
  <2> QED BY <1>5, <2>1, <2>3 DEF b, PutThere
<1>8. /\ placed' \in Seq(Int) /\ Len(placed') = n + 1
      /\ \A i \in 1..n : placed'[i] = placed[i]
      /\ placed'[n + 1] = applied
  <2>1. placed \in Seq(Int) /\ Len(placed) = n /\ placed' = Append(placed, applied)
    BY <1>4, <1>5
  <2> QED BY <2>1, AppendProperties
<1>9. Done' = n + 1
  BY <1>8 DEF Done
<1>10. /\ \A i \in 1..n : At(i)' = At(i) /\ End(i)' = End(i)
       /\ End(0)' = 0 /\ End(0) = 0
       /\ At(n + 1)' = q
       /\ End(n + 1)' = q + k
  <2>1. ASSUME NEW i \in 1..n PROVE At(i)' = At(i)
    BY <1>5, <1>8 DEF At, PlaceOf
  <2>2. ASSUME NEW i \in 1..n PROVE End(i)' = End(i)
    <3>1. i # 0
      OBVIOUS
    <3> QED BY <1>5, <2>1, <3>1 DEF End
  <2>3. At(n + 1)' = PlaceOf(h, applied)
    BY <1>5, <1>8 DEF At, h
  <2>4. At(n + 1)' = q
    BY <1>2, <2>3 DEF q
  <2>5. End(n + 1)' = At(n + 1)' + Len(OldSide(hunks'[n + 1]))
    <3>1. n + 1 # 0
      BY <1>2
    <3> QED BY <3>1 DEF End
  <2>6. End(n + 1)' = q + k
    BY <1>5, <2>4, <2>5 DEF k, h
  <2> QED BY <2>1, <2>2, <2>4, <2>6 DEF End
<1>11. ASSUME NEW i \in 0..n PROVE End(i)' = End(i)
  <2>1. i = 0 \/ i \in 1..n
    BY <1>2
  <2> QED BY <1>10, <2>1
<1>12. ApplyTyped'
  <2>1. lines' \in Seq(Words)
    <3>1. BeginsThenGoesOn(lines', Words, b, file, q + k)
      <4>1. q + k \in Nat
        BY <1>3, <1>7
      <4> QED BY <1>4, <1>7, <4>1, ContinuesIs
    <3> QED BY <3>1 DEF BeginsThenGoesOn
  <2>2. offset' \in Int /\ resize' \in Int /\ floor' \in Nat
    <3>1. floor' \in Nat
      BY <1>3, <1>4, <1>5
    <3>2. (IF k = 0 THEN h.start ELSE h.start - 1 + k) \in Int
      BY <1>3
    <3> QED BY <1>3, <1>4, <1>5, <3>1, <3>2
  <2>3. Len(placed') <= Len(hunks)
    BY <1>2, <1>8
  <2>4. hunks' \in Seq(Hunks') /\ file' \in Seq(Words)
    BY <1>4, <1>5
  <2>5. \A i \in 1..Len(hunks') : Staged(hunks'[i])
    BY <1>5 DEF ApplyInv, ApplyTyped
  <2> QED BY <1>5, <1>8, <2>1, <2>2, <2>3, <2>4, <2>5 DEF ApplyTyped, Staged
<1>13. HunksFit'
  <2>1. ASSUME NEW i \in 1..(n + 1)
        PROVE  (MatchesAt(file, OldSide(hunks[i]), At(i)) /\ End(i - 1) <= At(i))'
    <3>1. CASE i = n + 1
      <4>1. End(i - 1)' = e
        <5>1. i - 1 = n /\ n \in 0..n
          BY <1>2, <3>1
        <5> QED BY <1>11, <5>1 DEF e
      <4>2. At(i)' = q /\ hunks'[i] = h
        BY <1>5, <1>10, <3>1 DEF h
      <4> QED BY <1>5, <1>6, <1>7, <4>1, <4>2 DEF MatchesAt
    <3>2. CASE i # n + 1
      <4>1. i \in 1..n /\ i - 1 \in 0..n
        BY <1>2, <3>2
      <4>2. MatchesAt(file, OldSide(hunks[i]), At(i)) /\ End(i - 1) <= At(i)
        BY <1>0, <4>1 DEF ApplyInv, HunksFit
      <4>3. At(i)' = At(i) /\ End(i - 1)' = End(i - 1)
        BY <1>10, <1>11, <4>1
      <4> QED BY <1>5, <4>2, <4>3 DEF MatchesAt
    <3> QED BY <3>1, <3>2
  <2>2. End(Done)' <= Len(file')
    <3>1. End(n + 1)' = q + k /\ Done' = n + 1
      BY <1>9, <1>10
    <3>2. End(Done)' = q + k
      BY <3>1
    <3> QED BY <1>5, <1>7, <3>2
  <2> QED BY <1>9, <2>1, <2>2 DEF HunksFit
<1>14. Assembled'
  <2>1. v \in [0..(n + 1) -> Seq(Words)] /\ v[0] = u[0] /\ v[n + 1] = b
        /\ \A i \in 0..n : v[i] = u[i]
    <3>1. \A i \in 0..(n + 1) : i = n + 1 \/ i \in 0..n
      BY <1>2
    <3>2. \A i \in 0..n : i # n + 1 /\ u[i] \in Seq(Words) /\ i \in 0..(n + 1)
      BY <1>0, <1>1, <1>2
    <3> QED BY <1>2, <1>7, <3>1, <3>2 DEF v
  <2>2. ASSUME NEW i \in 1..(n + 1)
        PROVE  v[i] = v[i - 1] \o SubSeq(file', End(i - 1)' + 1, At(i)') \o NewSide(hunks'[i])
    <3>1. CASE i = n + 1
      <4>1. i - 1 = n /\ n \in 0..n
        BY <1>2, <3>1
      <4>2. End(i - 1)' = e /\ v[i - 1] = a
        BY <1>11, <2>1, <4>1 DEF e, a
      <4>3. At(i)' = q /\ hunks'[i] = h
        BY <1>5, <1>10, <3>1 DEF h
      <4> QED BY <1>5, <2>1, <3>1, <4>2, <4>3 DEF b, new
    <3>2. CASE i # n + 1
      <4>1. i \in 1..n /\ i - 1 \in 0..n /\ i \in 0..n
        BY <1>2, <3>2
      <4>2. u[i] = u[i - 1] \o SubSeq(file, End(i - 1) + 1, At(i)) \o NewSide(hunks[i])
        BY <1>0, <1>1, <4>1 DEF Pieces
      <4>3. At(i)' = At(i) /\ End(i - 1)' = End(i - 1)
        BY <1>10, <1>11, <4>1
      <4> QED BY <1>5, <2>1, <4>1, <4>2, <4>3
    <3> QED BY <3>1, <3>2
  <2>3. v[0] = <<>>
    BY <1>1, <2>1 DEF Pieces
  <2>8. PICK w : w = v
    OBVIOUS
  <2>4. Pieces(w)'
    BY <1>9, <2>2, <2>3, <2>8 DEF Pieces
  <2>5. End(Done)' = q + k
    <3>1. End(n + 1)' = q + k /\ Done' = n + 1
      BY <1>9, <1>10
    <3> QED BY <3>1
  <2>6. lines' = v[n + 1] \o SubSeq(file', End(Done)' + 1, Len(file'))
    BY <1>5, <1>7, <2>1, <2>5 DEF Continues
  <2>7. floor' = Len(v[n + 1]) /\ resize' = floor' - End(Done)'
    BY <1>3, <1>4, <1>5, <1>7, <2>1, <2>5 DEF q
  <2> QED BY <1>9, <2>1, <2>4, <2>6, <2>7, <2>8 DEF Assembled
<1> QED BY <1>12, <1>13, <1>14 DEF ApplyInv

LEMMA ApplyStays ==
    ASSUME UNCHANGED <<file, hunks, lines, placed, offset, resize, floor>>, Hunks' = Hunks
    PROVE  /\ ApplyInv => ApplyInv'
           /\ (Exact /\ (outcome' = outcome \/ outcome' # "patch_conflict")) => Exact'
<1>1. Done' = Done /\ \A i : At(i)' = At(i) /\ End(i)' = End(i)
  BY DEF Done, At, End, PlaceOf
<1>2. ApplyTyped => ApplyTyped'
  BY DEF ApplyTyped, Staged
<1>3. Assembled => Assembled'
  BY <1>1 DEF Assembled, Pieces
<1>4. HunksFit => HunksFit'
  BY <1>1 DEF HunksFit, MatchesAt
<1>5. Fit(file, hunks, Declares)' <=> Fit(file, hunks, Declares)
  BY DEF Fit, Declares, MatchesAt
<1> QED BY <1>1, <1>2, <1>3, <1>4, <1>5 DEF ApplyInv, Exact

\* In a patch of this very file the next hunk stands where it declares.
LEMMA StandsWhereDeclared ==
    ASSUME ApplyInv, Exact, HasHunk, Fit(file, hunks, Declares),
           NEW d, d = PlaceOf(Now, Now.start)
    PROVE  /\ d \in Int /\ offset = resize
           /\ MatchesAt(lines, OldSide(Now), d + resize)
           /\ d + resize >= floor
<1>1. PICK u \in [0..Done -> Seq(Words)] :
        /\ Pieces(u) /\ u[Done] \in Seq(Words)
        /\ Continues(lines, u[Done], file, End(Done))
        /\ Len(u[Done]) = floor /\ floor - End(Done) = resize
        /\ End(Done) \in Nat /\ End(Done) <= Len(file) /\ Done \in Nat
  BY LinesNow
<1>2. Done + 1 \in 1..Len(hunks) /\ Now = hunks[Done + 1] /\ DOMAIN hunks = 1..Len(hunks) /\ Len(hunks) \in Nat
  BY <1>1 DEF HasHunk, Done, Now, ApplyInv, ApplyTyped
<1>3. Now.start \in Nat /\ Len(OldSide(Now)) \in Nat
  BY <1>2, SidesCount DEF ApplyInv
<1>4. d \in Int
  BY <1>3 DEF PlaceOf
<1>5. offset = resize /\ \A i \in 1..Done : placed[i] = hunks[i].start
  BY DEF Exact
<1>6. \A i \in 1..Len(hunks) : Declares[i] = PlaceOf(hunks[i], hunks[i].start)
  BY <1>2 DEF Declares
<1>7. MatchesAt(file, OldSide(Now), d)
  <2>1. MatchesAt(file, OldSide(hunks[Done + 1]), Declares[Done + 1])
    BY <1>2 DEF Fit
  <2> QED BY <1>2, <1>6, <2>1
<1>8. End(Done) <= d
  <2>1. CASE Done = 0
    BY <1>7, <2>1 DEF End, MatchesAt
  <2>2. CASE Done # 0
    <3>1. Done \in 1..Done /\ Done \in 1..(Len(hunks) - 1) /\ Done \in 1..Len(hunks)
      BY <1>1, <1>2, <2>2
    <3>2. Declares[Done] + Len(OldSide(hunks[Done])) <= Declares[Done + 1]
      BY <3>1 DEF Fit
    <3>3. At(Done) = Declares[Done]
      BY <1>5, <1>6, <3>1 DEF At
    <3>4. Declares[Done + 1] = d
      BY <1>2, <1>6
    <3> QED BY <2>2, <3>2, <3>3, <3>4 DEF End
  <2> QED BY <2>1, <2>2
<1>9. /\ resize \in Int /\ floor \in Nat
      /\ d + resize >= floor
  BY <1>1, <1>4, <1>8 DEF ApplyInv, ApplyTyped
<1>10. MatchesAt(lines, OldSide(Now), d + resize)
  <2>0. PICK a, e, old, p : a = u[Done] /\ e = End(Done) /\ old = OldSide(Now) /\ p = d + resize
    OBVIOUS
  <2>1. /\ file \in Seq(Words) /\ a \in Seq(Words) /\ e \in Nat /\ e <= Len(file)
        /\ Continues(lines, a, file, e) /\ Len(old) \in Nat /\ Len(a) = floor /\ floor - e = resize
    BY <1>1, <1>3, <2>0 DEF ApplyInv, ApplyTyped
  <2>2. p \in Int /\ p >= Len(a)
    BY <1>4, <1>9, <2>0, <2>1
  <2>3. MatchesAt(lines, old, p) <=> MatchesAt(file, old, p - Len(a) + e)
    BY <2>1, <2>2, MatchesBehind
  <2>4. p - Len(a) + e = d
    <3>1. PICK r, n : r = resize /\ n = Len(a)
      OBVIOUS
    <3>2. n \in Int /\ e \in Int /\ d \in Int /\ r \in Int /\ n - e = r /\ p = d + r
      BY <1>4, <1>9, <2>0, <2>1, <3>1
    <3>3. p - n + e = d
      BY <3>2
    <3> QED BY <3>1, <3>3
  <2> QED BY <1>7, <2>0, <2>3, <2>4
<1> QED BY <1>4, <1>5, <1>9, <1>10

\* And put there, it shifts the next one by what it adds.
LEMMA PutKeepsExact ==
    ASSUME ApplyInv, Exact, HasHunk, Fit(file, hunks, Declares),
           NEW d, d = PlaceOf(Now, Now.start), d \in Int,
           Put(d + resize, Now.start)
    PROVE  offset' = resize' /\ \A i \in 1..Done' : placed'[i] = hunks'[i].start
<1>1. Done + 1 \in 1..Len(hunks) /\ Now = hunks[Done + 1] /\ Done \in Nat
      /\ offset = resize /\ resize \in Int /\ placed \in Seq(Int) /\ Len(placed) = Done
      /\ \A i \in 1..Done : placed[i] = hunks[i].start
  BY DEF HasHunk, Done, Now, ApplyInv, ApplyTyped, Exact
<1>2. Now.start \in Nat /\ Len(OldSide(Now)) \in Nat /\ OldSide(Now) \in Seq(Words) /\ Len(NewSide(Now)) \in Nat
  BY <1>1, SidesCount DEF ApplyInv
<1>3. Inserts(Now) <=> Len(OldSide(Now)) = 0
  BY <1>2 DEF Inserts
<1> DEFINE k == Len(OldSide(Now))
           end == IF k = 0 THEN Now.start ELSE Now.start - 1 + k
<1>4. end = d + k
  BY <1>2, <1>3 DEF PlaceOf
<1>5. /\ floor' = d + resize + Len(NewSide(Now))
      /\ offset' = floor' - end
      /\ resize' = resize + Len(NewSide(Now)) - k
      /\ placed' = Append(placed, Now.start) /\ hunks' = hunks
  BY DEF Put
<1> HIDE DEF k, end
<1>6. offset' = resize'
  <2>1. PICK r, n : r = resize /\ n = Len(NewSide(Now))
    OBVIOUS
  <2>2. r \in Int /\ n \in Int /\ k \in Int /\ d \in Int
    BY <1>1, <1>2, <2>1 DEF k
  <2>3. /\ floor' = d + r + n
        /\ offset' = floor' - (d + k)
        /\ resize' = r + n - k
    BY <1>4, <1>5, <2>1
  <2>4. offset' = (d + r + n) - (d + k)
    BY <2>3
  <2>5. (d + r + n) - (d + k) = r + n - k
    BY <2>2
  <2> QED BY <2>3, <2>4, <2>5
<1>7. /\ Len(placed') = Done + 1 /\ placed'[Done + 1] = Now.start
      /\ \A i \in 1..Done : placed'[i] = placed[i]
  <2>1. Now.start \in Int
    BY <1>2
  <2> QED BY <1>1, <1>5, <2>1, AppendProperties
<1>8. ASSUME NEW i \in 1..(Done + 1) PROVE placed'[i] = hunks'[i].start
  <2>1. i = Done + 1 \/ i \in 1..Done
    BY <1>1
  <2> QED BY <1>1, <1>5, <1>7, <2>1
<1>9. Done' = Done + 1
  BY <1>7 DEF Done
<1> QED BY <1>6, <1>8, <1>9

\* A hunk with old lines is only put where they stand, and behind the last one.
LEMMA LocatedFits ==
    ASSUME NEW ls, NEW old, NEW expected \in Int, NEW from \in Int, Len(ls) \in Nat, Len(old) \in Nat,
           NEW p \in LocateHunk(ls, old, expected, from, MaxRelocation)
    PROVE  p \in Int /\ MatchesAt(ls, old, p) /\ p >= from
<1>1. CASE expected >= from /\ MatchesAt(ls, old, expected)
  BY <1>1 DEF LocateHunk
<1>2. CASE ~(expected >= from /\ MatchesAt(ls, old, expected))
  <2>1. p \in PlacesFrom(ls, old, from) /\ MatchesAt(ls, old, p)
    BY <1>2 DEF LocateHunk
  <2> QED BY <2>1 DEF PlacesFrom
<1> QED BY <1>1, <1>2

LEMMA ApplyStepHolds ==
    ASSUME ApplyInv, Exact, ApplyStep, Hunks' = Hunks
    PROVE  ApplyInv' /\ Exact'
<1>0. ASSUME UNCHANGED <<file, hunks>>
      PROVE  Fit(file, hunks, Declares)' <=> Fit(file, hunks, Declares)
  BY <1>0 DEF Fit, Declares, MatchesAt
<1>1. ASSUME HasHunk
      PROVE  /\ Now.start \in Nat /\ offset \in Int /\ resize \in Int /\ floor \in Nat
             /\ Len(lines) \in Nat /\ Len(OldSide(Now)) \in Nat
  <2>1. Len(placed) + 1 \in 1..Len(hunks)
    BY <1>1 DEF HasHunk, ApplyInv, ApplyTyped
  <2> QED BY <2>1, SidesCount DEF Now, ApplyInv, ApplyTyped
<1>2. ASSUME HasHunk, NEW p \in Int, NEW applied \in Int,
             MatchesAt(lines, OldSide(Now), p), p >= floor,
             PlaceOf(Now, applied) = p - resize, Put(p, applied),
             Fit(file, hunks, Declares) => /\ p = PlaceOf(Now, Now.start) + resize
                                           /\ applied = Now.start
      PROVE  ApplyInv' /\ Exact'
  <2>1. ApplyInv'
    BY <1>2, PutKeeps
  <2>2. CASE Fit(file, hunks, Declares)
    <3>1. PlaceOf(Now, Now.start) \in Int
      BY <1>1, <1>2 DEF PlaceOf
    <3>2. offset' = resize' /\ \A i \in 1..Done' : placed'[i] = hunks'[i].start
      BY <1>2, <2>2, <3>1, PutKeepsExact
    <3>3. outcome' = outcome /\ outcome # "patch_conflict"
      BY <1>2 DEF Put, HasHunk
    <3> QED BY <2>1, <3>2, <3>3 DEF Exact
  <2>3. CASE ~Fit(file, hunks, Declares)
    <3>1. UNCHANGED <<file, hunks>>
      BY <1>2 DEF Put
    <3> QED BY <1>0, <2>1, <2>3, <3>1 DEF Exact
  <2> QED BY <2>2, <2>3
<1>3. ASSUME Conflict, ~Fit(file, hunks, Declares)
      PROVE  ApplyInv' /\ Exact'
  <2>1. UNCHANGED <<file, hunks, lines, placed, offset, resize, floor>>
    BY <1>3 DEF Conflict
  <2> QED BY <1>0, <1>3, <2>1, ApplyStays DEF Exact
<1>4. CASE PutInsertion
  <2> DEFINE p == Now.start + offset
  <2>1. HasHunk /\ Inserts(Now)
    BY <1>4 DEF PutInsertion
  <2>2. p \in Int /\ OldSide(Now) = <<>> /\ \A x : PlaceOf(Now, x) = x
    BY <1>1, <2>1 DEF Inserts, PlaceOf
  <2>3. Fit(file, hunks, Declares) =>
          /\ p = Now.start + resize
          /\ p <= Len(lines) /\ p >= floor
    <3> SUFFICES ASSUME Fit(file, hunks, Declares)
                 PROVE  p = Now.start + resize /\ p <= Len(lines) /\ p >= floor
      OBVIOUS
    <3>1. /\ offset = resize
          /\ MatchesAt(lines, OldSide(Now), Now.start + resize)
          /\ Now.start + resize >= floor
      BY <2>1, <2>2, StandsWhereDeclared
    <3> QED BY <1>1, <2>1, <2>2, <3>1 DEF MatchesAt
  <2>4. CASE p > Len(lines) \/ p < floor
    <3>1. Conflict
      BY <1>4, <2>4 DEF PutInsertion
    <3>2. ~Fit(file, hunks, Declares)
      BY <1>1, <2>1, <2>2, <2>3, <2>4
    <3> QED BY <1>3, <3>1, <3>2
  <2>5. CASE ~(p > Len(lines) \/ p < floor)
    <3>1. Put(p, p - resize)
      BY <1>4, <2>5 DEF PutInsertion
    <3>2. p >= floor /\ MatchesAt(lines, OldSide(Now), p) /\ p - resize \in Int
      BY <1>1, <2>1, <2>2, <2>5 DEF MatchesAt
    <3>3. Fit(file, hunks, Declares) => p - resize = Now.start
      BY <1>1, <2>1, <2>2, <2>3
    <3> HIDE DEF p
    <3> QED BY <1>2, <2>1, <2>2, <2>3, <3>1, <3>2, <3>3
  <2> QED BY <2>4, <2>5
<1>5. CASE PutHunk
  <2> DEFINE expected == Now.start - 1 + offset
             found == LocateHunk(lines, OldSide(Now), expected, floor, MaxRelocation)
  <2>1. HasHunk /\ ~Inserts(Now)
    BY <1>5 DEF PutHunk
  <2>2. expected \in Int /\ \A x : PlaceOf(Now, x) = x - 1
    BY <1>1, <2>1 DEF PlaceOf
  <2>3. Fit(file, hunks, Declares) => expected = Now.start - 1 + resize /\ found = {expected}
    <3> SUFFICES ASSUME Fit(file, hunks, Declares)
                 PROVE  expected = Now.start - 1 + resize /\ found = {expected}
      OBVIOUS
    <3>1. /\ offset = resize
          /\ MatchesAt(lines, OldSide(Now), Now.start - 1 + resize)
          /\ Now.start - 1 + resize >= floor
      BY <2>1, <2>2, StandsWhereDeclared
    <3> QED BY <3>1 DEF LocateHunk
  <2>4. \/ \E p \in found : found = {p} /\ Put(p, p - resize + 1)
        \/ (\A p \in found : found # {p}) /\ Conflict
    BY <1>5 DEF PutHunk
  <2> HIDE DEF found
  <2>5. CASE \E p \in found : found = {p} /\ Put(p, p - resize + 1)
    <3>1. PICK p \in found : found = {p} /\ Put(p, p - resize + 1)
      BY <2>5
    <3>2. p \in Int /\ MatchesAt(lines, OldSide(Now), p) /\ p >= floor
      <4> HIDE DEF expected
      <4>1. floor \in Int /\ Len(lines) \in Nat /\ Len(OldSide(Now)) \in Nat
        BY <1>1, <2>1
      <4> QED BY <2>2, <4>1, LocatedFits DEF found
    <3>3. p - resize + 1 \in Int /\ PlaceOf(Now, p - resize + 1) = p - resize
      BY <1>1, <2>1, <2>2, <3>2
    <3>4. Fit(file, hunks, Declares) => /\ p = PlaceOf(Now, Now.start) + resize
                                        /\ p - resize + 1 = Now.start
      <4>1. Fit(file, hunks, Declares) => p = Now.start - 1 + resize
        BY <2>3, <3>1
      <4> QED BY <1>1, <2>1, <2>2, <3>2, <4>1
    <3> QED BY <1>2, <2>1, <3>1, <3>2, <3>3, <3>4
  <2>6. CASE (\A p \in found : found # {p}) /\ Conflict
    <3>1. ~Fit(file, hunks, Declares)
      <4> HIDE DEF expected
      <4> QED BY <2>3, <2>6
    <3> QED BY <1>3, <2>6, <3>1
  <2> QED BY <2>4, <2>5, <2>6
<1>6. CASE WritesResult
  <2>1. UNCHANGED <<file, hunks, lines, placed, offset, resize, floor>> /\ outcome' # "patch_conflict"
    BY <1>6 DEF WritesResult
  <2> QED BY <2>1, ApplyStays
<1> QED BY <1>4, <1>5, <1>6 DEF ApplyStep

-----------------------------------------------------------------------------
(* The invariant of the whole: a patch is read, staged and applied *)

LEMMA StartsApplied ==
    ASSUME TextInit
    PROVE  ApplyInv /\ Exact
<1>1. /\ file = <<>> /\ hunks = <<>> /\ lines = <<>> /\ placed = <<>>
      /\ offset = 0 /\ resize = 0 /\ floor = 0 /\ outcome = "applying"
  BY DEF TextInit, StartOn
<1>2. Done = 0 /\ End(Done) = 0 /\ Len(file) = 0 /\ file \in Seq(Words)
  BY <1>1 DEF Done, End
<1>3. ApplyTyped
  BY <1>1 DEF ApplyTyped
<1>4. Assembled
  <2>1. PICK w : w = [i \in 0..0 |-> <<>>]
    OBVIOUS
  <2>2. w \in [0..Done -> Seq(Words)] /\ w[0] = <<>>
    BY <1>2, <2>1
  <2>3. Pieces(w)
    BY <1>2, <2>2 DEF Pieces
  <2>4. lines = w[Done] \o SubSeq(file, End(Done) + 1, Len(file))
    BY <1>1, <1>2, <2>2
  <2>5. floor = Len(w[Done]) /\ resize = floor - End(Done)
    BY <1>1, <1>2, <2>2
  <2> QED BY <2>2, <2>3, <2>4, <2>5 DEF Assembled
<1>5. HunksFit
  BY <1>2 DEF HunksFit
<1>6. Exact
  BY <1>1, <1>2 DEF Exact
<1> QED BY <1>3, <1>4, <1>5, <1>6 DEF ApplyInv

\* Before a file is staged nothing has been put or shifted.
LEMMA NothingDone ==
    ASSUME ApplyInv, Exact, hunks = <<>>
    PROVE  placed = <<>> /\ Done = 0 /\ offset = 0 /\ resize = 0 /\ floor = 0
<1>1. placed \in Seq(Int) /\ Len(placed) <= 0
  BY DEF ApplyInv, ApplyTyped
<1>2. placed = <<>> /\ Done = 0
  BY <1>1 DEF Done
<1>3. PICK u \in [0..Done -> Seq(Words)] :
        Pieces(u) /\ floor = Len(u[Done]) /\ resize = floor - End(Done)
  BY DEF ApplyInv, Assembled
<1>4. u[Done] = <<>> /\ End(Done) = 0
  BY <1>2, <1>3 DEF Pieces, End
<1>5. floor = 0 /\ resize = 0
  BY <1>3, <1>4
<1>6. Fit(file, hunks, Declares)
  BY DEF Fit
<1> QED BY <1>2, <1>5, <1>6 DEF Exact

LEMMA StagesHolds ==
    ASSUME ParseTyped, ApplyInv, Exact, Stages
    PROVE  ApplyInv' /\ Exact'
<1>1. PICK f \in SeqsUpTo(Words, MaxFile) \cup {<<>>} : file' = f /\ lines' = f /\ hunks' = parsed[1].hunks
  BY DEF Stages
<1>2. f \in Seq(Words) /\ Len(f) \in Nat
  <2>1. CASE f = <<>>
    BY <2>1
  <2>2. CASE f \in SeqsUpTo(Words, MaxFile)
    <3>1. PICK k \in 1..MaxFile : f \in [1..k -> Words]
      BY <2>2 DEF SeqsUpTo
    <3>2. k \in Nat
      BY TextAssumption
    <3> QED BY <3>1, <3>2
  <2> QED BY <2>1, <2>2
<1>3. /\ UNCHANGED <<placed, offset, resize, floor, outcome, text>> /\ outcome = "applying"
      /\ hunks = <<>> /\ Len(parsed) = 1
      /\ \A i \in DOMAIN parsed[1].hunks : \A l \in Range(parsed[1].hunks[i].lines) :
            l.says \in Words \/ l.prefix = "\\"
  BY DEF Stages, parseVars
<1>4. Hunks' = Hunks
  BY <1>3, SetsStay
<1>5. hunks' \in Seq(Hunks)
  <2>1. parsed[1] \in Changes
    <3>1. parsed \in Seq(Changes) /\ 1 \in 1..Len(parsed)
      BY <1>3 DEF ParseTyped
    <3> QED BY <3>1, ElementOfSeq
  <2> QED BY <1>1, <2>1 DEF Changes
<1>6. ASSUME NEW i \in 1..Len(hunks') PROVE Staged(hunks'[i])
  <2> DEFINE h == hunks'[i]
  <2>1. PICK start \in Nat, body \in Seq(Bodies) : hunks'[i] = Hunk(start, body)
    <3>1. hunks'[i] \in Hunks
      BY <1>5
    <3> QED BY <3>1 DEF Hunks
  <2>2. PICK g : g = hunks'[i]
    OBVIOUS
  <2>3. g.start = start /\ g.lines = body /\ Len(g.lines) \in Nat
    BY <2>1, <2>2 DEF Hunk
  <2>4. ASSUME NEW k \in 1..Len(g.lines)
        PROVE  g.lines[k].says \in Words \/ g.lines[k].prefix = "\\"
    <3>1. i \in DOMAIN parsed[1].hunks /\ g = parsed[1].hunks[i]
      BY <1>1, <1>5, <2>2
    <3>2. g.lines[k] \in Range(g.lines)
      BY <2>3 DEF Range
    <3> QED BY <1>3, <3>1, <3>2
  <2>5. OldSide(g) \in Seq(Words) /\ NewSide(g) \in Seq(Words)
    <3>1. \A k \in 1..Len(g.lines) : g.lines[k].prefix \in {" ", "-"} => g.lines[k].says \in Words
      BY <2>4
    <3>2. \A k \in 1..Len(g.lines) : g.lines[k].prefix \in {" ", "+"} => g.lines[k].says \in Words
      BY <2>4
    <3>3. Side(g, {" ", "-"}) \in Seq(Words)
      BY <2>3, <3>1, SideTyped
    <3>4. Side(g, {" ", "+"}) \in Seq(Words)
      BY <2>3, <3>2, SideTyped
    <3> QED BY <3>3, <3>4 DEF OldSide, NewSide
  <2> QED BY <2>2, <2>3, <2>5 DEF Staged
<1>7. placed = <<>> /\ offset = 0 /\ resize = 0 /\ floor = 0
  BY <1>3, NothingDone
<1>8. Done' = 0 /\ End(Done)' = 0 /\ End(0)' = 0
  <2>1. Done' = 0
    BY <1>3, <1>7 DEF Done
  <2> QED BY <2>1 DEF End
<1>9. ApplyTyped'
  <2>1. \A i \in 1..Len(hunks') : Staged(hunks'[i])
    BY <1>6
  <2>2. \A h : Staged(h)' <=> Staged(h)
    BY DEF Staged
  <2>3. Len(placed') <= Len(hunks')
    BY <1>3, <1>5, <1>7
  <2> QED BY <1>1, <1>2, <1>3, <1>4, <1>5, <1>7, <2>1, <2>2, <2>3 DEF ApplyTyped
<1>10. Assembled'
  <2>1. PICK w : w = [i \in 0..0 |-> <<>>]
    OBVIOUS
  <2>2. w \in [0..0 -> Seq(Words)] /\ w[0] = <<>>
    BY <2>1
  <2>3. Pieces(w)'
    BY <1>8, <2>2 DEF Pieces
  <2>4. lines' = w[0] \o SubSeq(file', 1, Len(file'))
    <3>1. SubSeq(f, 1, Len(f)) = f /\ <<>> \o f = f
      BY <1>2
    <3> QED BY <1>1, <2>2, <3>1
  <2>5. floor' = Len(w[0]) /\ resize' = floor' - 0
    BY <1>3, <1>7, <2>2
  <2>6. /\ w \in [0..Done' -> Seq(Words)]
        /\ lines' = w[Done'] \o SubSeq(file', End(Done)' + 1, Len(file'))
        /\ floor' = Len(w[Done']) /\ resize' = floor' - End(Done)'
    <3>1. 0 + 1 = 1 /\ floor' - End(Done)' = floor' - 0
      BY <1>8
    <3> QED BY <1>8, <2>2, <2>4, <2>5, <3>1
  <2> QED BY <2>3, <2>6 DEF Assembled
<1>11. HunksFit'
  BY <1>1, <1>2, <1>8 DEF HunksFit
<1>12. Exact'
  BY <1>3, <1>7, <1>8 DEF Exact
<1> QED BY <1>9, <1>10, <1>11, <1>12 DEF ApplyInv

\* The invariant holds of the texts written, and every step keeps it.
LEMMA TextInvInit == TextInit => TextInv
BY InitNumbered, ParseInit, StartsApplied DEF TextInv, ApplyInv

LEMMA TextInvNext == TextInv /\ [TextNext]_textVars => TextInv'
<1> SUFFICES ASSUME TextInv, [TextNext]_textVars PROVE TextInv'
  OBVIOUS
<1>0. Numbered(text) /\ ParseTyped /\ ApplyInv /\ Exact
  BY DEF TextInv, ApplyInv
<1>1. ASSUME text' = text, ParseTyped', ApplyInv', Exact' PROVE TextInv'
  <2>1. Numbered(text')
    BY <1>0, <1>1
  <2> QED BY <1>1, <2>1 DEF TextInv, ApplyInv
<1>2. ASSUME UNCHANGED parseVars PROVE text' = text /\ Hunks' = Hunks /\ ParseTyped'
  <2>1. text' = text /\ UNCHANGED <<pos, change, hunk, parsed>>
    BY <1>2 DEF parseVars
  <2> QED BY <1>0, <2>1, SetsStay DEF ParseTyped
<1>3. ASSUME UNCHANGED applyVars, Hunks' = Hunks PROVE ApplyInv' /\ Exact'
  BY <1>0, <1>3, ApplyStays DEF applyVars
<1>4. CASE Parsing
  <2>1. text' = text /\ ParseTyped'
    BY <1>0, <1>4, ParseStepTyped DEF Parsing
  <2>2. UNCHANGED applyVars /\ Hunks' = Hunks
    BY <1>4, <2>1, SetsStay DEF Parsing
  <2> QED BY <1>1, <1>3, <2>1, <2>2
<1>5. CASE Stages
  <2>1. UNCHANGED parseVars
    BY <1>5 DEF Stages
  <2>2. ApplyInv' /\ Exact'
    BY <1>0, <1>5, StagesHolds
  <2> QED BY <1>1, <1>2, <2>1, <2>2
<1>6. CASE Applying
  <2>1. ApplyStep /\ UNCHANGED parseVars
    BY <1>6 DEF Applying
  <2>2. ApplyInv' /\ Exact'
    BY <1>0, <1>2, <2>1, ApplyStepHolds
  <2> QED BY <1>1, <1>2, <2>1, <2>2
<1>7. CASE UNCHANGED textVars
  <2>1. UNCHANGED parseVars /\ UNCHANGED applyVars
    BY <1>7 DEF textVars
  <2> QED BY <1>1, <1>2, <1>3, <2>1
<1> QED BY <1>4, <1>5, <1>6, <1>7 DEF TextNext

LEMMA TextInvariant == TextSpec => []TextInv
<1> QED BY TextInvInit, TextInvNext, PTL DEF TextSpec

-----------------------------------------------------------------------------
(* What the lines are, said of the file *)

EndOf(hs, places, i) == IF i = 0 THEN 0 ELSE places[i] + Len(OldSide(hs[i]))

\* Pieces put one behind the other are the file rewritten.
LEMMA RewrittenIs ==
    ASSUME NEW f, NEW hs, NEW places, NEW n \in Nat, Len(hs) = n,
           NEW S, NEW u \in [0..n -> S], u[0] = <<>>,
           \A i \in 1..n : u[i] = u[i - 1] \o SubSeq(f, EndOf(hs, places, i - 1) + 1, places[i]) \o NewSide(hs[i])
    PROVE  Rewritten(f, hs, places) = u[n] \o SubSeq(f, EndOf(hs, places, n) + 1, Len(f))
<1> DEFINE Recurs(g) ==
             g = [i \in 0..n |->
                    IF i = 0 THEN <<>>
                    ELSE g[i - 1] \o SubSeq(f, EndOf(hs, places, i - 1) + 1, places[i]) \o NewSide(hs[i])]
<1>1. Recurs(u)
  <2>1. \A i \in 0..n : i = 0 \/ i \in 1..n
    OBVIOUS
  <2> QED BY <2>1
<1>2. Rewritten(f, hs, places) = (CHOOSE g : Recurs(g))[n] \o SubSeq(f, EndOf(hs, places, n) + 1, Len(f))
  BY DEF Rewritten, EndOf
<1>3. PICK g : g = (CHOOSE x : Recurs(x))
  OBVIOUS
<1>4. Recurs(g)
  <2> HIDE DEF Recurs
  <2> QED BY <1>1, <1>3
<1> DEFINE T == {i \in 0..n : g[i] # u[i]}
<1>5. CASE T = {}
  <2>1. g[n] = u[n]
    BY <1>5
  <2> HIDE DEF Recurs
  <2> QED BY <1>2, <1>3, <2>1
<1>6. CASE T # {}
  <2>1. T \subseteq Nat
    OBVIOUS
  <2>2. PICK m \in T : \A k \in T : m <= k
    <3> HIDE DEF T
    <3> QED BY <1>6, <2>1, LeastOf
  <2>3. m # 0
    BY <1>4, <2>2
  <2>4. m \in 1..n /\ m \in 0..n /\ m - 1 \in 0..n /\ ~(m <= m - 1)
    BY <2>2, <2>3
  <2>5. g[m - 1] = u[m - 1]
    BY <2>2, <2>4
  <2>6. g[m] = g[m - 1] \o SubSeq(f, EndOf(hs, places, m - 1) + 1, places[m]) \o NewSide(hs[m])
    BY <1>4, <2>3, <2>4
  <2>7. g[m] = u[m]
    BY <2>4, <2>5, <2>6
  <2> QED BY <2>2, <2>7
<1> QED BY <1>5, <1>6

LEMMA PlacedAre ==
    ASSUME ApplyInv
    PROVE  /\ Done \in Nat /\ Len(PlacedHunks) = Done
           /\ \A i \in 1..Done : PlacedHunks[i] = hunks[i] /\ Places[i] = At(i)
           /\ \A i \in 0..Done : EndOf(PlacedHunks, Places, i) = End(i)
<1>1. Done \in Nat /\ Done <= Len(hunks) /\ hunks \in Seq(Hunks) /\ DOMAIN placed = 1..Done
  BY DEF ApplyInv, ApplyTyped, Done
<1>2. Len(PlacedHunks) = Done /\ \A i \in 1..Done : PlacedHunks[i] = hunks[i]
  BY <1>1 DEF PlacedHunks, Done
<1>3. \A i \in 1..Done : Places[i] = At(i)
  BY <1>1 DEF Places, At
<1>4. ASSUME NEW i \in 0..Done PROVE EndOf(PlacedHunks, Places, i) = End(i)
  <2>1. CASE i = 0
    BY <2>1 DEF EndOf, End
  <2>2. CASE i # 0
    <3>1. i \in 1..Done
      BY <1>1, <2>2
    <3> QED BY <1>2, <1>3, <2>2, <3>1 DEF EndOf, End
  <2> QED BY <2>1, <2>2
<1> QED BY <1>1, <1>2, <1>3, <1>4

LEMMA InvApplies == TextInv => AppliesWhereItSays
<1> SUFFICES ASSUME TextInv PROVE AppliesWhereItSays
  OBVIOUS
<1>0. ApplyInv
  BY DEF TextInv, ApplyInv
<1>1. /\ Done \in Nat /\ Len(PlacedHunks) = Done
      /\ \A i \in 1..Done : PlacedHunks[i] = hunks[i] /\ Places[i] = At(i)
      /\ \A i \in 0..Done : EndOf(PlacedHunks, Places, i) = End(i)
  BY <1>0, PlacedAre
<1>2. Fit(file, PlacedHunks, Places)
  <2>1. ASSUME NEW i \in 1..Done PROVE MatchesAt(file, OldSide(PlacedHunks[i]), Places[i])
    BY <1>0, <1>1 DEF ApplyInv, HunksFit
  <2>2. ASSUME NEW i \in 1..(Done - 1)
        PROVE  Places[i] + Len(OldSide(PlacedHunks[i])) <= Places[i + 1]
    <3>1. i \in 1..Done /\ i + 1 \in 1..Done /\ i # 0 /\ i + 1 - 1 = i
      BY <1>1
    <3>2. End(i + 1 - 1) <= At(i + 1)
      BY <1>0, <3>1 DEF ApplyInv, HunksFit
    <3>3. End(i) <= At(i + 1)
      BY <3>1, <3>2
    <3> QED BY <1>1, <3>1, <3>3 DEF End
  <2> QED BY <1>1, <2>1, <2>2 DEF Fit
<1>3. lines = Rewritten(file, PlacedHunks, Places)
  <2>1. PICK u \in [0..Done -> Seq(Words)] :
          Pieces(u) /\ lines = u[Done] \o SubSeq(file, End(Done) + 1, Len(file))
    BY <1>0 DEF ApplyInv, Assembled
  <2>2. PICK hs, places, n : hs = PlacedHunks /\ places = Places /\ n = Done
    OBVIOUS
  <2>3. ASSUME NEW i \in 1..n
        PROVE  u[i] = u[i - 1] \o SubSeq(file, EndOf(hs, places, i - 1) + 1, places[i]) \o NewSide(hs[i])
    <3>1. i - 1 \in 0..Done /\ i \in 1..Done
      BY <1>1, <2>2
    <3>2. u[i] = u[i - 1] \o SubSeq(file, End(i - 1) + 1, At(i)) \o NewSide(hunks[i])
      BY <2>1, <3>1 DEF Pieces
    <3> QED BY <1>1, <2>2, <3>1, <3>2
  <2>4. n \in Nat /\ Len(hs) = n /\ u \in [0..n -> Seq(Words)] /\ u[0] = <<>>
    BY <1>1, <2>1, <2>2 DEF Pieces
  <2>5. Rewritten(file, hs, places) = u[n] \o SubSeq(file, EndOf(hs, places, n) + 1, Len(file))
    BY <2>3, <2>4, RewrittenIs
  <2>6. EndOf(hs, places, n) = End(Done)
    BY <1>1, <2>2
  <2> QED BY <2>1, <2>2, <2>5, <2>6
<1> QED BY <1>2, <1>3 DEF AppliesWhereItSays

LEMMA InvExact == TextInv => ExactPatchApplies
<1> SUFFICES ASSUME TextInv PROVE ExactPatchApplies
  OBVIOUS
<1>1. DOMAIN placed = 1..Done
  BY DEF TextInv, ApplyTyped, Done
<1> QED BY <1>1 DEF TextInv, Exact, ExactPatchApplies

\* Whatever the patch and the file are, and wherever the search finds its hunks
\* a place, the lines are always the file's with each hunk put at the place
\* HunkMove reports for it, its old lines stand there in the file, and no hunk
\* reaches into the one before (applyModify's offset, resize and floor).
THEOREM HunksGoWhereReported == TextSpec => []AppliesWhereItSays
<1> QED BY TextInvariant, InvApplies, PTL

\* A patch whose hunks all fit the file where they declare is never a conflict,
\* and every hunk is put at its declared place: the offset applyModify carries
\* from one hunk to the next is what the hunks before have added.
THEOREM ExactPatchGoesThere == TextSpec => []ExactPatchApplies
<1> QED BY TextInvariant, InvExact, PTL
=============================================================================
