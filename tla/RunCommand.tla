------------------------------ MODULE RunCommand -----------------------------
(***************************************************************************)
(* RunCommand.Invoke (internal/tool/run_command.go): one command, run in a *)
(* process group of its own, with a timeout, under a context the user may  *)
(* cancel, its output copied from a pipe.                                  *)
(*                                                                         *)
(* Beside the goroutine of Invoke there is the one os/exec starts to watch *)
(* the context, the one that copies the output, the command itself (the    *)
(* leader of the group) and a process it may leave behind (its heir).  The *)
(* signals and the pipe are the kernel's, cmd.Wait and the watching are    *)
(* os/exec's.                                                              *)
(***************************************************************************)
EXTENDS Naturals, FiniteSets

CONSTANTS MaxOutput,   \* maxOutputBytes, in units of output
          SafetyCap,   \* writerSafetyCapBytes, in the same units
          MaxWritten   \* bound: what the processes write

ASSUME OutputAssumption ==
    /\ MaxOutput \in Nat /\ SafetyCap \in Nat /\ MaxWritten \in Nat
    /\ MaxOutput < SafetyCap

VARIABLES
    input,    \* what the call asks for
    nature,   \* how the leader and its heir behave
    inv,      \* where Invoke is
    ctx,      \* the context of the turn
    cmdErr,   \* the error of cmdCtx, which has the timeout
    watch,    \* the goroutine that watches cmdCtx
    leader, heir,
    exit,     \* how the leader ended
    pipe,     \* the pipe of stdout and stderr; a WaitDelay that runs out closes it
    written, kept,  \* what was written, and what capWriter holds of it
    result

vars == <<input, nature, inv, ctx, cmdErr, watch, leader, heir, exit, pipe,
          written, kept, result>>

Input  == [valid : BOOLEAN, asks : BOOLEAN, longTimeout : BOOLEAN]

\* A stubborn process outlives SIGTERM.  An heir may have left the group, and may
\* have kept the pipe.
Nature == [stubborn : BOOLEAN, heirStubborn : BOOLEAN, inGroup : BOOLEAN, holds : BOOLEAN]

Result == [kind : {"none", "invalid", "denied", "not_started", "exit_error", "wait_error",
                   "timeout", "cancelled", "ok"},
           truncated : BOOLEAN]
NoResult == [kind |-> "none", truncated |-> FALSE]

Init ==
    /\ input \in Input /\ nature \in Nature
    /\ inv = "called" /\ ctx = "live" /\ cmdErr = "none" /\ watch = "none"
    /\ leader = "none" /\ heir = "none" /\ exit = "none"
    /\ pipe = "none"
    /\ written = 0 /\ kept = 0
    /\ result = NoResult

processes == <<leader, heir, exit>>
output    == <<written, kept>>
given     == <<input, nature>>

Ends(kind) == inv' = "ended" /\ result' = [kind |-> kind, truncated |-> FALSE]
Goes(to)   == inv' = to /\ UNCHANGED result
-----------------------------------------------------------------------------
(* Before the start *)

\* The arguments and the directory, then the policy.
Checks ==
    /\ inv = "called"
    /\ IF ~input.valid THEN Ends("invalid")
       ELSE Goes(IF input.asks THEN "asking" ELSE "accepted")
    /\ UNCHANGED <<given, ctx, cmdErr, watch, processes, pipe, output>>

\* Approver.Request: approved, or rejected or cancelled.
Answered ==
    /\ inv = "asking"
    /\ Goes("accepted") \/ Ends("denied")
    /\ UNCHANGED <<given, ctx, cmdErr, watch, processes, pipe, output>>

\* The timeout is looked at only now.  cmd.Start refuses a context that is done.
Starts ==
    /\ inv = "accepted"
    /\ \/ /\ IF input.longTimeout THEN Ends("invalid") ELSE Ends("not_started")
          /\ UNCHANGED <<watch, processes, pipe>>
       \/ /\ ~input.longTimeout /\ ctx = "live"
          /\ Goes("reaping")
          /\ watch' = "waiting" /\ leader' = "running" /\ pipe' = "open"
          /\ UNCHANGED <<heir, exit>>
    /\ UNCHANGED <<given, ctx, cmdErr, output>>
-----------------------------------------------------------------------------
(* The contexts *)

CancelTurn ==
    /\ ctx = "live" /\ inv # "ended"
    /\ ctx' = "cancelled"
    /\ UNCHANGED <<given, inv, cmdErr, watch, processes, pipe, output, result>>

Running == inv \in {"reaping", "joining", "draining", "judging"}

\* cmdCtx ends with the context above it, or by its own timer; the first one counts.
CommandContextEnds ==
    /\ Running /\ cmdErr = "none"
    /\ \/ ctx = "cancelled" /\ cmdErr' = "cancelled"
       \/ cmdErr' = "timeout"
    /\ UNCHANGED <<given, inv, ctx, watch, processes, pipe, output, result>>
-----------------------------------------------------------------------------
(* The processes *)

LeaderForks ==
    /\ leader = "running" /\ heir = "none"
    /\ heir' = "running"
    /\ UNCHANGED <<given, inv, ctx, cmdErr, watch, leader, exit, pipe, output, result>>

LeaderExits ==
    /\ leader = "running"
    /\ leader' = "zombie" /\ exit' \in {"success", "failure"}
    /\ UNCHANGED <<given, inv, ctx, cmdErr, watch, heir, pipe, output, result>>

HeirExits ==
    /\ heir = "running"
    /\ heir' = "dead"
    /\ UNCHANGED <<given, inv, ctx, cmdErr, watch, leader, exit, pipe, output, result>>

Writing == leader = "running" \/ (heir = "running" /\ nature.holds)

\* (mutant) capWriter does not cut.
KeptOfAll(n) == n + 1

\* (mutant) capWriter cuts at what is reported, as it once did.
KeptOfOne(n) == IF n + 1 > MaxOutput THEN MaxOutput ELSE n + 1

\* capWriter.Write: over its cap it keeps a head and a tail of that size together.
KeptOf(n) == IF n + 1 > SafetyCap THEN SafetyCap ELSE n + 1

Writes ==
    /\ Writing /\ pipe = "open" /\ written < MaxWritten
    /\ written' = written + 1 /\ kept' = KeptOf(kept)
    /\ UNCHANGED <<given, inv, ctx, cmdErr, watch, processes, pipe, result>>

\* The last writer is gone and the copying goroutine has read to the end.
PipeEnds ==
    /\ pipe = "open" /\ ~Writing
    /\ pipe' = "drained"
    /\ UNCHANGED <<given, inv, ctx, cmdErr, watch, processes, output, result>>
-----------------------------------------------------------------------------
(* The watching goroutine of os/exec, and cmd.Cancel: killProcessGroup *)

\* A signal to the group, which kills the leader when l and the heir when h.
Signals(l, h) ==
    /\ IF leader = "running" /\ l THEN leader' = "zombie" /\ exit' = "signal"
                                  ELSE UNCHANGED <<leader, exit>>
    /\ heir' = IF heir = "running" /\ nature.inGroup /\ h THEN "dead" ELSE heir
Sigterm == Signals(~nature.stubborn, ~nature.heirStubborn)
Sigkill == Signals(TRUE, TRUE)

TermsGroup ==
    /\ watch = "waiting" /\ cmdErr # "none"
    /\ watch' = "grace" /\ Sigterm
    /\ UNCHANGED <<given, inv, ctx, cmdErr, pipe, output, result>>

\* The poll finds no such process, once Wait has reaped the leader.
LeaderGone ==
    /\ watch = "grace" /\ leader = "reaped"
    /\ watch' = "delay"
    /\ UNCHANGED <<given, inv, ctx, cmdErr, processes, pipe, output, result>>

\* Two seconds are over.
KillsGroup ==
    /\ watch = "grace"
    /\ watch' = "delay" /\ Sigkill
    /\ UNCHANGED <<given, inv, ctx, cmdErr, pipe, output, result>>

\* WaitDelay is over and Wait has not asked: the leader is killed, the pipe closed.
WatchDelayEnds ==
    /\ watch = "delay"
    /\ watch' = "report"
    /\ IF leader = "running" THEN leader' = "zombie" /\ exit' = "signal"
                             ELSE UNCHANGED <<leader, exit>>
    /\ pipe' = IF pipe = "open" THEN "closed" ELSE pipe
    /\ UNCHANGED <<given, inv, ctx, cmdErr, heir, output, result>>
-----------------------------------------------------------------------------
(* Invoke, in cmd.Wait and after it *)

Reaps ==
    /\ inv = "reaping" /\ leader = "zombie"
    /\ leader' = "reaped" /\ Goes("joining")
    /\ UNCHANGED <<given, ctx, cmdErr, watch, heir, exit, pipe, output>>

\* Wait takes the result of the watching goroutine: that nothing happened, or
\* that cmd.Cancel has run.
Joins ==
    /\ inv = "joining" /\ watch \in {"waiting", "delay", "report"}
    /\ watch' = IF watch = "waiting" THEN "unused" ELSE "used"
    /\ Goes("draining")
    /\ UNCHANGED <<given, ctx, cmdErr, processes, pipe, output>>

\* (mutant) Without WaitDelay the copying goroutine is waited for.
DrainsForever ==
    /\ inv = "draining" /\ pipe # "open"
    /\ UNCHANGED pipe
    /\ Goes("judging")
    /\ UNCHANGED <<given, ctx, cmdErr, watch, processes, output>>

\* The copying goroutine has ended, or WaitDelay is over and the pipe is closed.
Drains ==
    /\ inv = "draining"
    /\ \/ pipe # "open" /\ UNCHANGED pipe
       \/ pipe = "open" /\ pipe' = "closed"
    /\ Goes("judging")
    /\ UNCHANGED <<given, ctx, cmdErr, watch, processes, output>>

\* Truncate.
Capped(kind) == [kind |-> kind, truncated |-> kept > MaxOutput]

\* (mutant) Only an exit status is an error.
VerdictOfExit ==
    IF exit # "success" THEN Capped("exit_error") ELSE Capped("ok")

\* What Invoke makes of the error of Wait: the exit status first, then that of the
\* watching goroutine, then a delay.
Verdict ==
    IF exit # "success" THEN Capped("exit_error")
    ELSE IF watch = "used" \/ pipe = "closed"
         THEN [kind |-> "wait_error", truncated |-> FALSE]
         ELSE Capped("ok")

\* Invoke looks at cmdCtx.
Judges ==
    /\ inv = "judging"
    /\ IF cmdErr # "none" THEN Ends(cmdErr) ELSE Goes("rejudging")
    /\ UNCHANGED <<given, ctx, cmdErr, watch, processes, pipe, output>>

\* Then at the context of the turn, which may just have been cancelled; the group
\* gets SIGTERM once more, and its leader is known to be gone.
JudgesAgain ==
    /\ inv = "rejudging"
    /\ IF ctx = "cancelled"
       THEN Ends("cancelled") /\ Sigterm
       ELSE inv' = "ended" /\ result' = Verdict /\ UNCHANGED processes
    /\ UNCHANGED <<given, ctx, cmdErr, watch, pipe, output>>

Invoke == Checks \/ Answered \/ Starts \/ Reaps \/ Joins \/ Drains \/ Judges \/ JudgesAgain
Watch  == TermsGroup \/ LeaderGone \/ KillsGroup \/ WatchDelayEnds
Next ==
    \/ Invoke \/ Watch \/ PipeEnds
    \/ CancelTurn \/ CommandContextEnds
    \/ LeaderForks \/ LeaderExits \/ HeirExits \/ Writes

\* The goroutines go on, and the timers run out: the timeout, the two seconds of
\* killProcessGroup and WaitDelay.  Nothing makes a process end by itself.
Fairness ==
    /\ WF_vars(Checks) /\ WF_vars(Starts) /\ WF_vars(Reaps) /\ WF_vars(Joins)
    /\ WF_vars(Drains) /\ WF_vars(Judges) /\ WF_vars(JudgesAgain)
    /\ WF_vars(Watch) /\ WF_vars(PipeEnds) /\ WF_vars(CommandContextEnds)

Spec == Init /\ [][Next]_vars /\ Fairness
-----------------------------------------------------------------------------
(* Properties *)

\* Types; the leader is waited for once it runs, and there is a result at the end.
TypeOK ==
    /\ input \in Input /\ nature \in Nature
    /\ inv \in {"called", "asking", "accepted", "reaping", "joining", "draining",
                "judging", "rejudging", "ended"}
    /\ ctx \in {"live", "cancelled"} /\ cmdErr \in {"none", "cancelled", "timeout"}
    /\ watch \in {"none", "waiting", "grace", "delay", "report", "used", "unused"}
    /\ leader \in {"none", "running", "zombie", "reaped"}
    /\ heir \in {"none", "running", "dead"}
    /\ exit \in {"none", "success", "failure", "signal"}
    /\ pipe \in {"none", "open", "drained", "closed"}
    /\ written \in 0..MaxWritten /\ kept \in 0..SafetyCap
    /\ result \in Result /\ (inv = "ended" <=> result.kind # "none")

\* A command reported as completed ended with status 0 by itself, and all that
\* was written is in the output: no process still has the pipe (Invoke, cmd.Wait).
SuccessIsWhole ==
    result.kind = "ok" =>
        /\ exit = "success" /\ pipe = "drained" /\ ~Writing
        /\ watch = "unused"

\* A result with output says that it was cut exactly when something is missing,
\* whatever capWriter dropped before (writerSafetyCapBytes, Truncate).
TruncationReported ==
    result.kind \in {"ok", "exit_error"} => (result.truncated <=> written > MaxOutput)

\* A command that was started ends, whatever its processes do: the timeout, the
\* kill of the group and WaitDelay see to it.
CommandEnds == (inv = "reaping") ~> (inv = "ended")
=============================================================================
