---------------------------- MODULE SessionStore -----------------------------
(***************************************************************************)
(* session.Store (internal/session/store.go, repair.go): events go through *)
(* a queue to one writer goroutine, which buffers them, and flushes and    *)
(* fsyncs on a ticker, for Flush and on Close.  The process may be killed  *)
(* and the machine may lose power at any time; the next New repairs the    *)
(* file and goes on with it.                                               *)
(*                                                                         *)
(* A batch is one line here; how an event is encoded is left out.  The     *)
(* file is the sequence of what was written to it: a line, or the part of  *)
(* one that a failed write or a power failure left.  What comes behind     *)
(* such a part stands on the same line as it.                              *)
(***************************************************************************)
EXTENDS Naturals, Sequences, SequencesExt

CONSTANTS Recorders,   \* goroutines that call the Record methods
          QueueCap,    \* capacity of the events channel, 256 in the code
          MaxEvents,   \* bound: events of a behaviour
          MaxOpens     \* bound: stores opened on the file

ASSUME StoreAssumption ==
    /\ QueueCap \in Nat \ {0}
    /\ MaxEvents \in Nat /\ MaxOpens \in Nat

VARIABLES
    file,       \* the lines, and parts of lines, of the file
    synced,     \* how many of them are on the disk
    buf,        \* the events in the buffered writer
    failed,     \* the buffered writer's error, which stays
    queue,      \* the events channel
    writer,     \* the writer goroutine
    closed,     \* the closed channel is closed
    calls,      \* the Record call of each recorder
    flush,      \* the Flush call
    used,       \* number of events recorded
    opens,      \* number of stores opened
    acked,      \* (history) events recorded before a Flush that returned nil
    owed,       \* (history) events accepted before Close
    hurried,    \* (history) of acked, those that drain had not taken yet
    glued       \* (history) events that a part of a line made unreadable

vars == <<file, synced, buf, failed, queue, writer, closed, calls, flush,
          used, opens, acked, owed, hurried, glued>>

Events == 1..MaxEvents
Line   == [event : Events, state : {"good", "no_newline", "torn"}]

\* NoCall, or the event of a call that is past the first look at closed.
NoCall == 0

\* Flush waits for the writer with the events recorded before it.
NoFlush    == [stage |-> "none", covers |-> {}]
FlushCall  == [stage : {"none", "waiting"}, covers : SUBSET Events]

Init ==
    /\ file = <<>>
    /\ synced = 0
    /\ buf = <<>>
    /\ failed = FALSE
    /\ queue = <<>>
    /\ writer = "down"
    /\ closed = FALSE
    /\ calls = [r \in Recorders |-> NoCall]
    /\ flush = NoFlush
    /\ used = 0
    /\ opens = 0
    /\ acked = {}
    /\ owed = {}
    /\ hurried = {}
    /\ glued = {}

-----------------------------------------------------------------------------
(* The file *)

Lines(es) == [i \in DOMAIN es |-> [event |-> es[i], state |-> "good"]]

\* What may be there of a line that was cut: not all of its JSON, or all of it
\* and no newline.
Cuts(line) == {[line EXCEPT !.state = t] :
                  t \in IF line.state = "torn" THEN {"torn"} ELSE {"torn", "no_newline"}}

\* Every line has its newline: the next one will begin where a line begins.
Appendable(lines) == \A i \in DOMAIN lines : lines[i].state = "good"

\* Element i is a line of its own and valid JSON.
Valid(lines, i) ==
    /\ i > 1 => lines[i-1].state = "good"
    /\ \/ lines[i].state = "good"
       \/ lines[i].state = "no_newline" /\ i = Len(lines)

\* What Resume and LoadGrants read: the lines up to the first invalid one.
Readable(lines) ==
    LET n == CHOOSE n \in 0..Len(lines) :
                /\ \A i \in 1..n : Valid(lines, i)
                /\ n < Len(lines) => ~Valid(lines, n+1)
    IN  [i \in 1..n |-> lines[i].event]

\* The last element that is a valid line, 0 if there is none.
LastGood(lines) ==
    CHOOSE n \in 0..Len(lines) :
        /\ n > 0 => Valid(lines, n)
        /\ \A i \in (n+1)..Len(lines) : ~Valid(lines, i)

\* (mutant) It is cut before that line.
RepairSessionShort(lines) == IF LastGood(lines) = 0 THEN <<>> ELSE SubSeq(lines, 1, LastGood(lines) - 1)

\* repairSession: the file is cut behind its last valid line, which stays as it
\* is when it has no newline.
RepairSession(lines) == SubSeq(lines, 1, LastGood(lines))

\* The events that were accepted and are not lost.  Behind a part of a line
\* none can be read.
Kept == IF Appendable(file)
        THEN Readable(file \o Lines(buf))
               \o IF failed \/ writer = "down" THEN <<>> ELSE queue
        ELSE Readable(file)

\* The events a caller may take for recorded.
Recorded == ToSet(Readable(file)) \cup ToSet(buf) \cup ToSet(queue)

\* The events that are lost when the file becomes lines, because it does not
\* end with a newline: those written, and the one that had none.
Glued(lines) ==
    IF Appendable(file) \/ Len(lines) <= Len(file) THEN {}
    ELSE {lines[i].event : i \in Len(file)..Len(lines)}

-----------------------------------------------------------------------------
(* New, Close and the end of the process *)

\* New, in a process of its own, where no call of an earlier one is under way.
\* A cut file is synced, one that is whole is left alone.  When the repair or its
\* sync fails that is reported, and the file is used as it is.
Open ==
    /\ writer = "down"
    /\ opens < MaxOpens
    /\ opens' = opens + 1
    /\ \/ /\ file' = RepairSession(file)
          /\ \/ file' # file /\ synced' = Len(file')
             \/ synced' = IF synced < Len(file') THEN synced ELSE Len(file')
       \/ UNCHANGED <<file, synced>>
    /\ writer' = "loop"
    /\ closed' = FALSE
    /\ failed' = FALSE
    /\ queue' = <<>>
    /\ calls' = [r \in Recorders |-> NoCall]
    /\ flush' = NoFlush
    /\ owed' = {}
    /\ UNCHANGED <<buf, used, acked, hurried, glued>>

CallClose ==
    /\ writer = "loop" /\ ~closed
    /\ closed' = TRUE
    /\ owed' = Recorded
    /\ UNCHANGED <<file, synced, buf, failed, queue, writer, calls, flush, used, opens, acked, hurried, glued>>

\* The process is killed or the power fails: of what is not on the disk some
\* may be there, the last line of it perhaps cut.
Crash ==
    /\ opens > 0
    /\ LET lines == IF failed THEN file ELSE file \o Lines(buf)
       IN  \E n \in synced..Len(lines) :
             \/ file' = SubSeq(lines, 1, n)
             \/ /\ n < Len(lines)
                /\ \E part \in Cuts(lines[n+1]) : file' = Append(SubSeq(lines, 1, n), part)
    /\ glued' = glued \cup Glued(file')
    /\ writer' = "down"
    /\ buf' = <<>>
    /\ failed' = FALSE
    /\ queue' = <<>>
    /\ closed' = TRUE
    /\ calls' = [r \in Recorders |-> NoCall]
    /\ flush' = NoFlush
    /\ owed' = {}
    /\ UNCHANGED <<synced, used, opens, acked, hurried>>

-----------------------------------------------------------------------------
(* The callers: Record and its kin, Flush *)

\* A first look at closed, without waiting.
CallRecord(r) ==
    /\ opens > 0
    /\ calls[r] = NoCall
    /\ used < MaxEvents
    /\ used' = used + 1
    /\ calls' = IF closed THEN calls ELSE [calls EXCEPT ![r] = used + 1]
    /\ UNCHANGED <<file, synced, buf, failed, queue, writer, closed, flush, opens, acked, owed, hurried, glued>>

\* (mutant) The queue has no bound.
RecordEntersAnyway(r) ==
    /\ calls[r] # NoCall
    /\ queue' = Append(queue, calls[r])
    /\ calls' = [calls EXCEPT ![r] = NoCall]
    /\ UNCHANGED <<file, synced, buf, failed, writer, closed, flush, used, opens, acked, owed, hurried, glued>>

\* The select between the queue and closed: either, when both are ready.
RecordEnters(r) ==
    /\ calls[r] # NoCall
    /\ Len(queue) < QueueCap
    /\ queue' = Append(queue, calls[r])
    /\ calls' = [calls EXCEPT ![r] = NoCall]
    /\ UNCHANGED <<file, synced, buf, failed, writer, closed, flush, used, opens, acked, owed, hurried, glued>>

RecordRefused(r) ==
    /\ calls[r] # NoCall
    /\ closed
    /\ calls' = [calls EXCEPT ![r] = NoCall]
    /\ UNCHANGED <<file, synced, buf, failed, queue, writer, closed, flush, used, opens, acked, owed, hurried, glued>>

CallFlush ==
    /\ ~closed
    /\ writer = "loop"
    /\ flush.stage = "none"
    /\ flush' = [stage |-> "waiting", covers |-> Recorded]
    /\ UNCHANGED <<file, synced, buf, failed, queue, writer, closed, calls, used, opens, acked, owed, hurried, glued>>

\* (mutant) It is the writer that refuses, as long as it runs.
FlushRefusedByWriter ==
    /\ flush.stage = "waiting"
    /\ closed /\ writer # "down"
    /\ flush' = NoFlush
    /\ UNCHANGED <<file, synced, buf, failed, queue, writer, closed, calls, used, opens, acked, owed, hurried, glued>>

FlushRefused ==
    /\ flush.stage = "waiting"
    /\ closed
    /\ flush' = NoFlush
    /\ UNCHANGED <<file, synced, buf, failed, queue, writer, closed, calls, used, opens, acked, owed, hurried, glued>>

-----------------------------------------------------------------------------
(* The writer goroutine *)

\* The buffer with es written to it: nothing goes in after an error.
Buffered(es) == IF failed THEN <<>> ELSE buf \o es

\* Store.flush of buffer b: it all reaches the disk; or the file takes only
\* a part of it, and no more ever; or only the fsync fails.
FlushSucceeds(b) ==
    /\ ~failed
    /\ file' = file \o Lines(b)
    /\ synced' = Len(file')
    /\ buf' = <<>>
    /\ glued' = glued \cup Glued(file')
    /\ UNCHANGED failed

FlushFails(b) ==
    /\ \/ /\ b # <<>> /\ ~failed
          /\ \E n \in 0..(Len(b) - 1) :
               \/ file' = file \o Lines(SubSeq(b, 1, n))
               \/ \E part \in Cuts(Lines(b)[n+1]) :
                     file' = Append(file \o Lines(SubSeq(b, 1, n)), part)
          /\ failed' = TRUE
       \/ ~failed /\ file' = file \o Lines(b) /\ UNCHANGED failed
       \/ failed /\ UNCHANGED <<file, failed>>
    /\ buf' = <<>>
    /\ glued' = glued \cup Glued(file')
    /\ UNCHANGED synced

WriterTakes ==
    /\ writer = "loop"
    /\ queue # <<>>
    /\ buf' = Buffered(<<Head(queue)>>)
    /\ queue' = Tail(queue)
    /\ UNCHANGED <<file, synced, failed, writer, closed, calls, flush, used, opens, acked, owed, hurried, glued>>

WriterTicks ==
    /\ writer = "loop"
    /\ FlushSucceeds(buf) \/ FlushFails(buf)
    /\ UNCHANGED <<queue, writer, closed, calls, flush, used, opens, acked, owed, hurried>>

\* (mutant) The queue is not emptied first.
WriterFlushesBuffer ==
    /\ writer = "loop"
    /\ flush.stage = "waiting"
    /\ \/ FlushSucceeds(buf) /\ acked' = acked \cup flush.covers
       \/ FlushFails(buf) /\ UNCHANGED acked
    /\ flush' = NoFlush
    /\ UNCHANGED <<queue, writer, closed, calls, used, opens, owed, hurried>>

\* Flush is answered, with what was queued before it.
WriterFlushes ==
    /\ writer = "loop"
    /\ flush.stage = "waiting"
    /\ queue' = <<>>
    /\ \/ FlushSucceeds(Buffered(queue)) /\ acked' = acked \cup flush.covers
       \/ FlushFails(Buffered(queue)) /\ UNCHANGED acked
    /\ flush' = NoFlush
    /\ UNCHANGED <<writer, closed, calls, used, opens, owed, hurried>>

WriterSeesClosed ==
    /\ writer = "loop"
    /\ closed
    /\ writer' = "draining"
    /\ UNCHANGED <<file, synced, buf, failed, queue, closed, calls, flush, used, opens, acked, owed, hurried, glued>>

\* drain takes from the queue, or answers a Flush that it sees with what is in
\* the buffer; what was recorded before that Flush may still be queued.
WriterDrains ==
    /\ writer = "draining"
    /\ \/ /\ queue # <<>>
          /\ buf' = Buffered(<<Head(queue)>>)
          /\ queue' = Tail(queue)
          /\ UNCHANGED <<file, synced, failed, flush, acked, hurried, glued>>
       \/ /\ flush.stage = "waiting"
          /\ \/ /\ FlushSucceeds(buf)
                /\ acked' = acked \cup flush.covers
                /\ hurried' = hurried \cup (flush.covers \cap ToSet(queue))
             \/ FlushFails(buf) /\ UNCHANGED <<acked, hurried>>
          /\ flush' = NoFlush
          /\ UNCHANGED queue
    /\ UNCHANGED <<writer, closed, calls, used, opens, owed>>

\* Nothing is left: a last flush, and the file is closed.
WriterEnds ==
    /\ writer = "draining"
    /\ queue = <<>>
    /\ FlushSucceeds(buf) \/ FlushFails(buf)
    /\ writer' = "down"
    /\ UNCHANGED <<queue, closed, calls, flush, used, opens, acked, owed, hurried>>

-----------------------------------------------------------------------------
Caller(r) == RecordEnters(r) \/ RecordRefused(r)
Writer    == WriterTakes \/ WriterFlushes \/ WriterSeesClosed \/ WriterDrains \/ WriterEnds

Next ==
    \/ Open \/ CallClose \/ Crash
    \/ \E r \in Recorders : CallRecord(r) \/ Caller(r)
    \/ CallFlush \/ FlushRefused
    \/ Writer \/ WriterTicks

\* The goroutines run, and a select that stays ready is taken: the writer
\* chooses among its channels at random.
Spec ==
    /\ Init
    /\ [][Next]_vars
    /\ \A r \in Recorders : WF_vars(Caller(r))
    /\ WF_vars(FlushRefused)
    /\ WF_vars(WriterTakes) /\ WF_vars(WriterFlushes) /\ WF_vars(WriterSeesClosed)
    /\ WF_vars(WriterDrains) /\ WF_vars(WriterEnds)

-----------------------------------------------------------------------------
TypeOK ==
    /\ file \in Seq(Line)
    /\ synced \in 0..Len(file)
    /\ buf \in Seq(Events)
    /\ failed \in BOOLEAN
    /\ queue \in Seq(Events) /\ Len(queue) <= QueueCap
    /\ writer \in {"down", "loop", "draining"}
    /\ closed \in BOOLEAN
    /\ calls \in [Recorders -> Events \cup {NoCall}]
    /\ flush \in FlushCall
    /\ used \in 0..MaxEvents
    /\ opens \in 0..MaxOpens
    /\ acked \subseteq Events /\ owed \subseteq Events
    /\ hurried \subseteq Events /\ glued \subseteq Events

\* How many lines from the first on have their newline.
Intact(lines) ==
    CHOOSE n \in 0..Len(lines) :
        /\ \A i \in 1..n : lines[i].state = "good"
        /\ n < Len(lines) => lines[n+1].state # "good"

\* The events whose lines are on the disk together with their newlines.
Hardened == Intact(SubSeq(file, 1, synced))

\* The session file is an event log: whatever fails and whenever the process
\* dies, events are lost from the end only, and none that was synced together
\* with its newline; the next store goes on from there.  Behind a part of a line
\* that repairSession keeps the log takes nothing more.
Log == INSTANCE EventLog WITH log <- Kept, safe <- Hardened
ImplementsLog == Log!Spec

OnDisk == ToSet(Readable(SubSeq(file, 1, synced)))

\* When Close has returned, the events accepted before it are in the file,
\* unless writing failed (Store.Close: "drains any queued events"), but for
\* those that were glued.
CloseDrains ==
    (writer = "down" /\ ~failed) => (owed \ glued) \subseteq ToSet(Readable(file))

\* When Flush has returned nil or Close has returned, the events recorded before
\* can be read from the file, then and after any crash and restart, but for the
\* events of two cases: glued, those that a line without a newline made
\* unreadable (repair.go keeps it), and hurried, those that drain left in the
\* queue when it answered the Flush.
Durable == (acked \ (glued \cup hurried)) \subseteq OnDisk /\ CloseDrains

\* No caller of Record or Flush waits for ever, for a full queue or for a
\* writer that has gone.
CallersReturn ==
    /\ \A r \in Recorders : (calls[r] # NoCall) ~> (calls[r] = NoCall)
    /\ (flush.stage = "waiting") ~> (flush.stage = "none")
=============================================================================
