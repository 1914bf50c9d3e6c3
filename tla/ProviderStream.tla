--------------------------- MODULE ProviderStream ----------------------------
(***************************************************************************)
(* What provider.Provider.Stream promises the agent: events, then one last *)
(* event, then a result that fits it.  A cancelled stream promises no last *)
(* event.                                                                  *)
(***************************************************************************)
VARIABLES
    said,      \* the newest event
    returned,  \* what Stream returned
    cancelled  \* the context is done

vars == <<said, returned, cancelled>>

Said     == {"nothing", "content", "done", "error"}
Returned == {"no", "nil", "error", "cancelled"}

Init == said = "nothing" /\ returned = "no" /\ cancelled = FALSE

Open == returned = "no" /\ said \notin {"done", "error"}

Cancels == cancelled' = TRUE /\ UNCHANGED <<said, returned>>

Delivers == Open /\ said' = "content" /\ UNCHANGED <<returned, cancelled>>

\* EventMessageDone is the last event exactly when Stream returns nil.
Succeeds == Open /\ said' = "done" /\ returned' = "nil" /\ UNCHANGED cancelled

\* EventError is the last event when Stream returns an error, which may be a little
\* later.
Fails == Open /\ said' = "error" /\ returned' \in {"no", "error"} /\ UNCHANGED cancelled
ReturnsError ==
    /\ returned = "no" /\ said = "error"
    /\ returned' = "error" /\ UNCHANGED <<said, cancelled>>

ReturnsCancelled ==
    /\ returned = "no" /\ cancelled
    /\ returned' = "cancelled" /\ UNCHANGED <<said, cancelled>>

Next == Cancels \/ Delivers \/ Succeeds \/ Fails \/ ReturnsError \/ ReturnsCancelled
Spec == Init /\ [][Next]_vars
=============================================================================
