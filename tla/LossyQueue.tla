----------------------------- MODULE LossyQueue -----------------------------
(***************************************************************************)
(* What a telemetry buffer promises to the security pipeline, whichever    *)
(* agent implements it: an offered event is accepted or dropped at once,   *)
(* never both; an accepted event is handed to the sink at most once; and   *)
(* shutting down finishes only when every event that was accepted before   *)
(* the shutdown began has been handed over.                                *)
(*                                                                         *)
(* TelemetryBuffer (Go agent) implements this specification.               *)
(***************************************************************************)
CONSTANT Events

VARIABLES
  accepted,   \* events the buffer took responsibility for
  dropped,    \* events it refused
  delivered,  \* events handed to the sink
  owed,       \* events accepted before the shutdown began
  phase       \* "open", "closing" or "closed"

vars == <<accepted, dropped, delivered, owed, phase>>

Init == /\ accepted = {} /\ dropped = {} /\ delivered = {} /\ owed = {}
        /\ phase = "open"

Accept(e) == /\ e \notin accepted \cup dropped
             /\ accepted' = accepted \cup {e}
             /\ UNCHANGED <<dropped, delivered, owed, phase>>

Drop(e) == /\ e \notin accepted \cup dropped
           /\ dropped' = dropped \cup {e}
           /\ UNCHANGED <<accepted, delivered, owed, phase>>

\* A batch of accepted, not yet delivered events goes to the sink; while the
\* buffer is closing, the same step may complete the shutdown.
Deliver == /\ \E S \in SUBSET (accepted \ delivered) : delivered' = delivered \cup S
           /\ \/ phase' = phase
              \/ phase = "closing" /\ owed \subseteq delivered' /\ phase' = "closed"
           /\ UNCHANGED <<accepted, dropped, owed>>

Close == /\ phase = "open" /\ phase' = "closing"
         /\ owed' = accepted
         /\ UNCHANGED <<accepted, dropped, delivered>>

Next == (\E e \in Events : Accept(e) \/ Drop(e)) \/ Deliver \/ Close

Spec == Init /\ [][Next]_vars
=============================================================================
