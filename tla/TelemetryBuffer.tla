--------------------------- MODULE TelemetryBuffer ---------------------------
(***************************************************************************)
(* The Go agent's telemetry buffer, internal/telemetry/buffer.go.          *)
(*                                                                         *)
(* Request goroutines call Send, which puts an event in a buffered channel *)
(* or drops it. One flusher goroutine (run) moves events from the channel  *)
(* to a batch and hands full batches, or any batch when the ticker fires,  *)
(* to the sink. Stop closes the quit channel and waits for the flusher,    *)
(* which drains the channel and flushes once more.                         *)
(*                                                                         *)
(* A sink error is only logged (buffer.go:95), so a failed and a           *)
(* successful Sink.Flush are the same step here. Events are numbered in    *)
(* the order of the Send calls; what they contain does not matter.         *)
(***************************************************************************)
EXTENDS Integers, Sequences

CONSTANTS
  Capacity,   \* size of the channel
  BatchSize,  \* events that trigger a flush
  MaxEvents   \* bound on the number of Send calls

ASSUME BufferAssumption == /\ Capacity \in Nat \ {0}
                           /\ BatchSize \in Nat \ {0}
                           /\ MaxEvents \in Nat

VARIABLES
  ch,         \* b.ch, the buffered channel
  batch,      \* the flusher's local batch
  pc,         \* where the flusher is
  quit,       \* b.quit is closed
  flushed,    \* b.flushed
  dropped,    \* b.dropped
  sent,       \* Send calls so far
  accepted,   \* history: the events for which Send returned true
  handed,     \* history: the events passed to Sink.Flush
  owed        \* history: how many events were accepted when Stop was called

vars == <<ch, batch, pc, quit, flushed, dropped, sent, accepted, handed, owed>>
history == <<accepted, handed, owed>>

Init == /\ ch = <<>> /\ batch = <<>> /\ accepted = <<>> /\ handed = <<>>
        /\ pc = "select"
        /\ quit = FALSE
        /\ flushed = 0 /\ dropped = 0 /\ sent = 0 /\ owed = 0
-----------------------------------------------------------------------------
(* Request goroutines *)

MutFull == Len(ch) > Capacity
Full == Len(ch) = Capacity

\* Send never waits: the channel has room, or the event is counted and lost.
Send ==
  /\ sent < MaxEvents
  /\ sent' = sent + 1
  /\ IF Full
     THEN dropped' = dropped + 1 /\ UNCHANGED <<ch, accepted>>
     ELSE /\ ch' = Append(ch, sent')
          /\ accepted' = Append(accepted, sent')
          /\ UNCHANGED dropped
  /\ UNCHANGED <<batch, pc, quit, flushed, handed, owed>>

\* Stop closes quit (once: a second close panics) and then waits for pc = "done".
Stop == /\ ~quit /\ quit' = TRUE
        /\ owed' = Len(accepted)
        /\ UNCHANGED <<ch, batch, pc, flushed, dropped, sent, accepted, handed>>
-----------------------------------------------------------------------------
(* The flusher goroutine *)

BatchFull(b) == Len(b) >= BatchSize

\* One event moves from the channel to the batch.
Take == /\ ch # <<>>
        /\ batch' = Append(batch, Head(ch)) /\ ch' = Tail(ch)
        /\ UNCHANGED <<quit, flushed, dropped, sent, history>>

Receive == /\ pc = "select" /\ Take
           /\ pc' = IF BatchFull(batch') THEN "flush" ELSE "select"

MutTick == /\ pc = "select" /\ BatchFull(batch)
           /\ pc' = "flush"
           /\ UNCHANGED <<ch, batch, quit, flushed, dropped, sent, history>>
Tick == /\ pc = "select" /\ batch # <<>>
        /\ pc' = "flush"
        /\ UNCHANGED <<ch, batch, quit, flushed, dropped, sent, history>>

MutHandOver == /\ handed' = handed \o batch
               /\ flushed' = flushed + Len(batch)
               /\ UNCHANGED <<ch, batch, quit, dropped, sent, accepted, owed>>
\* flush(): the sink gets the batch, whatever it returns the batch is forgotten.
HandOver == /\ handed' = handed \o batch
            /\ flushed' = flushed + Len(batch)
            /\ batch' = <<>>
            /\ UNCHANGED <<ch, quit, dropped, sent, accepted, owed>>

Flush == pc = "flush" /\ HandOver /\ pc' = "select"

Quit == /\ pc = "select" /\ quit
        /\ pc' = "drain"
        /\ UNCHANGED <<ch, batch, quit, flushed, dropped, sent, history>>

Drain == pc = "drain" /\ Take /\ UNCHANGED pc

MutDrained == /\ pc = "drain"
              /\ pc' = "last"
              /\ UNCHANGED <<ch, batch, quit, flushed, dropped, sent, history>>
Drained == /\ pc = "drain" /\ ch = <<>>
           /\ pc' = "last"
           /\ UNCHANGED <<ch, batch, quit, flushed, dropped, sent, history>>

LastFlush == pc = "last" /\ HandOver /\ pc' = "done"

Flusher == Receive \/ Tick \/ Flush \/ Quit \/ Drain \/ Drained \/ LastFlush

Next == Send \/ Stop \/ Flusher

Spec == Init /\ [][Next]_vars

\* The Go scheduler runs the flusher goroutine whenever one of its cases is ready.
FairSpec == Spec /\ WF_vars(Flusher)
-----------------------------------------------------------------------------
(* Properties *)

\* The channel never holds more than Capacity events and the counters are naturals.
TypeOK == /\ ch \in Seq(1 .. sent) /\ Len(ch) <= Capacity
          /\ batch \in Seq(1 .. sent)
          /\ accepted \in Seq(1 .. sent) /\ handed \in Seq(1 .. sent)
          /\ pc \in {"select", "flush", "drain", "last", "done"}
          /\ quit \in BOOLEAN
          /\ sent \in 0 .. MaxEvents
          /\ flushed \in Nat /\ dropped \in Nat /\ owed \in Nat

\* Every event for which Send returned true is in exactly one place (sink, batch or
\* channel), and the three hold them in the order of the Send calls: batching, ticks
\* and the shutdown drain neither lose, nor repeat, nor reorder an accepted event.
Conservation == accepted = handed \o batch \o ch

\* Stats(): flushed + dropped + what is in flight accounts for every Send.
CountersAddUp == flushed + Len(batch) + Len(ch) + dropped = sent

\* Outside the shutdown drain a batch handed to the sink has at most BatchSize events.
BatchBounded == /\ pc = "select" => Len(batch) < BatchSize
                /\ pc = "flush" => Len(batch) <= BatchSize

\* When Stop returns, every event accepted before it was called was handed to the
\* sink (TestBuffer_Stop_FlushesRemaining, with Sends still racing the shutdown).
StopFlushesAccepted == pc = "done" => owed <= Len(handed)

\* Every accepted event gets to the sink, by a full batch, by the ticker or by the drain of
\* Stop, except those accepted when Stop had been called.
AcceptedIsFlushed ==
  \A n \in 1 .. MaxEvents :
    (Len(accepted) >= n) ~> (Len(handed) >= n \/ (quit /\ owed < n))

\* The buffer implements the promise made to the pipeline.
Elems(s) == {s[i] : i \in DOMAIN s}
Abstract == INSTANCE LossyQueue WITH
  Events    <- 1 .. MaxEvents,
  accepted  <- Elems(accepted),
  dropped   <- (1 .. sent) \ Elems(accepted),
  delivered <- Elems(handed),
  owed      <- {accepted[i] : i \in 1 .. owed},
  phase     <- IF pc = "done" THEN "closed" ELSE IF quit THEN "closing" ELSE "open"
ImplementsLossyQueue == Abstract!Spec
=============================================================================
