----------------------------- MODULE PyTelemetry -----------------------------
(***************************************************************************)
(* The Python agent's telemetry buffer, agent/telemetry/buffer.py, on top  *)
(* of its local database (PyStore).                                        *)
(*                                                                         *)
(* Request threads call send, which puts an event in a bounded queue or    *)
(* drops it. Two threads run the same code, _drain_batch and _flush: the   *)
(* flusher in its loop and, once, the thread that calls stop. _flush hands *)
(* every event of a batch to the store and the whole batch to flush_fn,    *)
(* whose failure is logged. Nothing orders stop and the store's close.     *)
(***************************************************************************)
EXTENDS PyStore, FiniteSets

CONSTANTS
  Capacity,    \* size of the event queue (10000)
  BatchSize,   \* most events of a batch (1000)
  MaxEvents,   \* bound on the number of send calls and other writes together
  MaxOther     \* bound on the number of other writes to the store

\* The rows of security_events have the numbers of the send calls as keys. What is
\* written to the other tables is the number of the write.
Events == 1 .. MaxEvents
Threads == {"flusher", "stop"}

ASSUME PyTelemetryAssumption == /\ Capacity \in Nat \ {0}
                                /\ BatchSize \in Nat \ {0}
                                /\ MaxEvents \in Nat /\ MaxOther \in Nat
                                /\ Events \subseteq Keys \ Addresses
                                /\ 1 .. MaxEvents \subseteq Values

VARIABLES
  queue,      \* _queue
  batch,      \* the local batch of each thread
  pc,         \* where each thread is
  next,       \* how many events of its batch a thread has handed to the store
  seen,       \* the value of _flushed that "_flushed += len(batch)" has read
  shutdown,   \* the buffer's _shutdown
  flushed,    \* _flushed
  dropped,    \* _dropped
  sent,       \* send calls so far
  others,     \* other writes so far
  offered,    \* history: the events of the batches passed to flush_fn, in order
  delivered,  \* history: how many events flush_fn took without raising
  owed,       \* history: what _queue held when stop was called
  hurried     \* history: stop's drain met its deadline, or its join the timeout

bufferVars == <<queue, batch, pc, next, seen, shutdown, flushed, dropped, sent, others,
                offered, delivered, owed, hurried>>
vars == <<storeVars, bufferVars>>

Init == /\ StoreInit
        /\ queue = <<>> /\ offered = <<>> /\ owed = <<>>
        /\ batch = [t \in Threads |-> <<>>]
        /\ pc = [flusher |-> "drain", stop |-> "idle"]
        /\ next = [t \in Threads |-> 0] /\ seen = [t \in Threads |-> 0]
        /\ shutdown = FALSE /\ hurried = FALSE
        /\ flushed = 0 /\ dropped = 0 /\ sent = 0 /\ others = 0 /\ delivered = 0
-----------------------------------------------------------------------------
(* Request threads *)

\* send never waits: the event is queued, or counted and lost.
Send == /\ sent + others < MaxEvents
        /\ sent' = sent + 1
        /\ IF Len(queue) = Capacity
           THEN dropped' = dropped + 1 /\ UNCHANGED queue
           ELSE queue' = Append(queue, sent') /\ UNCHANGED dropped
        /\ UNCHANGED <<storeVars, batch, pc, next, seen, shutdown, flushed, others,
                       offered, delivered, owed, hurried>>

\* The pipeline and the operator write to the other tables.
OtherWrite == /\ others < MaxOther /\ sent + others < MaxEvents
              /\ others' = others + 1
              /\ \/ \E k \in Keys \ Events : Replace(k, others') \/ Deactivate(k, others')
                 \/ Cleanup
              /\ UNCHANGED <<queue, batch, pc, next, seen, shutdown, flushed, dropped,
                             sent, offered, delivered, owed, hurried>>
-----------------------------------------------------------------------------
(* _drain_batch and _flush, in thread t *)

Goto(t, p) == pc' = [pc EXCEPT ![t] = p]

MutRemove(t) == queue' = queue
Remove(t) == queue' = Tail(queue)

\* One get_nowait, before the deadline.
Take(t) == /\ pc[t] = "drain" /\ Len(batch[t]) < BatchSize /\ queue # <<>>
           /\ batch' = [batch EXCEPT ![t] = Append(@, Head(queue))]
           /\ Remove(t)
           /\ UNCHANGED <<storeVars, pc, next, seen, shutdown, flushed, dropped, sent,
                          others, offered, delivered, owed, hurried>>

\* Where a thread goes with no batch to flush.
Idle(t) == IF t = "flusher" THEN "sleep" ELSE "join"

\* The batch is full, the queue is empty, or the deadline has passed, a whole
\* flush_interval after the first look at the queue.
Drained(t) == /\ pc[t] = "drain"
              /\ batch[t] # <<>> \/ queue = <<>>
              /\ Goto(t, IF batch[t] = <<>> THEN Idle(t) ELSE "store")
              /\ hurried' = (hurried \/ (t = "stop" /\ queue # <<>>
                                         /\ Len(batch[t]) < BatchSize))
              /\ UNCHANGED <<storeVars, queue, batch, next, seen, shutdown, flushed,
                             dropped, sent, others, offered, delivered, owed>>

\* store_event for the next event of the batch; one that raises is logged and passed over.
StoreEvent(t) == /\ pc[t] = "store" /\ next[t] < Len(batch[t])
                 /\ next' = [next EXCEPT ![t] = @ + 1]
                 /\ \/ Replace(batch[t][next'[t]], batch[t][next'[t]])
                    \/ UNCHANGED storeVars
                 /\ UNCHANGED <<queue, batch, pc, seen, shutdown, flushed, dropped, sent,
                                others, offered, delivered, owed, hurried>>

\* Where a thread goes after _flush: while not _shutdown.is_set(), or the join.
Loop == IF shutdown THEN "done" ELSE "drain"
MutAfterFlush(t) == IF t = "flusher" THEN "done" ELSE "join"
AfterFlush(t) == IF t = "flusher" THEN Loop ELSE "join"

Release(t) == batch' = [batch EXCEPT ![t] = <<>>] /\ next' = [next EXCEPT ![t] = 0]

\* flush_fn takes the batch; "_flushed += len(batch)" reads _flushed and then calls len.
FlushOk(t) == /\ pc[t] = "store" /\ next[t] = Len(batch[t])
              /\ offered' = offered \o batch[t]
              /\ delivered' = delivered + Len(batch[t])
              /\ seen' = [seen EXCEPT ![t] = flushed]
              /\ Goto(t, "count")
              /\ UNCHANGED <<storeVars, queue, batch, next, shutdown, flushed, dropped,
                             sent, others, owed, hurried>>

Count(t) == /\ pc[t] = "count"
            /\ flushed' = seen[t] + Len(batch[t])
            /\ seen' = [seen EXCEPT ![t] = 0]
            /\ Release(t)
            /\ Goto(t, AfterFlush(t))
            /\ UNCHANGED <<storeVars, queue, shutdown, dropped, sent, others,
                           offered, delivered, owed, hurried>>

\* flush_fn raises: the batch is forgotten.
FlushFails(t) == /\ pc[t] = "store" /\ next[t] = Len(batch[t])
                 /\ offered' = offered \o batch[t]
                 /\ Release(t)
                 /\ Goto(t, AfterFlush(t))
                 /\ UNCHANGED <<storeVars, queue, seen, shutdown, flushed, dropped, sent,
                                others, delivered, owed, hurried>>

Work(t) == \/ Take(t) \/ Drained(t) \/ StoreEvent(t)
           \/ FlushOk(t) \/ Count(t) \/ FlushFails(t)
-----------------------------------------------------------------------------
(* The two threads *)

Wake == /\ pc.flusher = "sleep"
        /\ Goto("flusher", Loop)
        /\ UNCHANGED <<storeVars, queue, batch, next, seen, shutdown, flushed, dropped,
                       sent, others, offered, delivered, owed, hurried>>

MutStop == /\ pc.stop = "idle"
           /\ shutdown' = TRUE
           /\ owed' = queue
           /\ Goto("stop", "join")
           /\ UNCHANGED <<storeVars, queue, batch, next, seen, flushed, dropped, sent,
                          others, offered, delivered, hurried>>
\* stop is called.
Stop == /\ pc.stop = "idle"
        /\ shutdown' = TRUE
        /\ owed' = queue
        /\ Goto("stop", "drain")
        /\ UNCHANGED <<storeVars, queue, batch, next, seen, flushed, dropped, sent,
                       others, offered, delivered, hurried>>

\* The join ends when the flusher has, or after its timeout.
Join == /\ pc.stop = "join"
        /\ Goto("stop", "returned")
        /\ hurried' = (hurried \/ pc.flusher # "done")
        /\ UNCHANGED <<storeVars, queue, batch, next, seen, shutdown, flushed, dropped,
                       sent, others, offered, delivered, owed>>

Flusher == Wake \/ Work("flusher")
Stopper == Work("stop") \/ Join

Next == \/ Send \/ OtherWrite \/ Flusher \/ Stop \/ Stopper
        \/ /\ \/ Writer \/ BeginClose \/ EndClose
              \/ \E k \in Keys : Expire(k)
           /\ UNCHANGED bufferVars

Spec == Init /\ [][Next]_vars

\* The interpreter runs the flusher whenever it is ready, and flush_fn returns.
FairSpec == Spec /\ WF_vars(Flusher)
-----------------------------------------------------------------------------
(* Properties *)

Elems(s) == {s[i] : i \in DOMAIN s}

\* The variables have their types.
TypeOK == /\ StoreTypeOK
          /\ queue \in Seq(1 .. sent) /\ Len(queue) <= Capacity
          /\ batch \in [Threads -> Seq(1 .. sent)]
          /\ pc.flusher \in {"drain", "store", "count", "sleep", "done"}
          /\ pc.stop \in {"idle", "drain", "store", "count", "join", "returned"}
          /\ DOMAIN pc = Threads
          /\ next \in [Threads -> 0 .. BatchSize] /\ seen \in [Threads -> Nat]
          /\ shutdown \in BOOLEAN /\ hurried \in BOOLEAN
          /\ {flushed, dropped, delivered} \subseteq Nat
          /\ sent \in 0 .. MaxEvents /\ others \in 0 .. MaxOther
          /\ offered \in Seq(1 .. sent) /\ owed \in Seq(1 .. sent)

\* Events of thread t that flush_fn has not been offered yet.
Pending(t) == IF pc[t] = "count" THEN <<>> ELSE batch[t]

\* An event that send took is in one place only: with two threads draining the queue,
\* none is lost on the way, offered to flush_fn twice, or put in the local database
\* by anything but its own send. stats() counts no event as flushed that flush_fn did not
\* take, and before stop is called, with one thread counting, each one it did.
EventsAccounted ==
  LET places == <<offered, Pending("flusher"), Pending("stop"), queue>> IN
  /\ Len(offered) + Len(Pending("flusher")) + Len(Pending("stop")) + Len(queue)
       + dropped = sent
  /\ \A i, j \in 1 .. 4 : i # j => Elems(places[i]) \cap Elems(places[j]) = {}
  /\ \A i \in 1 .. 4 : Cardinality(Elems(places[i])) = Len(places[i])
  /\ \A e \in Events : Found(e) => e \notin Elems(queue)
  /\ flushed <= delivered
  /\ pc.stop = "idle" =>
       flushed + (IF pc.flusher = "count" THEN Len(batch.flusher) ELSE 0) = delivered

\* Writes to a row take effect in the order of the calls, whatever batches they
\* fall in and whatever statement fails between them: a row is only ever overwritten by
\* a later statement, and leaves only when its time to live is over.
WritesInOrder ==
  [][\A k \in Keys : row'[k] # row[k] =>
        IF row'[k] = NoRow THEN k \in expired
        ELSE Found(k) => row'[k].value > row[k].value]_storeVars

\* "Graceful shutdown": when at most one batch was queued as stop was called, and
\* neither its drain nor its join ran out of time, all of it, and what the flusher was
\* carrying, has been offered to flush_fn when stop returns.
StopFlushesABatch ==
  pc.stop = "returned" /\ ~hurried /\ Len(owed) <= BatchSize =>
     /\ Elems(owed) \subseteq Elems(offered)
     /\ batch.flusher = <<>>

\* While nobody calls stop, all that send took gets to flush_fn, a failing flush_fn or
\* a full store notwithstanding: again and again nothing is queued and nothing carried.
EventsAreOffered == []<>(shutdown \/ (queue = <<>> /\ Pending("flusher") = <<>>))
=============================================================================
