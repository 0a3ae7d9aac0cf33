------------------------ MODULE TelemetryBuffer_proofs ------------------------
(***************************************************************************)
(* For every capacity, batch size and number of Sends: the buffer's type   *)
(* invariant, conservation of accepted events in FIFO order, the counters  *)
(* and the promise of Stop.                                                *)
(***************************************************************************)
EXTENDS TelemetryBuffer, SequenceTheorems, TLAPS

\* What makes the properties inductive: the shutdown drain only runs after quit is closed,
\* and from the end of the drain on, what was owed is in the sink or in the batch.
Shutdown == /\ pc \in {"drain", "last", "done"} => quit
            /\ owed <= Len(accepted)
            /\ pc = "last" => owed <= Len(handed) + Len(batch)
            /\ StopFlushesAccepted

Counters == flushed = Len(handed) /\ sent = dropped + Len(accepted)

IInv == TypeOK /\ Conservation /\ BatchBounded /\ Counters /\ Shutdown

\* Moving the head of the second sequence to the end of the first keeps what they hold.
LEMMA MoveHead ==
  ASSUME NEW S, NEW a \in Seq(S), NEW b \in Seq(S), NEW c \in Seq(S), c # <<>>
  PROVE  a \o b \o c = a \o Append(b, Head(c)) \o Tail(c)
<1>1. /\ Head(c) \in S /\ Tail(c) \in Seq(S) /\ Len(Tail(c)) = Len(c) - 1
      /\ \A i \in 1 .. Len(Tail(c)) : Tail(c)[i] = c[i + 1]
      /\ Head(c) = c[1] /\ Len(c) > 0
  BY HeadTailProperties, EmptySeq, LenProperties
<1>2. Append(b, Head(c)) \in Seq(S)
  BY <1>1, AppendProperties
<1> DEFINE l == a \o b \o c
           r == a \o Append(b, Head(c)) \o Tail(c)
<1>3. l \in Seq(S) /\ r \in Seq(S) /\ Len(l) = Len(r)
  BY <1>1, <1>2, ConcatProperties, AppendProperties
<1>4. ASSUME NEW i \in 1 .. Len(l) PROVE l[i] = r[i]
  BY <1>1, <1>2, <1>4, ConcatProperties, AppendProperties, LenProperties
<1>5. QED
  BY <1>3, <1>4, SeqEqual

\* An event appended to the last of three sequences is appended to the whole.
LEMMA AppendLast ==
  ASSUME NEW S, NEW a \in Seq(S), NEW b \in Seq(S), NEW c \in Seq(S), NEW e \in S
  PROVE  a \o b \o Append(c, e) = Append(a \o b \o c, e)
<1>1. a \o b \in Seq(S) /\ a \o b \o c \in Seq(S) /\ <<e>> \in Seq(S)
  BY ConcatProperties
<1>2. Append(c, e) = c \o <<e>> /\ Append(a \o b \o c, e) = (a \o b \o c) \o <<e>>
  BY <1>1, AppendIsConcat
<1>3. (a \o b) \o (c \o <<e>>) = ((a \o b) \o c) \o <<e>>
  BY <1>1, ConcatAssociative, SMTT(30)
<1>4. QED
  BY <1>2, <1>3, Zenon

-----------------------------------------------------------------------------
LEMMA InitInv == Init => IInv
<1> SUFFICES ASSUME Init PROVE IInv
  OBVIOUS
<1>1. /\ ch \in Seq(1 .. sent) /\ batch \in Seq(1 .. sent)
      /\ accepted \in Seq(1 .. sent) /\ handed \in Seq(1 .. sent)
      /\ Len(ch) = 0 /\ Len(batch) = 0 /\ Len(accepted) = 0 /\ Len(handed) = 0
  <2>1. <<>> \in Seq(1 .. sent) /\ Len(<<>>) = 0
    BY EmptySeq
  <2>2. QED
    BY <2>1 DEF Init
<1>2. TypeOK
  <2>1. /\ Len(ch) <= Capacity /\ sent \in 0 .. MaxEvents
        /\ pc = "select" /\ quit = FALSE
        /\ flushed \in Nat /\ dropped \in Nat /\ owed \in Nat
    BY <1>1, BufferAssumption DEF Init
  <2>2. QED
    BY <1>1, <2>1 DEF TypeOK
<1>3. BatchBounded /\ Counters /\ Shutdown
  BY <1>1, BufferAssumption DEF Init, BatchBounded, Counters, Shutdown, StopFlushesAccepted
<1>4. Conservation
  BY EmptySeq, ConcatEmptySeq DEF Init, Conservation
<1>5. QED
  BY <1>2, <1>3, <1>4 DEF IInv

\* What Receive and Drain have in common.
LEMMA TakeInv ==
  ASSUME IInv, Take, pc \in {"select", "drain"},
         pc' \in {pc} \cup {"flush"}, pc = "drain" => pc' = pc,
         pc = "select" => (pc' = "flush" <=> BatchFull(batch'))
  PROVE  IInv'
<1> USE DEF IInv, Take, history
<1>1. /\ ch \in Seq(1 .. sent) /\ batch \in Seq(1 .. sent) /\ ch # <<>>
      /\ handed \in Seq(1 .. sent) /\ sent' = sent
  BY DEF TypeOK
<1>2. /\ Head(ch) \in 1 .. sent /\ Tail(ch) \in Seq(1 .. sent)
      /\ Len(Tail(ch)) = Len(ch) - 1
  BY <1>1, HeadTailProperties
<1>3. batch' \in Seq(1 .. sent) /\ Len(batch') = Len(batch) + 1
  BY <1>1, <1>2, AppendProperties
<1>4. TypeOK'
  <2>1. ch' \in Seq(1 .. sent') /\ Len(ch') <= Capacity
    BY <1>1, <1>2, LenProperties, BufferAssumption DEF TypeOK
  <2>2. QED
    BY <1>1, <1>3, <2>1 DEF TypeOK
<1>5. Conservation'
  <2>1. handed \o batch \o ch = handed \o Append(batch, Head(ch)) \o Tail(ch)
    BY <1>1, MoveHead, SMTT(30)
  <2>2. accepted' = accepted /\ handed' = handed
    OBVIOUS
  <2>3. batch' = Append(batch, Head(ch)) /\ ch' = Tail(ch)
    OBVIOUS
  <2>4. accepted = handed \o batch \o ch
    BY DEF Conservation
  <2>5. QED
    BY <2>1, <2>2, <2>3, <2>4, Zenon DEF Conservation
<1>6. BatchBounded'
  BY <1>1, <1>3, LenProperties, BufferAssumption DEF BatchBounded, BatchFull
<1>7. Counters' /\ Shutdown'
  BY DEF Counters, Shutdown, StopFlushesAccepted
<1>8. QED
  BY <1>4, <1>5, <1>6, <1>7

\* What Flush and LastFlush have in common.
LEMMA HandOverInv ==
  ASSUME IInv, HandOver,
         \/ pc = "flush" /\ pc' = "select"
         \/ pc = "last" /\ pc' = "done"
  PROVE  IInv'
<1> USE DEF IInv, HandOver
<1>1. /\ ch \in Seq(1 .. sent) /\ batch \in Seq(1 .. sent)
      /\ handed \in Seq(1 .. sent) /\ <<>> \in Seq(1 .. sent)
  BY EmptySeq DEF TypeOK
<1>2. handed \o batch \in Seq(1 .. sent) /\ Len(handed') = Len(handed) + Len(batch)
  BY <1>1, ConcatProperties
<1>3. handed' \o batch' = handed \o batch
  BY <1>1, <1>2, ConcatEmptySeq
<1>4. TypeOK'
  BY <1>1, <1>2, LenProperties DEF TypeOK
<1>5. Conservation'
  BY <1>3 DEF Conservation
<1>6. BatchBounded'
  BY BufferAssumption, EmptySeq DEF BatchBounded
<1>7. Counters' /\ Shutdown'
  BY <1>1, <1>2, LenProperties DEF Counters, Shutdown, StopFlushesAccepted
<1>8. QED
  BY <1>4, <1>5, <1>6, <1>7

LEMMA SendInv == IInv /\ Send => IInv'
<1> SUFFICES ASSUME IInv, Send PROVE IInv'
  OBVIOUS
<1> USE DEF IInv, Send
<1>1. sent \in Nat /\ sent' \in 1 .. MaxEvents /\ 1 .. sent \subseteq 1 .. sent'
  BY BufferAssumption DEF TypeOK
<1>2. /\ ch \in Seq(1 .. sent') /\ batch \in Seq(1 .. sent') /\ handed \in Seq(1 .. sent')
      /\ accepted \in Seq(1 .. sent')
  BY <1>1, SeqMonotonic DEF TypeOK
<1>3. CASE Full
  <2>1. /\ dropped' = dropped + 1
        /\ UNCHANGED <<ch, accepted, batch, pc, quit, flushed, handed, owed>>
    BY <1>3
  <2>2. TypeOK'
    BY <1>1, <1>2, <2>1 DEF TypeOK
  <2>3. Conservation' /\ BatchBounded' /\ Shutdown'
    BY <2>1 DEF Conservation, BatchBounded, Shutdown, StopFlushesAccepted
  <2>4. Counters'
    BY <1>2, <2>1, LenProperties DEF TypeOK, Counters
  <2>5. QED
    BY <2>2, <2>3, <2>4
<1>4. CASE ~Full
  <2>1. /\ ch' = Append(ch, sent') /\ accepted' = Append(accepted, sent')
        /\ UNCHANGED <<batch, pc, quit, flushed, dropped, handed, owed>>
    BY <1>4
  <2>2. /\ ch' \in Seq(1 .. sent') /\ Len(ch') = Len(ch) + 1
        /\ accepted' \in Seq(1 .. sent') /\ Len(accepted') = Len(accepted) + 1
    BY <1>1, <1>2, <2>1, AppendProperties
  <2>3. TypeOK'
    BY <1>1, <1>2, <1>4, <2>1, <2>2, LenProperties, BufferAssumption DEF TypeOK, Full
  <2>4. Conservation'
    <3> DEFINE S == 1 .. sent'
    <3>1. handed \in Seq(S) /\ batch \in Seq(S) /\ ch \in Seq(S) /\ sent' \in S
      BY <1>1, <1>2
    <3> HIDE DEF S, IInv, Send
    <3>2. handed \o batch \o Append(ch, sent') = Append(handed \o batch \o ch, sent')
      BY <3>1, AppendLast, SMTT(30)
    <3>3. QED
      BY <2>1, <3>2 DEF IInv, Conservation
  <2>5. BatchBounded' /\ Counters' /\ Shutdown'
    BY <1>1, <1>2, <2>1, <2>2, LenProperties
    DEF TypeOK, BatchBounded, Counters, Shutdown, StopFlushesAccepted
  <2>6. QED
    BY <2>3, <2>4, <2>5
<1>5. QED
  BY <1>3, <1>4

LEMMA NextInv == IInv /\ [Next]_vars => IInv'
<1> SUFFICES ASSUME IInv, [Next]_vars PROVE IInv'
  OBVIOUS
<1> USE DEF IInv, history
<1>1. CASE Send
  BY <1>1, SendInv
<1>2. CASE Stop
  BY <1>2, LenProperties
  DEF Stop, TypeOK, Conservation, BatchBounded, Counters, Shutdown, StopFlushesAccepted
<1>3. CASE Receive
  BY <1>3, TakeInv DEF Receive
<1>4. CASE Tick
  BY <1>4, BufferAssumption, LenProperties
  DEF Tick, TypeOK, Conservation, BatchBounded, Counters, Shutdown, StopFlushesAccepted
<1>5. CASE Flush
  BY <1>5, HandOverInv DEF Flush
<1>6. CASE Quit
  BY <1>6
  DEF Quit, TypeOK, Conservation, BatchBounded, Counters, Shutdown, StopFlushesAccepted
<1>7. CASE Drain
  BY <1>7, TakeInv DEF Drain
<1>8. CASE Drained
  <2>1. Len(accepted) = Len(handed) + Len(batch)
    <3>1. /\ handed \in Seq(1 .. sent) /\ batch \in Seq(1 .. sent)
          /\ handed \o batch \in Seq(1 .. sent) /\ ch = <<>>
      BY <1>8, ConcatProperties DEF Drained, TypeOK
    <3>2. accepted = handed \o batch
      BY <3>1, ConcatEmptySeq DEF Conservation
    <3>3. QED
      BY <3>1, <3>2, ConcatProperties
  <2>2. QED
    BY <1>8, <2>1
    DEF Drained, TypeOK, Conservation, BatchBounded, Counters, Shutdown, StopFlushesAccepted
<1>9. CASE LastFlush
  BY <1>9, HandOverInv DEF LastFlush
<1>10. CASE UNCHANGED vars
  BY <1>10
  DEF vars, TypeOK, Conservation, BatchBounded, Counters, Shutdown, StopFlushesAccepted
<1>11. QED
  BY <1>1, <1>2, <1>3, <1>4, <1>5, <1>6, <1>7, <1>8, <1>9, <1>10 DEF Next, Flusher

LEMMA Invariance == Spec => []IInv
BY InitInv, NextInv, PTL DEF Spec

\* The values of the buffer's variables, and the channel's capacity (New, Send, run).
THEOREM TypeCorrect == Spec => []TypeOK
<1>1. IInv => TypeOK
  BY DEF IInv
<1>2. QED
  BY <1>1, Invariance, PTL

\* No accepted event is lost, repeated or reordered between Send and Sink.Flush.
THEOREM ConservationHolds == Spec => []Conservation
<1>1. IInv => Conservation
  BY DEF IInv
<1>2. QED
  BY <1>1, Invariance, PTL

\* Stats() accounts for every Send call.
THEOREM CountersCorrect == Spec => []CountersAddUp
<1>1. IInv => CountersAddUp
  <2> SUFFICES ASSUME IInv PROVE CountersAddUp
    OBVIOUS
  <2>1. /\ handed \in Seq(1 .. sent) /\ batch \in Seq(1 .. sent) /\ ch \in Seq(1 .. sent)
        /\ handed \o batch \in Seq(1 .. sent)
    BY ConcatProperties DEF IInv, TypeOK
  <2>2. Len(accepted) = Len(handed) + Len(batch) + Len(ch)
    BY <2>1, ConcatProperties DEF IInv, Conservation
  <2>3. QED
    BY <2>1, <2>2, LenProperties DEF IInv, Counters, CountersAddUp, TypeOK
<1>2. QED
  BY <1>1, Invariance, PTL

\* When Stop returns, what was accepted before it was called has reached the sink.
THEOREM StopCorrect == Spec => []StopFlushesAccepted
<1>1. IInv => StopFlushesAccepted
  BY DEF IInv, Shutdown
<1>2. QED
  BY <1>1, Invariance, PTL
-----------------------------------------------------------------------------
(* The refinement of LossyQueue *)

LEMMA ElemsAppend ==
  ASSUME NEW S, NEW s \in Seq(S), NEW e \in S
  PROVE  Elems(Append(s, e)) = Elems(s) \cup {e}
<1>1. /\ DOMAIN s = 1 .. Len(s) /\ Len(s) \in Nat
      /\ DOMAIN Append(s, e) = 1 .. Len(s) + 1
      /\ \A i \in 1 .. Len(s) : Append(s, e)[i] = s[i]
      /\ Append(s, e)[Len(s) + 1] = e
  BY AppendProperties, LenProperties
<1>2. QED
  BY <1>1 DEF Elems

LEMMA ElemsConcat ==
  ASSUME NEW S, NEW s \in Seq(S), NEW t \in Seq(S)
  PROVE  Elems(s \o t) = Elems(s) \cup Elems(t)
<1>1. /\ DOMAIN s = 1 .. Len(s) /\ Len(s) \in Nat
      /\ DOMAIN t = 1 .. Len(t) /\ Len(t) \in Nat
      /\ DOMAIN (s \o t) = 1 .. Len(s) + Len(t)
      /\ \A i \in 1 .. Len(s) : (s \o t)[i] = s[i]
      /\ \A i \in 1 .. Len(t) : (s \o t)[Len(s) + i] = t[i]
  BY ConcatProperties, LenProperties
<1>2. Elems(s \o t) \subseteq Elems(s) \cup Elems(t)
  <2> SUFFICES ASSUME NEW i \in 1 .. Len(s) + Len(t)
               PROVE  (s \o t)[i] \in Elems(s) \cup Elems(t)
    BY <1>1 DEF Elems
  <2>1. CASE i <= Len(s)
    BY <1>1, <2>1 DEF Elems
  <2>2. CASE i > Len(s)
    <3>1. i - Len(s) \in 1 .. Len(t) /\ Len(s) + (i - Len(s)) = i
      BY <1>1, <2>2
    <3>2. (s \o t)[i] = t[i - Len(s)]
      BY <1>1, <3>1
    <3>3. QED
      BY <1>1, <3>1, <3>2 DEF Elems
  <2>3. QED
    BY <1>1, <2>1, <2>2
<1>3. Elems(s) \subseteq Elems(s \o t)
  BY <1>1 DEF Elems
<1>4. Elems(t) \subseteq Elems(s \o t)
  <2> SUFFICES ASSUME NEW i \in 1 .. Len(t) PROVE t[i] \in Elems(s \o t)
    BY <1>1 DEF Elems
  <2>1. Len(s) + i \in 1 .. Len(s) + Len(t) /\ (s \o t)[Len(s) + i] = t[i]
    BY <1>1
  <2>2. QED
    BY <1>1, <2>1 DEF Elems
<1>5. QED
  BY <1>2, <1>3, <1>4

\* The events a prefix of the accepted ones consists of: what Stop owes.
Owed == {accepted[i] : i \in 1 .. owed}
Phase == IF pc = "done" THEN "closed" ELSE IF quit THEN "closing" ELSE "open"

LEMMA AbstractInit == Init => Abstract!Init
<1> SUFFICES ASSUME Init PROVE Abstract!Init
  OBVIOUS
<1>1. Elems(accepted) = {} /\ Elems(handed) = {} /\ Owed = {} /\ 1 .. sent = {}
  BY DEF Init, Elems, Owed
<1>2. Phase = "open"
  BY DEF Init, Phase
<1>3. QED
  BY <1>1, <1>2 DEF Abstract!Init, Owed, Phase

\* An event is accepted or refused under its own number.
LEMMA AbstractSend == IInv /\ Send => Abstract!Next
<1> SUFFICES ASSUME IInv, Send PROVE Abstract!Next
  OBVIOUS
<1>1. /\ sent \in Nat /\ sent' = sent + 1 /\ sent' \in 1 .. MaxEvents
      /\ 1 .. sent' = (1 .. sent) \cup {sent'} /\ sent' \notin 1 .. sent
  BY BufferAssumption DEF IInv, TypeOK, Send
<1>2. accepted \in Seq(1 .. sent) /\ accepted \in Seq(1 .. sent')
  BY <1>1, SeqMonotonic DEF IInv, TypeOK
<1>3. Elems(accepted) \subseteq 1 .. sent
  <2> SUFFICES ASSUME NEW i \in DOMAIN accepted PROVE accepted[i] \in 1 .. sent
    BY DEF Elems
  <2>1. i \in 1 .. Len(accepted)
    BY <1>2, LenProperties
  <2>2. QED
    BY <1>2, <2>1, ElementOfSeq
<1>4. sent' \notin Elems(accepted) \cup ((1 .. sent) \ Elems(accepted))
  BY <1>1, <1>3
<1>5. UNCHANGED <<handed, owed, pc, quit>>
  BY DEF Send
<1>6. CASE Full
  <2>1. accepted' = accepted
    BY <1>6 DEF Send
  <2>2. (1 .. sent') \ Elems(accepted') = ((1 .. sent) \ Elems(accepted)) \cup {sent'}
    BY <1>1, <1>4, <2>1
  <2>3. Abstract!Drop(sent')
    BY <1>4, <1>5, <2>1, <2>2 DEF Abstract!Drop, Elems
  <2>4. QED
    BY <1>1, <2>3 DEF Abstract!Next
<1>7. CASE ~Full
  <2>1. accepted' = Append(accepted, sent')
    BY <1>7 DEF Send
  <2>2. Elems(accepted') = Elems(accepted) \cup {sent'}
    BY <1>1, <1>2, <2>1, ElemsAppend
  <2>3. (1 .. sent') \ Elems(accepted') = (1 .. sent) \ Elems(accepted)
    BY <1>1, <1>3, <2>2
  <2>4. \A i \in 1 .. owed : accepted'[i] = accepted[i]
    BY <1>1, <1>2, <2>1, AppendProperties, LenProperties DEF IInv, TypeOK, Shutdown
  <2>5. Abstract!Accept(sent')
    BY <1>4, <1>5, <2>2, <2>3, <2>4 DEF Abstract!Accept, Elems
  <2>6. QED
    BY <1>1, <2>5 DEF Abstract!Next
<1>8. QED
  BY <1>6, <1>7

\* Stop fixes what is owed: all that was accepted so far.
LEMMA AbstractStop == IInv /\ Stop => Abstract!Next
<1> SUFFICES ASSUME IInv, Stop PROVE Abstract!Next
  OBVIOUS
<1>1. /\ owed' = Len(accepted) /\ ~quit /\ quit' = TRUE
      /\ UNCHANGED <<accepted, handed, sent, pc>>
  BY DEF Stop
<1>2. pc # "done"
  BY <1>1 DEF IInv, Shutdown
<1>3. DOMAIN accepted = 1 .. Len(accepted)
  BY LenProperties DEF IInv, TypeOK
<1>4. Elems(accepted) = {accepted'[i] : i \in 1 .. owed'}
  BY <1>1, <1>3 DEF Elems
<1>5. Abstract!Close
  BY <1>1, <1>2, <1>4 DEF Abstract!Close
<1>6. QED
  BY <1>5 DEF Abstract!Next

\* A flush delivers the batch; the last one completes the shutdown.
LEMMA AbstractHandOver ==
  ASSUME IInv, HandOver,
         \/ pc = "flush" /\ pc' = "select"
         \/ pc = "last" /\ pc' = "done"
  PROVE  Abstract!Next
<1> DEFINE S == 1 .. sent
<1>1. /\ handed \in Seq(S) /\ batch \in Seq(S) /\ ch \in Seq(S) /\ accepted \in Seq(S)
      /\ handed \o batch \in Seq(S)
  BY ConcatProperties DEF IInv, TypeOK
<1>2. handed' = handed \o batch /\ UNCHANGED <<accepted, owed, sent, quit>>
  BY DEF HandOver
<1> HIDE DEF S
<1>3. Elems(handed') = Elems(handed) \cup Elems(batch)
  BY <1>1, <1>2, ElemsConcat
<1>4. Elems(accepted) = Elems(handed) \cup Elems(batch) \cup Elems(ch)
  <2>1. accepted = handed' \o ch /\ handed' \in Seq(S)
    BY <1>1, <1>2, Zenon DEF IInv, Conservation
  <2>2. Elems(handed' \o ch) = Elems(handed') \cup Elems(ch)
    BY <1>1, <2>1, ElemsConcat
  <2>3. QED
    BY <1>3, <2>1, <2>2, Zenon
<1> DEFINE B == Elems(batch) \ Elems(handed)
<1>5. B \in SUBSET (Elems(accepted) \ Elems(handed)) /\ Elems(handed') = Elems(handed) \cup B
  BY <1>3, <1>4
<1>6. CASE pc = "flush" /\ pc' = "select"
  <2>1. Phase' = Phase
    BY <1>2, <1>6 DEF Phase
  <2>2. Abstract!Deliver
    BY <1>2, <1>5, <2>1 DEF Abstract!Deliver, Phase
  <2>3. QED
    BY <2>2 DEF Abstract!Next
<1>7. CASE pc = "last" /\ pc' = "done"
  <2>1. Phase = "closing" /\ Phase' = "closed"
    BY <1>2, <1>7 DEF Phase, IInv, Shutdown
  <2>2. Owed \subseteq Elems(handed')
    <3>1. owed \in Nat /\ owed <= Len(handed')
      BY <1>1, <1>2, <1>7, ConcatProperties DEF IInv, TypeOK, Shutdown
    <3>2. /\ Len(handed') \in Nat /\ DOMAIN handed' = 1 .. Len(handed')
          /\ \A i \in 1 .. Len(handed') : accepted[i] = handed'[i]
      BY <1>1, <1>2, ConcatProperties, LenProperties DEF IInv, Conservation
    <3>3. QED
      BY <3>1, <3>2 DEF Owed, Elems
  <2>3. Abstract!Deliver
    BY <1>2, <1>5, <2>1, <2>2 DEF Abstract!Deliver, Phase, Owed
  <2>4. QED
    BY <2>3 DEF Abstract!Next
<1>8. QED
  BY <1>6, <1>7

\* Everything else is invisible to the pipeline.
LEMMA AbstractStep == IInv /\ [Next]_vars => [Abstract!Next]_(Abstract!vars)
<1> SUFFICES ASSUME IInv, [Next]_vars PROVE [Abstract!Next]_(Abstract!vars)
  OBVIOUS
<1>1. CASE Send
  BY <1>1, AbstractSend
<1>2. CASE Stop
  BY <1>2, AbstractStop
<1>3. CASE Flush
  BY <1>3, AbstractHandOver DEF Flush
<1>4. CASE LastFlush
  BY <1>4, AbstractHandOver DEF LastFlush
<1>5. CASE Receive \/ Tick \/ Quit \/ Drain \/ Drained \/ UNCHANGED vars
  <2>1. UNCHANGED <<sent, quit, accepted, handed, owed>>
    BY <1>5 DEF Receive, Tick, Quit, Drain, Drained, Take, history, vars
  <2>2. pc = "done" <=> pc' = "done"
    BY <1>5 DEF Receive, Tick, Quit, Drain, Drained, vars
  <2>3. Phase' = Phase
    BY <2>1, <2>2 DEF Phase
  <2>4. QED
    BY <2>1, <2>3 DEF Abstract!vars, Phase, Elems
<1>6. QED
  BY <1>1, <1>2, <1>3, <1>4, <1>5 DEF Next, Flusher

\* Whatever the interleaving of request goroutines, flusher and Stop, the buffer keeps the
\* promise LossyQueue states: accepted or dropped at once, and closed only when all that was
\* owed at Stop is with the sink.
THEOREM RefinesLossyQueue == Spec => ImplementsLossyQueue
BY AbstractInit, AbstractStep, Invariance, PTL DEF Spec, Abstract!Spec, ImplementsLossyQueue
=============================================================================
