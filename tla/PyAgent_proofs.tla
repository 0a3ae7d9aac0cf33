-------------------------- MODULE PyAgent_proofs ----------------------------
(***************************************************************************)
(* Theorems about the Python agent, for any values of the constants: its   *)
(* telemetry buffer and database (PyTelemetry), its pipeline (PyPipeline)  *)
(* and its socket server (PySocketServer), in this order.                  *)
(*                                                                         *)
(* PyTelemetry: the types, what becomes of every event with two threads    *)
(* draining the queue, what stop flushes, and the order in which writes to *)
(* a row take effect. An event is its number, so the queue is increasing,  *)
(* and whatever a thread has taken is older than all that is still queued. *)
(* That keeps the places of the events apart, and makes what stop takes a  *)
(* part of what it owes as long as any of it is queued. The statements     *)
(* queued for the store are those of other tables, in the order of their   *)
(* numbers, and those of taken events, which are the same whenever they    *)
(* are executed.                                                           *)
(***************************************************************************)
EXTENDS PyTelemetry, PyPipeline, PySocketServer, FiniteSetTheorems, SequenceTheorems, TLAPS

\* No element twice, and each greater than the one before it.
Inj(s) == \A i, j \in 1 .. Len(s) : s[i] = s[j] => i = j
Increasing(s) == \A i, j \in 1 .. Len(s) : i < j => s[i] < s[j]

BufferTypes ==
  /\ queue \in Seq(1 .. sent) /\ Len(queue) <= Capacity
  /\ batch \in [Threads -> Seq(1 .. sent)]
  /\ \A t \in Threads : Len(batch[t]) <= BatchSize
  /\ offered \in Seq(1 .. sent) /\ owed \in Seq(1 .. sent)

Places == {"idle", "drain", "store", "count", "sleep", "done", "join", "returned"}

ThreadTypes ==
  /\ pc \in [Threads -> Places]
  /\ pc["flusher"] \in {"drain", "store", "count", "sleep", "done"}
  /\ pc["stop"] \in {"idle", "drain", "store", "count", "join", "returned"}
  /\ next \in [Threads -> Nat] /\ seen \in [Threads -> Nat]
  /\ shutdown \in BOOLEAN /\ hurried \in BOOLEAN

CountTypes == /\ flushed \in Nat /\ dropped \in Nat /\ delivered \in Nat
              /\ sent \in Nat /\ others \in 0 .. MaxOther /\ sent + others <= MaxEvents

\* Outside _drain_batch and _flush a thread carries nothing.
Carries == \A t \in Threads :
  /\ next[t] <= Len(batch[t])
  /\ pc[t] \notin {"drain", "store", "count"} => batch[t] = <<>>
  /\ pc[t] = "drain" => next[t] = 0

\* Whatever was taken is older than all that is queued.
Ordered == /\ Increasing(queue) /\ Inj(offered) /\ Inj(owed)
           /\ \A t \in Threads :
                /\ Inj(batch[t])
                /\ \A e \in Elems(batch[t]), q \in Elems(queue) : e < q

Apart == /\ Elems(Pending("flusher")) \cap Elems(Pending("stop")) = {}
         /\ Elems(offered) \cap Elems(queue) = {}
         /\ \A t \in Threads : Elems(offered) \cap Elems(Pending(t)) = {}

Adds == Len(offered) + Len(Pending("flusher")) + Len(Pending("stop")) + Len(queue)
          + dropped = sent

\* The two read-modify-writes of _flushed may lose a batch, never count one twice.
Counting ==
  /\ flushed <= delivered
  /\ \A t \in Threads : pc[t] = "count" => seen[t] + Len(batch[t]) <= delivered
  /\ pc["stop"] = "idle" =>
       /\ pc["flusher"] = "count" =>
            seen["flusher"] = flushed /\ flushed + Len(batch["flusher"]) = delivered
       /\ pc["flusher"] # "count" => flushed = delivered

\* What stop owes is nowhere but in these places, and newer events come after it.
Owes ==
  /\ pc["stop"] = "drain" =>
       \A e \in Elems(batch["stop"]) \cup Elems(queue), o \in Elems(owed) :
          e \in Elems(owed) \/ o < e
  /\ pc["stop"] # "idle" /\ ~hurried /\ Len(owed) <= BatchSize =>
       Elems(owed) \subseteq Elems(offered) \cup Elems(Pending("flusher"))
                               \cup Elems(Pending("stop"))
                               \cup (IF pc["stop"] = "drain" THEN Elems(queue) ELSE {})
  /\ pc["stop"] = "returned" /\ ~hurried => pc["flusher"] = "done"

BufferInv == /\ BufferTypes /\ ThreadTypes /\ CountTypes
             /\ Carries /\ Ordered /\ Apart /\ Adds /\ Counting /\ Owes

\* What a statement can be: one of a taken event, or one of another write.
FitsIn(s, n, m, q) ==
  \/ s.op = "cleanup"
  \/ /\ s.key \in Events /\ s = [op |-> "replace", key |-> s.key, value |-> s.key]
     /\ s.key \in 1 .. n /\ s.key \notin q
  \/ s.key \notin Events /\ s.op \in {"replace", "update"} /\ s.value \in 1 .. m
Fits(s) == FitsIn(s, sent, others, Elems(queue))
FitsNext(s) == FitsIn(s, sent', others', Elems(queue'))

\* s is from a write to another table.
Numbered(s) == s.op # "cleanup" /\ s.key \notin Events

StatementsFit ==
  /\ \A i \in 1 .. Len(wbatch) : Fits(wbatch[i])
  /\ \A i \in 1 .. Len(wq) : Fits(wq[i])
  /\ \A k \in Keys : Found(k) => row[k].key = k /\ row[k].op # "cleanup" /\ Fits(row[k])

\* Later writes have greater numbers.
InTurn ==
  /\ \A i, j \in 1 .. Len(wbatch) :
       i < j /\ Numbered(wbatch[i]) /\ Numbered(wbatch[j]) => wbatch[i].value < wbatch[j].value
  /\ \A i, j \in 1 .. Len(wq) :
       i < j /\ Numbered(wq[i]) /\ Numbered(wq[j]) => wq[i].value < wq[j].value
  /\ \A i \in 1 .. Len(wbatch), j \in 1 .. Len(wq) :
       Numbered(wbatch[i]) /\ Numbered(wq[j]) => wbatch[i].value < wq[j].value
  /\ \A k \in Keys : Found(k) /\ Numbered(row[k]) =>
       /\ \A i \in 1 .. Len(wbatch) : Numbered(wbatch[i]) => row[k].value < wbatch[i].value
       /\ \A i \in 1 .. Len(wq) : Numbered(wq[i]) => row[k].value < wq[i].value

StoreInv == /\ StoreTypeOK /\ StatementsFit /\ InTurn
            /\ wpc # "execute" => wbatch = <<>>

IInv == BufferInv /\ StoreInv
-----------------------------------------------------------------------------
(* Sequences and their elements *)

LEMMA ElemsIn ==
  ASSUME NEW S, NEW s \in Seq(S)
  PROVE  /\ Len(s) \in Nat /\ Elems(s) \subseteq S
         /\ \A i \in 1 .. Len(s) : s[i] \in Elems(s) /\ s[i] \in S
         /\ \A e \in Elems(s) : \E i \in 1 .. Len(s) : s[i] = e
         /\ s = <<>> <=> Elems(s) = {}
<1>1. Len(s) \in Nat /\ s \in [1 .. Len(s) -> S] /\ DOMAIN s = 1 .. Len(s)
  BY LenProperties
<1>2. /\ \A i \in 1 .. Len(s) : s[i] \in Elems(s) /\ s[i] \in S
      /\ \A e \in Elems(s) : \E i \in 1 .. Len(s) : s[i] = e
      /\ Elems(s) \subseteq S
  BY <1>1 DEF Elems
<1>3. s = <<>> => Elems(s) = {}
  BY <1>2, EmptySeq
<1>4. s # <<>> => 1 \in 1 .. Len(s)
  BY EmptySeq
<1>5. QED
  BY <1>1, <1>2, <1>3, <1>4

LEMMA AppendIs ==
  ASSUME NEW S, NEW s \in Seq(S), NEW e \in S
  PROVE  /\ Append(s, e) \in Seq(S) /\ Len(Append(s, e)) = Len(s) + 1
         /\ \A i \in 1 .. Len(s) : Append(s, e)[i] = s[i]
         /\ Append(s, e)[Len(s) + 1] = e
         /\ Elems(Append(s, e)) = Elems(s) \cup {e}
<1> DEFINE a == Append(s, e)
<1>1. /\ a \in Seq(S) /\ Len(a) = Len(s) + 1 /\ a[Len(s) + 1] = e
      /\ \A i \in 1 .. Len(s) : a[i] = s[i]
  BY AppendProperties
<1>2. Len(s) \in Nat
  BY ElemsIn
<1> HIDE DEF a
<1>3. Elems(a) \subseteq Elems(s) \cup {e}
  <2> SUFFICES ASSUME NEW x \in Elems(a) PROVE x \in Elems(s) \cup {e}
    OBVIOUS
  <2>1. PICK i \in 1 .. Len(a) : a[i] = x
    BY <1>1, ElemsIn
  <2>2. CASE i = Len(s) + 1
    BY <1>1, <2>1, <2>2
  <2>3. CASE i # Len(s) + 1
    <3>1. i \in 1 .. Len(s)
      BY <1>1, <1>2, <2>3
    <3>2. QED
      BY <1>1, <2>1, <3>1, ElemsIn
  <2>4. QED
    BY <2>2, <2>3
<1>4. Elems(s) \cup {e} \subseteq Elems(a)
  <2>1. e \in Elems(a)
    <3>1. Len(s) + 1 \in 1 .. Len(a)
      BY <1>1, <1>2
    <3>2. QED
      BY <1>1, <3>1, ElemsIn
  <2>2. ASSUME NEW x \in Elems(s) PROVE x \in Elems(a)
    <3>1. PICK i \in 1 .. Len(s) : s[i] = x
      BY ElemsIn
    <3>2. i \in 1 .. Len(a) /\ a[i] = x
      BY <1>1, <1>2, <3>1
    <3>3. QED
      BY <1>1, <3>2, ElemsIn
  <2>3. QED
    BY <2>1, <2>2
<1>5. QED
  BY <1>1, <1>3, <1>4 DEF a

LEMMA ConcatIs ==
  ASSUME NEW S, NEW s \in Seq(S), NEW t \in Seq(S)
  PROVE  /\ s \o t \in Seq(S) /\ Len(s \o t) = Len(s) + Len(t)
         /\ Elems(s \o t) = Elems(s) \cup Elems(t)
         /\ Inj(s) /\ Inj(t) /\ Elems(s) \cap Elems(t) = {} => Inj(s \o t)
<1> DEFINE c == s \o t
<1>1. /\ c \in Seq(S) /\ Len(c) = Len(s) + Len(t)
      /\ \A i \in 1 .. Len(s) + Len(t) : c[i] = IF i <= Len(s) THEN s[i] ELSE t[i - Len(s)]
  BY ConcatProperties
<1> HIDE DEF c
<1>2. Len(s) \in Nat /\ Len(t) \in Nat
  BY ElemsIn
<1>3. \A i \in 1 .. Len(c) : \/ i \in 1 .. Len(s) /\ c[i] = s[i] /\ c[i] \in Elems(s)
                             \/ /\ i - Len(s) \in 1 .. Len(t) /\ c[i] = t[i - Len(s)]
                                /\ c[i] \in Elems(t)
  <2> SUFFICES ASSUME NEW i \in 1 .. Len(c)
               PROVE  \/ i \in 1 .. Len(s) /\ c[i] = s[i] /\ c[i] \in Elems(s)
                      \/ /\ i - Len(s) \in 1 .. Len(t) /\ c[i] = t[i - Len(s)]
                         /\ c[i] \in Elems(t)
    OBVIOUS
  <2>1. CASE i <= Len(s)
    <3>1. i \in 1 .. Len(s) /\ c[i] = s[i]
      BY <1>1, <1>2, <2>1
    <3>2. QED
      BY <3>1, ElemsIn
  <2>2. CASE ~(i <= Len(s))
    <3>1. i - Len(s) \in 1 .. Len(t) /\ c[i] = t[i - Len(s)]
      BY <1>1, <1>2, <2>2
    <3>2. QED
      BY <3>1, ElemsIn
  <2>3. QED
    BY <2>1, <2>2
<1>4. Elems(c) \subseteq Elems(s) \cup Elems(t)
  <2> SUFFICES ASSUME NEW x \in Elems(c) PROVE x \in Elems(s) \cup Elems(t)
    OBVIOUS
  <2>1. PICK i \in 1 .. Len(c) : c[i] = x
    BY <1>1, ElemsIn
  <2>2. QED
    BY <1>3, <2>1
<1>5. Elems(s) \subseteq Elems(c)
  <2> SUFFICES ASSUME NEW x \in Elems(s) PROVE x \in Elems(c)
    OBVIOUS
  <2>1. PICK i \in 1 .. Len(s) : s[i] = x
    BY ElemsIn
  <2>2. i \in 1 .. Len(c) /\ c[i] = x
    BY <1>1, <1>2, <2>1
  <2>3. QED
    BY <1>1, <2>2, ElemsIn
<1>6. Elems(t) \subseteq Elems(c)
  <2> SUFFICES ASSUME NEW x \in Elems(t) PROVE x \in Elems(c)
    OBVIOUS
  <2>1. PICK i \in 1 .. Len(t) : t[i] = x
    BY ElemsIn
  <2>2. i + Len(s) \in 1 .. Len(c) /\ ~(i + Len(s) <= Len(s)) /\ (i + Len(s)) - Len(s) = i
    BY <1>1, <1>2
  <2>3. c[i + Len(s)] = x
    BY <1>1, <2>1, <2>2
  <2>4. QED
    BY <1>1, <2>2, <2>3, ElemsIn
<1>7. ASSUME Inj(s), Inj(t), Elems(s) \cap Elems(t) = {} PROVE Inj(c)
  <2> SUFFICES ASSUME NEW i \in 1 .. Len(c), NEW j \in 1 .. Len(c), c[i] = c[j] PROVE i = j
    BY DEF Inj
  <2>1. CASE i \in 1 .. Len(s) /\ j \in 1 .. Len(s) /\ c[i] = s[i] /\ c[j] = s[j]
    BY <1>7, <2>1 DEF Inj
  <2>2. CASE /\ i - Len(s) \in 1 .. Len(t) /\ j - Len(s) \in 1 .. Len(t)
             /\ c[i] = t[i - Len(s)] /\ c[j] = t[j - Len(s)]
    <3>1. i - Len(s) = j - Len(s)
      BY <1>7, <2>2 DEF Inj
    <3>2. QED
      BY <1>1, <1>2, <3>1
  <2>3. QED
    BY <1>3, <1>7, <2>1, <2>2
<1>8. QED
  BY <1>1, <1>4, <1>5, <1>6, <1>7 DEF c

LEMMA TailIs ==
  ASSUME NEW S, NEW s \in Seq(S), s # <<>>
  PROVE  /\ Head(s) = s[1] /\ Head(s) \in S /\ Tail(s) \in Seq(S)
         /\ Len(s) \in Nat /\ Len(s) >= 1 /\ Len(Tail(s)) = Len(s) - 1
         /\ \A i \in 1 .. Len(s) - 1 : Tail(s)[i] = s[i + 1]
         /\ Elems(s) = {Head(s)} \cup Elems(Tail(s))
<1> DEFINE u == Tail(s)
<1>1. /\ Head(s) = s[1] /\ Head(s) \in S /\ u \in Seq(S) /\ Len(s) \in Nat /\ Len(s) >= 1
      /\ Len(u) = Len(s) - 1 /\ \A i \in 1 .. Len(u) : u[i] = s[i + 1]
  <2>1. Head(s) \in S /\ u \in Seq(S) /\ Len(u) = Len(s) - 1
        /\ \A i \in 1 .. Len(u) : u[i] = s[i + 1]
    BY HeadTailProperties
  <2>2. Len(s) \in Nat /\ Len(s) >= 1
    BY EmptySeq
  <2>3. Head(s) = s[1]
    OBVIOUS
  <2>4. QED
    BY <2>1, <2>2, <2>3
<1> HIDE DEF u
<1>2. Elems(s) \subseteq {Head(s)} \cup Elems(u)
  <2> SUFFICES ASSUME NEW x \in Elems(s), x # Head(s) PROVE x \in Elems(u)
    OBVIOUS
  <2>1. PICK i \in 1 .. Len(s) : s[i] = x
    BY ElemsIn
  <2>2. i - 1 \in 1 .. Len(u) /\ (i - 1) + 1 = i
    BY <1>1, <2>1
  <2>3. u[i - 1] = x
    BY <1>1, <2>1, <2>2
  <2>4. QED
    BY <1>1, <2>2, <2>3, ElemsIn
<1>3. Head(s) \in Elems(s)
  BY <1>1, ElemsIn
<1>4. Elems(u) \subseteq Elems(s)
  <2> SUFFICES ASSUME NEW x \in Elems(u) PROVE x \in Elems(s)
    OBVIOUS
  <2>1. PICK i \in 1 .. Len(u) : u[i] = x
    BY <1>1, ElemsIn
  <2>2. i + 1 \in 1 .. Len(s) /\ s[i + 1] = x
    BY <1>1, <2>1
  <2>3. QED
    BY <2>2, ElemsIn
<1>5. QED
  BY <1>1, <1>2, <1>3, <1>4 DEF u

\* A sequence without duplicates has as many elements as it is long.
LEMMA InjCounts ==
  ASSUME NEW S, NEW s \in Seq(S), Inj(s)
  PROVE  IsFiniteSet(Elems(s)) /\ Cardinality(Elems(s)) = Len(s)
<1> DEFINE n == Len(s)
<1>1. n \in Nat /\ s \in [1 .. n -> S]
  BY LenProperties
<1>2. s \in [1 .. n -> Elems(s)] /\ \A e \in Elems(s) : \E i \in 1 .. n : s[i] = e
  BY <1>1, ElemsIn
<1>3. \A i, j \in 1 .. n : s[i] = s[j] => i = j
  BY DEF Inj
<1> HIDE DEF n
<1>4. s \in Bijection(1 .. n, Elems(s))
  <2>1. s \in Injection(1 .. n, Elems(s))
    BY <1>2, <1>3 DEF Injection, IsInjective
  <2>2. s \in Surjection(1 .. n, Elems(s))
    BY <1>2 DEF Surjection
  <2>3. QED
    BY <2>1, <2>2 DEF Bijection
<1>5. IsFiniteSet(1 .. n) /\ Cardinality(1 .. n) = n
  BY <1>1, FS_Interval
<1>6. ExistsBijection(1 .. n, Elems(s))
  BY <1>4 DEF ExistsBijection
<1>7. QED
  BY <1>5, <1>6, FS_Bijection DEF n

LEMMA IncreasingIsInj ==
  ASSUME NEW n \in Nat, NEW s \in Seq(1 .. n), Increasing(s)
  PROVE  Inj(s)
<1> SUFFICES ASSUME NEW i \in 1 .. Len(s), NEW j \in 1 .. Len(s), s[i] = s[j] PROVE i = j
  BY DEF Inj
<1>1. s[i] \in 1 .. n /\ s[j] \in 1 .. n /\ Len(s) \in Nat
  BY ElemsIn
<1>2. ~(i < j) /\ ~(j < i)
  BY <1>1 DEF Increasing
<1>3. QED
  BY <1>1, <1>2

LEMMA TailIncreases ==
  ASSUME NEW n \in Nat, NEW s \in Seq(1 .. n), s # <<>>, Increasing(s)
  PROVE  Increasing(Tail(s)) /\ \A e \in Elems(Tail(s)) : Head(s) < e
<1> DEFINE u == Tail(s)
<1>1. /\ Head(s) = s[1] /\ u \in Seq(1 .. n) /\ Len(s) \in Nat /\ Len(s) >= 1
      /\ Len(u) = Len(s) - 1 /\ \A i \in 1 .. Len(s) - 1 : u[i] = s[i + 1]
  BY TailIs
<1> HIDE DEF u
<1>2. Increasing(u)
  <2> SUFFICES ASSUME NEW i \in 1 .. Len(u), NEW j \in 1 .. Len(u), i < j PROVE u[i] < u[j]
    BY DEF Increasing
  <2>1. i + 1 \in 1 .. Len(s) /\ j + 1 \in 1 .. Len(s) /\ i + 1 < j + 1
    BY <1>1
  <2>2. s[i + 1] < s[j + 1]
    BY <2>1 DEF Increasing
  <2>3. QED
    BY <1>1, <2>2
<1>3. ASSUME NEW e \in Elems(u) PROVE Head(s) < e
  <2>1. PICK i \in 1 .. Len(u) : u[i] = e
    BY <1>1, ElemsIn
  <2>2. i + 1 \in 1 .. Len(s) /\ 1 \in 1 .. Len(s) /\ 1 < i + 1 /\ s[i + 1] = e
    BY <1>1, <2>1
  <2>3. QED
    BY <1>1, <2>2 DEF Increasing
<1>4. QED
  BY <1>2, <1>3 DEF u

LEMMA AppendKeeps ==
  ASSUME NEW n \in Nat, NEW s \in Seq(1 .. n), NEW e \in 1 .. n, \A x \in Elems(s) : x < e
  PROVE  /\ Inj(s) => Inj(Append(s, e))
         /\ Increasing(s) => Increasing(Append(s, e))
<1> DEFINE a == Append(s, e)
<1>1. /\ a \in Seq(1 .. n) /\ Len(a) = Len(s) + 1 /\ a[Len(s) + 1] = e
      /\ \A i \in 1 .. Len(s) : a[i] = s[i]
  BY AppendIs
<1> HIDE DEF a
<1>2. Len(s) \in Nat /\ \A i \in 1 .. Len(s) : s[i] \in 1 .. n /\ s[i] < e
  BY ElemsIn
<1>3. \A i \in 1 .. Len(a) : i = Len(s) + 1 \/ i \in 1 .. Len(s)
  BY <1>1, <1>2
<1>4. ASSUME Inj(s) PROVE Inj(a)
  <2> SUFFICES ASSUME NEW i \in 1 .. Len(a), NEW j \in 1 .. Len(a), a[i] = a[j] PROVE i = j
    BY DEF Inj
  <2>1. CASE i \in 1 .. Len(s) /\ j \in 1 .. Len(s)
    BY <1>1, <1>4, <2>1 DEF Inj
  <2>2. CASE i = Len(s) + 1 \/ j = Len(s) + 1
    BY <1>1, <1>2, <1>3, <2>2
  <2>3. QED
    BY <1>3, <2>1, <2>2
<1>5. ASSUME Increasing(s) PROVE Increasing(a)
  <2> SUFFICES ASSUME NEW i \in 1 .. Len(a), NEW j \in 1 .. Len(a), i < j PROVE a[i] < a[j]
    BY DEF Increasing
  <2>1. i \in 1 .. Len(s)
    BY <1>1, <1>2
  <2>2. CASE j \in 1 .. Len(s)
    BY <1>1, <1>5, <2>1, <2>2 DEF Increasing
  <2>3. CASE j = Len(s) + 1
    BY <1>1, <1>2, <2>1, <2>3
  <2>4. QED
    BY <1>3, <2>2, <2>3
<1>6. QED
  BY <1>4, <1>5 DEF a
-----------------------------------------------------------------------------
(* The steps of the buffer *)

LEMMA PendingIs ==
  ASSUME BufferTypes, NEW t \in Threads
  PROVE  /\ batch[t] \in Seq(1 .. sent) /\ Pending(t) \in Seq(1 .. sent)
         /\ Elems(Pending(t)) \subseteq Elems(batch[t])
         /\ Len(Pending(t)) \in Nat /\ Len(batch[t]) \in Nat
<1>1. batch[t] \in Seq(1 .. sent)
  BY DEF BufferTypes
<1>2. CASE pc[t] = "count"
  <2>1. Pending(t) = <<>>
    BY <1>2 DEF Pending
  <2>2. <<>> \in Seq(1 .. sent)
    BY EmptySeq
  <2>3. Elems(<<>>) = {}
    BY <2>2, ElemsIn
  <2>4. QED
    BY <1>1, <2>1, <2>2, <2>3, ElemsIn
<1>3. CASE pc[t] # "count"
  <2>1. Pending(t) = batch[t]
    BY <1>3 DEF Pending
  <2>2. QED
    BY <1>1, <2>1, ElemsIn
<1>4. QED
  BY <1>2, <1>3

\* Why the threads' events are apart from the queue's.
LEMMA TakenIsOlder ==
  ASSUME BufferTypes, Ordered, CountTypes, NEW t \in Threads
  PROVE  /\ Elems(batch[t]) \cap Elems(queue) = {}
         /\ Elems(queue) \subseteq 1 .. sent /\ Elems(batch[t]) \subseteq 1 .. sent
<1>1. Elems(queue) \subseteq 1 .. sent /\ Elems(batch[t]) \subseteq 1 .. sent
  BY PendingIs, ElemsIn DEF BufferTypes
<1>2. ASSUME NEW e \in Elems(batch[t]), e \in Elems(queue) PROVE FALSE
  <2>1. e < e /\ e \in 1 .. sent
    BY <1>1, <1>2 DEF Ordered
  <2>2. QED
    BY <2>1 DEF CountTypes
<1>3. QED
  BY <1>1, <1>2

LEMMA TakeStep ==
  ASSUME BufferInv, NEW t \in Threads, Take(t)
  PROVE  BufferInv'
<1> DEFINE h == Head(queue)
           b == batch[t]
<1>1. /\ pc[t] = "drain" /\ Len(b) < BatchSize /\ queue # <<>> /\ queue' = Tail(queue)
      /\ batch' = [batch EXCEPT ![t] = Append(b, h)]
      /\ pc' = pc /\ next' = next /\ seen' = seen /\ shutdown' = shutdown
      /\ flushed' = flushed /\ dropped' = dropped /\ sent' = sent /\ others' = others
      /\ offered' = offered /\ delivered' = delivered /\ owed' = owed /\ hurried' = hurried
  BY DEF Take, Remove
<1>2. /\ BufferTypes /\ ThreadTypes /\ CountTypes /\ Carries /\ Ordered /\ Apart /\ Adds
      /\ Counting /\ Owes
  BY DEF BufferInv
<1>3. queue \in Seq(1 .. sent) /\ b \in Seq(1 .. sent) /\ sent \in Nat
  BY <1>2 DEF BufferTypes, CountTypes
<1>4. /\ h \in 1 .. sent /\ Tail(queue) \in Seq(1 .. sent) /\ Len(queue) \in Nat
      /\ Len(Tail(queue)) = Len(queue) - 1 /\ Elems(queue) = {h} \cup Elems(Tail(queue))
      /\ Increasing(Tail(queue)) /\ \A e \in Elems(Tail(queue)) : h < e
  <2>1. Increasing(queue)
    BY <1>2 DEF Ordered
  <2>2. QED
    BY <1>1, <1>3, <2>1, TailIs, TailIncreases
<1>5. \A u \in Threads : \A x \in Elems(batch[u]) : x < h
  BY <1>2, <1>4 DEF Ordered
<1>6. \A u \in Threads : batch'[u] = IF u = t THEN Append(b, h) ELSE batch[u]
  BY <1>1, <1>2 DEF BufferTypes
<1>7. /\ Append(b, h) \in Seq(1 .. sent) /\ Len(b) \in Nat /\ Len(Append(b, h)) = Len(b) + 1
      /\ Elems(Append(b, h)) = Elems(b) \cup {h}
  BY <1>3, <1>4, AppendIs, ElemsIn
<1>8. Inj(Append(b, h))
  BY <1>2, <1>3, <1>4, <1>5, AppendKeeps DEF Ordered
<1> HIDE DEF h, b
<1>9. BufferTypes'
  <2>1. batch' \in [Threads -> Seq(1 .. sent)]
    BY <1>1, <1>2, <1>7 DEF BufferTypes
  <2>2. Len(queue') <= Capacity
    BY <1>1, <1>2, <1>4, PyTelemetryAssumption DEF BufferTypes
  <2>3. \A u \in Threads : Len(batch'[u]) <= BatchSize
    <3>1. Len(b) + 1 <= BatchSize
      BY <1>1, <1>7, PyTelemetryAssumption
    <3>2. QED
      BY <1>2, <1>6, <1>7, <3>1 DEF BufferTypes
  <2>4. QED
    BY <1>1, <1>2, <1>4, <2>1, <2>2, <2>3 DEF BufferTypes
<1>10. ThreadTypes' /\ CountTypes'
  BY <1>1, <1>2 DEF ThreadTypes, CountTypes
<1>11. Carries'
  <2>1. next[t] <= Len(b) /\ next[t] \in Nat
    BY <1>2 DEF Carries, ThreadTypes, b
  <2>2. next[t] <= Len(b) + 1
    BY <1>7, <2>1
  <2>3. QED
    BY <1>1, <1>2, <1>6, <1>7, <2>2 DEF Carries
<1>12. Ordered'
  <2>1. ASSUME NEW u \in Threads
        PROVE  /\ Inj(batch'[u])
               /\ \A e \in Elems(batch'[u]), q \in Elems(queue') : e < q
    <3>1. \A e \in Elems(batch[u]), q \in Elems(queue') : e < q
      BY <1>1, <1>2, <1>4 DEF Ordered
    <3>2. CASE u = t
      BY <1>1, <1>4, <1>6, <1>7, <1>8, <3>1, <3>2 DEF b
    <3>3. CASE u # t
      BY <1>2, <1>6, <3>1, <3>3 DEF Ordered
    <3>4. QED
      BY <3>2, <3>3
  <2>2. QED
    BY <1>1, <1>2, <1>4, <2>1 DEF Ordered
<1>13. \A u \in Threads : Pending(u)' = IF u = t THEN Append(b, h) ELSE Pending(u)
  BY <1>1, <1>6 DEF Pending
<1>14. Pending(t) = b
  BY <1>1 DEF Pending, b
<1>15. Apart'
  <2>1. \A u \in Threads : h \notin Elems(Pending(u))
    BY <1>2, <1>4, PendingIs, TakenIsOlder
  <2>2. h \notin Elems(offered)
    BY <1>2, <1>4 DEF Apart
  <2>3. \A u \in Threads : Elems(Pending(u)') = IF u = t THEN Elems(Pending(u)) \cup {h}
                                                       ELSE Elems(Pending(u))
    BY <1>7, <1>13, <1>14
  <2>4. Elems(queue') \subseteq Elems(queue)
    BY <1>1, <1>4
  <2>5. Elems(Pending("flusher")') \cap Elems(Pending("stop")') = {}
    BY <1>2, <2>1, <2>3 DEF Apart, Threads
  <2>6. \A u \in Threads : Elems(offered) \cap Elems(Pending(u)') = {}
    BY <1>2, <2>2, <2>3 DEF Apart
  <2>7. Elems(offered) \cap Elems(queue') = {}
    BY <1>2, <2>4 DEF Apart
  <2>8. QED
    BY <1>1, <2>5, <2>6, <2>7 DEF Apart
<1>16. Adds'
  <2>1. \A u \in Threads : Len(Pending(u)) \in Nat
    BY <1>2, PendingIs
  <2>2. Len(offered) \in Nat /\ dropped \in Nat
    BY <1>2, ElemsIn DEF BufferTypes, CountTypes
  <2>3. Len(Pending(t)') = Len(Pending(t)) + 1 /\ Len(queue') = Len(queue) - 1
    BY <1>1, <1>4, <1>7, <1>13, <1>14
  <2>4. Len(Pending("flusher")') + Len(Pending("stop")')
          = Len(Pending("flusher")) + Len(Pending("stop")) + 1
    BY <1>13, <2>1, <2>3 DEF Threads
  <2>5. Len(Pending("flusher")') \in Nat /\ Len(Pending("stop")') \in Nat
    BY <1>13, <2>1, <2>3 DEF Threads
  <2>6. Adds /\ Len(queue) \in Nat /\ Len(queue') = Len(queue) - 1
        /\ offered' = offered /\ dropped' = dropped /\ sent' = sent
    BY <1>1, <1>2, <1>4
  <2>7. QED
    BY <2>1, <2>2, <2>4, <2>5, <2>6 DEF Adds, Threads
<1>17. Counting'
  <2>1. \A u \in Threads : pc[u] = "count" => batch'[u] = batch[u]
    BY <1>1, <1>6
  <2>2. QED
    BY <1>1, <1>2, <2>1 DEF Counting, Threads
<1>18. Owes'
  <2>1. Elems(batch'["stop"]) \cup Elems(queue') \subseteq Elems(batch["stop"]) \cup Elems(queue)
    BY <1>1, <1>4, <1>6, <1>7 DEF b, Threads
  <2>2. pc["stop"] = "drain" =>
          \A e \in Elems(batch'["stop"]) \cup Elems(queue'), o \in Elems(owed) :
            e \in Elems(owed) \/ o < e
    BY <1>2, <2>1 DEF Owes
  <2>3. \A u \in Threads : Elems(Pending(u)') = IF u = t THEN Elems(Pending(u)) \cup {h}
                                                       ELSE Elems(Pending(u))
    BY <1>7, <1>13, <1>14
  <2>4. LET old == Elems(Pending("flusher")) \cup Elems(Pending("stop"))
            new == Elems(Pending("flusher")') \cup Elems(Pending("stop")')
        IN  new = old \cup {h}
    BY <2>3 DEF Threads
  <2>5. pc["stop"] # "idle" /\ ~hurried /\ Len(owed) <= BatchSize =>
          Elems(owed) \subseteq Elems(offered) \cup Elems(Pending("flusher")')
                                  \cup Elems(Pending("stop")')
                                  \cup (IF pc["stop"] = "drain" THEN Elems(queue') ELSE {})
    BY <1>1, <1>2, <1>4, <2>4 DEF Owes
  <2>6. QED
    BY <1>1, <1>2, <2>2, <2>5 DEF Owes
<1>19. QED
  BY <1>9, <1>10, <1>11, <1>12, <1>15, <1>16, <1>17, <1>18 DEF BufferInv

LEMMA SendStep ==
  ASSUME BufferInv, Send
  PROVE  BufferInv'
<1>1. /\ sent + others < MaxEvents /\ sent' = sent + 1
      /\ batch' = batch /\ pc' = pc /\ next' = next /\ seen' = seen /\ shutdown' = shutdown
      /\ flushed' = flushed /\ others' = others
      /\ offered' = offered /\ delivered' = delivered /\ owed' = owed /\ hurried' = hurried
  BY DEF Send
<1>2. /\ BufferTypes /\ ThreadTypes /\ CountTypes /\ Carries /\ Ordered /\ Apart /\ Adds
      /\ Counting /\ Owes
  BY DEF BufferInv
<1>3. sent \in Nat /\ dropped \in Nat /\ others \in Nat /\ sent' \in Nat
  BY <1>1, <1>2, PyTelemetryAssumption DEF CountTypes
<1>4. 1 .. sent \subseteq 1 .. sent' /\ sent' \in 1 .. sent' /\ sent' \notin 1 .. sent
  BY <1>1, <1>3
<1>5. \A s \in Seq(1 .. sent) : s \in Seq(1 .. sent')
  BY <1>4, SeqMonotonic
<1>6. queue \in Seq(1 .. sent) /\ Len(queue) \in Nat /\ Elems(queue) \subseteq 1 .. sent
  BY <1>2, ElemsIn DEF BufferTypes
<1>7. \A t \in Threads : Elems(batch[t]) \subseteq 1 .. sent /\ Pending(t)' = Pending(t)
                         /\ Elems(Pending(t)) \subseteq 1 .. sent
  BY <1>1, <1>2, PendingIs, TakenIsOlder DEF Pending
<1>8. Elems(offered) \subseteq 1 .. sent /\ Elems(owed) \subseteq 1 .. sent
  BY <1>2, ElemsIn DEF BufferTypes
<1>9. \/ /\ queue' = queue /\ dropped' = dropped + 1
      \/ /\ queue' = Append(queue, sent') /\ dropped' = dropped /\ Len(queue) # Capacity
  BY DEF Send
<1>10. /\ queue' \in Seq(1 .. sent') /\ Len(queue') <= Capacity /\ Increasing(queue')
       /\ Len(queue') + dropped' = Len(queue) + dropped + 1 /\ Len(queue') \in Nat
       /\ Elems(queue) \subseteq Elems(queue') /\ Elems(queue') \subseteq Elems(queue) \cup {sent'}
       /\ dropped' \in Nat
  <2>1. Increasing(queue) /\ Len(queue) <= Capacity
    BY <1>2 DEF Ordered, BufferTypes
  <2>2. CASE queue' = queue /\ dropped' = dropped + 1
    BY <1>3, <1>5, <1>6, <2>1, <2>2
  <2>3. CASE queue' = Append(queue, sent') /\ dropped' = dropped /\ Len(queue) # Capacity
    <3>1. queue \in Seq(1 .. sent') /\ \A x \in Elems(queue) : x < sent'
      BY <1>1, <1>3, <1>5, <1>6
    <3>2. /\ queue' \in Seq(1 .. sent') /\ Len(queue') = Len(queue) + 1
          /\ Elems(queue') = Elems(queue) \cup {sent'}
      BY <1>4, <2>3, <3>1, AppendIs
    <3>3. Increasing(queue')
      BY <1>3, <1>4, <2>1, <2>3, <3>1, AppendKeeps
    <3>4. QED
      BY <1>3, <1>6, <2>1, <2>3, <3>2, <3>3, PyTelemetryAssumption
  <2>4. QED
    BY <1>9, <2>2, <2>3
<1>11. BufferTypes'
  <2>1. batch' \in [Threads -> Seq(1 .. sent')]
    BY <1>1, <1>2, <1>5 DEF BufferTypes
  <2>2. QED
    BY <1>1, <1>2, <1>5, <1>10, <2>1 DEF BufferTypes
<1>12. ThreadTypes'
  BY <1>1, <1>2 DEF ThreadTypes
<1>13. CountTypes'
  BY <1>1, <1>2, <1>3, <1>10, PyTelemetryAssumption DEF CountTypes
<1>14. Carries' /\ Counting'
  BY <1>1, <1>2 DEF Carries, Counting
<1>15. Ordered'
  <2>1. ASSUME NEW t \in Threads, NEW e \in Elems(batch[t]), NEW q \in Elems(queue')
        PROVE  e < q
    <3>1. CASE q \in Elems(queue)
      BY <1>2, <3>1 DEF Ordered
    <3>2. CASE q = sent'
      BY <1>1, <1>3, <1>7, <3>2
    <3>3. QED
      BY <1>10, <3>1, <3>2
  <2>2. QED
    BY <1>1, <1>2, <1>10, <2>1 DEF Ordered
<1>16. Apart'
  <2>1. Elems(offered) \cap Elems(queue') = {}
    BY <1>2, <1>4, <1>8, <1>10 DEF Apart
  <2>2. QED
    BY <1>1, <1>2, <1>7, <2>1 DEF Apart, Threads
<1>17. Adds'
  <2>1. \A t \in Threads : Len(Pending(t)) \in Nat
    BY <1>2, PendingIs
  <2>2. Len(offered) \in Nat
    BY <1>2, ElemsIn DEF BufferTypes
  <2>3. Pending("flusher")' = Pending("flusher") /\ Pending("stop")' = Pending("stop")
    BY <1>7 DEF Threads
  <2>4. /\ Adds /\ offered' = offered /\ sent' = sent + 1 /\ Len(queue) \in Nat
        /\ Len(queue') \in Nat /\ dropped' \in Nat
        /\ Len(queue') + dropped' = Len(queue) + dropped + 1
    BY <1>1, <1>2, <1>6, <1>10
  <2>5. QED
    BY <1>3, <2>1, <2>2, <2>3, <2>4 DEF Adds, Threads
<1>18. Owes'
  <2>1. ASSUME pc["stop"] = "drain", NEW e \in Elems(batch["stop"]) \cup Elems(queue'),
               NEW o \in Elems(owed)
        PROVE  e \in Elems(owed) \/ o < e
    <3>1. CASE e = sent'
      BY <1>1, <1>3, <1>8, <3>1
    <3>2. CASE e # sent'
      BY <1>2, <1>10, <2>1, <3>2 DEF Owes
    <3>3. QED
      BY <3>1, <3>2
  <2>2. pc["stop"] # "idle" /\ ~hurried /\ Len(owed) <= BatchSize =>
          Elems(owed) \subseteq Elems(offered) \cup Elems(Pending("flusher")')
                                  \cup Elems(Pending("stop")')
                                  \cup (IF pc["stop"] = "drain" THEN Elems(queue') ELSE {})
    BY <1>2, <1>7, <1>10 DEF Owes, Threads
  <2>3. QED
    BY <1>1, <1>2, <2>1, <2>2 DEF Owes
<1>19. QED
  BY <1>11, <1>12, <1>13, <1>14, <1>15, <1>16, <1>17, <1>18 DEF BufferInv

\* A thread goes to another place, with the same batch still pending.
LEMMA GoStep ==
  ASSUME BufferInv, NEW t \in Threads, NEW p \in Places,
         p \in (IF t = "flusher" THEN {"drain", "store", "count", "sleep", "done"}
                                 ELSE {"idle", "drain", "store", "count", "join", "returned"}),
         pc' = [pc EXCEPT ![t] = p], pc[t] # "count", p # "count",
         p # "idle", t = "stop" => pc[t] # "idle",
         batch[t] = <<>> \/ p \in {"drain", "store"}, p = "drain" => next[t] = 0,
         hurried' \in BOOLEAN, hurried => hurried',
         UNCHANGED <<queue, batch, next, seen, shutdown, flushed, dropped, sent, others,
                     offered, delivered, owed>>,
         t = "stop" /\ pc[t] = "drain" /\ p # "drain" /\ ~hurried' /\ Len(owed) <= BatchSize
           => Elems(owed) \cap Elems(queue) = {},
         t = "stop" /\ p = "drain" => pc[t] = "drain",
         t = "stop" /\ p = "returned" /\ ~hurried' => pc["flusher"] = "done",
         pc["flusher"] = "done" => t # "flusher"
  PROVE  BufferInv'
<1>1. /\ BufferTypes /\ ThreadTypes /\ CountTypes /\ Carries /\ Ordered /\ Apart /\ Adds
      /\ Counting /\ Owes
  BY DEF BufferInv
<1>2. \A u \in Threads : pc'[u] = IF u = t THEN p ELSE pc[u]
  BY <1>1 DEF ThreadTypes
<1>3. \A u \in Threads : Pending(u)' = Pending(u)
  BY <1>2 DEF Pending
<1>4. BufferTypes' /\ CountTypes' /\ Ordered'
  BY <1>1 DEF BufferTypes, CountTypes, Ordered
<1>5. ThreadTypes'
  <2>1. pc' \in [Threads -> Places]
    BY <1>1 DEF ThreadTypes
  <2>2. /\ pc'["flusher"] \in {"drain", "store", "count", "sleep", "done"}
        /\ pc'["stop"] \in {"idle", "drain", "store", "count", "join", "returned"}
    BY <1>1, <1>2 DEF ThreadTypes, Threads
  <2>3. QED
    BY <1>1, <2>1, <2>2 DEF ThreadTypes
<1>6. Carries'
  BY <1>1, <1>2 DEF Carries
<1>7. Apart' /\ Adds'
  BY <1>1, <1>3 DEF Apart, Adds, Threads
<1>8. Counting'
  <2>1. \A u \in Threads : pc'[u] = "count" => pc[u] = "count"
    BY <1>2
  <2>2. pc'["stop"] = "idle" => pc["stop"] = "idle"
    BY <1>2 DEF Threads
  <2>3. pc'["flusher"] = "count" <=> pc["flusher"] = "count"
    BY <1>2 DEF Threads
  <2>4. QED
    BY <1>1, <2>1, <2>2, <2>3 DEF Counting
<1>9. Owes'
  <2>1. pc'["stop"] = "drain" => pc["stop"] = "drain"
    BY <1>2 DEF Threads
  <2>2. pc'["stop"] = "drain" =>
          \A e \in Elems(batch["stop"]) \cup Elems(queue), o \in Elems(owed) :
            e \in Elems(owed) \/ o < e
    BY <1>1, <2>1 DEF Owes
  <2>3. ASSUME pc'["stop"] # "idle", ~hurried', Len(owed) <= BatchSize
        PROVE  Elems(owed) \subseteq Elems(offered) \cup Elems(Pending("flusher"))
                                  \cup Elems(Pending("stop"))
                                  \cup (IF pc'["stop"] = "drain" THEN Elems(queue) ELSE {})
    <3>1. pc["stop"] # "idle" /\ ~hurried
      BY <1>2, <2>3 DEF Threads
    <3>2. Elems(owed) \subseteq Elems(offered) \cup Elems(Pending("flusher"))
                                  \cup Elems(Pending("stop"))
                                  \cup (IF pc["stop"] = "drain" THEN Elems(queue) ELSE {})
      BY <1>1, <2>3, <3>1 DEF Owes
    <3>3. CASE pc["stop"] = "drain" /\ pc'["stop"] # "drain"
      <4>1. Elems(owed) \cap Elems(queue) = {}
        BY <1>2, <2>3, <3>3 DEF Threads
      <4>2. QED
        BY <3>2, <3>3, <4>1
    <3>4. CASE ~(pc["stop"] = "drain" /\ pc'["stop"] # "drain")
      BY <2>1, <3>2, <3>4
    <3>5. QED
      BY <3>3, <3>4
  <2>4. pc'["stop"] = "returned" /\ ~hurried' => pc'["flusher"] = "done"
    <3>1. CASE t = "stop"
      BY <1>1, <1>2, <3>1 DEF Owes, Threads
    <3>2. CASE t = "flusher"
      BY <1>1, <1>2, <3>2 DEF Owes, Threads
    <3>3. QED
      BY <3>1, <3>2 DEF Threads
  <2>5. QED
    BY <1>3, <2>2, <2>3, <2>4 DEF Owes, Threads
<1>10. QED
  BY <1>1, <1>4, <1>5, <1>6, <1>7, <1>8, <1>9 DEF BufferInv

\* When the batch of stop is full, nothing of what it owes is queued any more: otherwise
\* all that it took would be owed too, which would then be more than a batch.
LEMMA FullBatch ==
  ASSUME BufferInv, pc["stop"] = "drain", ~(Len(batch["stop"]) < BatchSize),
         Len(owed) <= BatchSize
  PROVE  Elems(owed) \cap Elems(queue) = {}
<1> DEFINE b == batch["stop"]
<1>1. BufferTypes /\ CountTypes /\ Ordered /\ Owes /\ "stop" \in Threads
  BY DEF BufferInv, Threads
<1>2. SUFFICES ASSUME NEW q \in Elems(owed), q \in Elems(queue) PROVE FALSE
  OBVIOUS
<1>3. /\ b \in Seq(1 .. sent) /\ owed \in Seq(1 .. sent) /\ Inj(b) /\ Inj(owed)
      /\ Elems(b) \subseteq 1 .. sent /\ Elems(queue) \subseteq 1 .. sent /\ sent \in Nat
  BY <1>1, TakenIsOlder DEF BufferTypes, Ordered, CountTypes
<1>4. Elems(b) \subseteq Elems(owed)
  <2> SUFFICES ASSUME NEW e \in Elems(b) PROVE e \in Elems(owed)
    OBVIOUS
  <2>1. e < q
    BY <1>1, <1>2 DEF Ordered
  <2>2. ~(q < e)
    BY <1>2, <1>3, <2>1
  <2>3. e \in Elems(owed) \/ q < e
    BY <1>1 DEF Owes
  <2>4. QED
    BY <2>2, <2>3
<1>5. q \notin Elems(b)
  BY <1>1, <1>2, TakenIsOlder
<1> DEFINE B == Elems(b)
           O == Elems(owed)
<1>6. /\ IsFiniteSet(B) /\ Cardinality(B) = Len(b) /\ IsFiniteSet(O)
      /\ Cardinality(O) = Len(owed)
  BY <1>3, InjCounts
<1>7. Len(b) \in Nat /\ Len(owed) \in Nat
  BY <1>3, ElemsIn
<1> HIDE DEF B, O
<1>8. Cardinality(B \cup {q}) = Cardinality(B) + 1 /\ IsFiniteSet(B \cup {q})
  BY <1>5, <1>6, FS_AddElement DEF B
<1>9. B \cup {q} \subseteq O
  BY <1>2, <1>4 DEF B, O
<1>10. Cardinality(B \cup {q}) <= Cardinality(O)
  BY <1>6, <1>9, FS_Subset
<1> HIDE DEF b
<1>11. ~(Len(b) < BatchSize)
  BY DEF b
<1>12. QED
  BY <1>6, <1>7, <1>8, <1>10, <1>11, PyTelemetryAssumption

LEMMA DrainedStep ==
  ASSUME BufferInv, NEW t \in Threads, Drained(t)
  PROVE  BufferInv'
<1> DEFINE p == IF batch[t] = <<>> THEN Idle(t) ELSE "store"
<1>1. /\ pc[t] = "drain" /\ (batch[t] # <<>> \/ queue = <<>>)
      /\ pc' = [pc EXCEPT ![t] = p]
      /\ UNCHANGED <<queue, batch, next, seen, shutdown, flushed, dropped, sent, others,
                     offered, delivered, owed>>
  BY DEF Drained, Goto
<1>2. hurried' = (hurried \/ (t = "stop" /\ queue # <<>> /\ Len(batch[t]) < BatchSize))
  BY DEF Drained
<1>3. /\ p \in {"sleep", "join", "store"} /\ (p # "store" => batch[t] = <<>>)
      /\ (t = "flusher" => p \in {"sleep", "store"}) /\ (t # "flusher" => p \in {"join", "store"})
  BY DEF Idle
<1> HIDE DEF p
<1>4. hurried' \in BOOLEAN /\ (hurried => hurried')
  BY <1>2
<1>5. t = "stop" /\ ~hurried' /\ Len(owed) <= BatchSize => Elems(owed) \cap Elems(queue) = {}
  <2> SUFFICES ASSUME t = "stop", ~hurried', Len(owed) <= BatchSize
               PROVE  Elems(owed) \cap Elems(queue) = {}
    OBVIOUS
  <2>1. CASE queue = <<>>
    BY <2>1, ElemsIn DEF BufferInv, BufferTypes
  <2>2. CASE queue # <<>>
    BY <1>1, <1>2, <2>2, FullBatch
  <2>3. QED
    BY <2>1, <2>2
<1>6. p \in Places
  BY <1>3 DEF Places
<1>7. QED
  BY <1>1, <1>3, <1>4, <1>5, <1>6, GoStep

LEMMA WakeStep ==
  ASSUME BufferInv, Wake
  PROVE  BufferInv'
<1>1. /\ pc["flusher"] = "sleep" /\ pc' = [pc EXCEPT !["flusher"] = Loop]
      /\ hurried' = hurried
      /\ UNCHANGED <<queue, batch, next, seen, shutdown, flushed, dropped, sent, others,
                     offered, delivered, owed>>
  BY DEF Wake, Goto
<1>2. Loop \in {"done", "drain"} /\ Loop \in Places /\ "flusher" \in Threads
  BY DEF Loop, Places, Threads
<1>3. batch["flusher"] = <<>> /\ next["flusher"] = 0 /\ hurried \in BOOLEAN
  <2>1. batch["flusher"] = <<>> /\ next["flusher"] <= Len(batch["flusher"])
    BY <1>1, <1>2 DEF BufferInv, Carries
  <2>2. next["flusher"] \in Nat /\ hurried \in BOOLEAN
    BY <1>2 DEF BufferInv, ThreadTypes
  <2>3. Len(<<>>) = 0
    BY EmptySeq
  <2>4. QED
    BY <2>1, <2>2, <2>3
<1>4. QED
  BY <1>1, <1>2, <1>3, GoStep

LEMMA JoinStep ==
  ASSUME BufferInv, Join
  PROVE  BufferInv'
<1>1. /\ pc["stop"] = "join" /\ pc' = [pc EXCEPT !["stop"] = "returned"]
      /\ UNCHANGED <<queue, batch, next, seen, shutdown, flushed, dropped, sent, others,
                     offered, delivered, owed>>
  BY DEF Join, Goto
<1>2. hurried' = (hurried \/ pc["flusher"] # "done")
  BY DEF Join
<1>3. hurried' \in BOOLEAN /\ (hurried => hurried') /\ (~hurried' => pc["flusher"] = "done")
  BY <1>2
<1>4. batch["stop"] = <<>> /\ "stop" \in Threads /\ "returned" \in Places
  BY <1>1 DEF BufferInv, Carries, Threads, Places
<1>5. QED
  BY <1>1, <1>3, <1>4, GoStep

LEMMA Empty == \A n : /\ <<>> \in Seq(1 .. n) /\ Len(<<>>) = 0
                      /\ Elems(<<>>) = {} /\ Inj(<<>>)
<1> SUFFICES ASSUME NEW n PROVE <<>> \in Seq(1 .. n) /\ Len(<<>>) = 0
                                /\ Elems(<<>>) = {} /\ Inj(<<>>)
  OBVIOUS
<1>1. <<>> \in Seq(1 .. n) /\ Len(<<>>) = 0
  BY EmptySeq
<1>2. Elems(<<>>) = {}
  BY <1>1, ElemsIn
<1>3. Inj(<<>>)
  BY <1>1 DEF Inj
<1>4. QED
  BY <1>1, <1>2, <1>3

\* flush_fn is offered the batch of t, which t may keep until it has counted it.
LEMMA OfferStep ==
  ASSUME BufferInv, NEW t \in Threads, pc[t] = "store", offered' = offered \o batch[t],
         \A u \in Threads : Pending(u)' = IF u = t THEN <<>> ELSE Pending(u),
         batch' = batch \/ batch' = [batch EXCEPT ![t] = <<>>],
         queue' = queue, sent' = sent, dropped' = dropped, owed' = owed
  PROVE  /\ BufferTypes' /\ Ordered' /\ Apart' /\ Adds'
         /\ Elems(offered') \cup Elems(Pending("flusher")') \cup Elems(Pending("stop")')
              = Elems(offered) \cup Elems(Pending("flusher")) \cup Elems(Pending("stop"))
<1>1. BufferTypes /\ CountTypes /\ Ordered /\ Apart /\ Adds
  BY DEF BufferInv
<1>2. Pending(t) = batch[t] /\ batch[t] \in Seq(1 .. sent) /\ Len(batch[t]) \in Nat
  BY <1>1, PendingIs DEF Pending
<1>3. offered \in Seq(1 .. sent) /\ Inj(offered) /\ Inj(batch[t])
  BY <1>1 DEF BufferTypes, Ordered
<1>4. Elems(offered) \cap Elems(batch[t]) = {}
  BY <1>1, <1>2 DEF Apart
<1>5. /\ offered' \in Seq(1 .. sent) /\ Len(offered') = Len(offered) + Len(batch[t])
      /\ Elems(offered') = Elems(offered) \cup Elems(batch[t]) /\ Inj(offered')
      /\ Len(offered) \in Nat
  BY <1>2, <1>3, <1>4, ConcatIs, ElemsIn
<1>a. /\ DOMAIN batch' = Threads /\ batch' = [u \in Threads |-> batch'[u]]
      /\ \A u \in Threads : batch'[u] = batch[u] \/ batch'[u] = <<>>
  BY <1>1 DEF BufferTypes
<1>6. \A u \in Threads : /\ batch'[u] \in Seq(1 .. sent) /\ Len(batch'[u]) <= BatchSize
                         /\ Inj(batch'[u]) /\ Elems(batch'[u]) \subseteq Elems(batch[u])
  <2> SUFFICES ASSUME NEW u \in Threads
               PROVE  /\ batch'[u] \in Seq(1 .. sent) /\ Len(batch'[u]) <= BatchSize
                      /\ Inj(batch'[u]) /\ Elems(batch'[u]) \subseteq Elems(batch[u])
    OBVIOUS
  <2>1. CASE batch'[u] = batch[u]
    BY <1>1, <2>1 DEF BufferTypes, Ordered
  <2>2. CASE batch'[u] = <<>>
    BY <2>2, Empty, PyTelemetryAssumption
  <2>3. QED
    BY <1>a, <2>1, <2>2
<1>7. BufferTypes'
  <2>1. batch' \in [Threads -> Seq(1 .. sent)]
    BY <1>a, <1>6
  <2>2. QED
    BY <1>1, <1>5, <1>6, <2>1 DEF BufferTypes
<1>8. Ordered'
  BY <1>1, <1>5, <1>6 DEF Ordered
<1>9. \A u \in Threads : Elems(Pending(u)') = IF u = t THEN {} ELSE Elems(Pending(u))
  BY Empty
<1>10. Apart'
  <2>1. Elems(offered') \cap Elems(queue) = {}
    BY <1>1, <1>5, TakenIsOlder DEF Apart
  <2>2. \A u \in Threads : u # t => Elems(Pending(u)) \cap Elems(Pending(t)) = {}
    BY <1>1 DEF Apart, Threads
  <2>3. \A u \in Threads : Elems(offered') \cap Elems(Pending(u)') = {}
    BY <1>1, <1>2, <1>5, <1>9, <2>2 DEF Apart
  <2>4. Elems(Pending("flusher")') \cap Elems(Pending("stop")') = {}
    BY <1>1, <1>9 DEF Apart, Threads
  <2>5. QED
    BY <2>1, <2>3, <2>4 DEF Apart
<1>11. Adds'
  <2>1. \A u \in Threads : /\ Len(Pending(u)) \in Nat
                           /\ Len(Pending(u)') = IF u = t THEN 0 ELSE Len(Pending(u))
    BY <1>1, PendingIs, Empty
  <2>2. \/ /\ Len(Pending("flusher")') = 0 /\ Len(Pending("flusher")) = Len(batch[t])
           /\ Len(Pending("stop")') = Len(Pending("stop"))
        \/ /\ Len(Pending("stop")') = 0 /\ Len(Pending("stop")) = Len(batch[t])
           /\ Len(Pending("flusher")') = Len(Pending("flusher"))
    BY <1>2, <2>1 DEF Threads
  <2>3. /\ Len(Pending("flusher")) \in Nat /\ Len(Pending("stop")) \in Nat
        /\ Len(queue) \in Nat /\ dropped \in Nat
    BY <1>1, <2>1, ElemsIn DEF Threads, BufferTypes, CountTypes
  <2>4. Len(offered) + Len(Pending("flusher")) + Len(Pending("stop")) + Len(queue)
          + dropped = sent
    BY <1>1 DEF Adds
  <2>5. Len(offered') + Len(Pending("flusher")') + Len(Pending("stop")') + Len(queue)
          + dropped = sent
    <3> DEFINE o == Len(offered)
               f == Len(Pending("flusher"))
               g == Len(Pending("stop"))
               q == Len(queue)
               o1 == Len(offered')
               f1 == Len(Pending("flusher")')
               g1 == Len(Pending("stop")')
               b == Len(batch[t])
    <3>1. o \in Nat /\ b \in Nat /\ o1 = o + b
      BY <1>2, <1>5
    <3>2. \/ f1 = 0 /\ f = b /\ g1 = g
          \/ g1 = 0 /\ g = b /\ f1 = f
      BY <2>2
    <3>3. f \in Nat /\ g \in Nat /\ q \in Nat /\ dropped \in Nat
      BY <2>3
    <3>4. o + f + g + q + dropped = sent
      BY <2>4
    <3> HIDE DEF o, f, g, q, o1, f1, g1, b
    <3>5. o1 + f1 + g1 + q + dropped = sent
      <4>1. CASE f1 = 0 /\ f = b /\ g1 = g
        BY <3>1, <3>3, <3>4, <4>1
      <4>2. CASE g1 = 0 /\ g = b /\ f1 = f
        BY <3>1, <3>3, <3>4, <4>2
      <4>3. QED
        BY <3>2, <4>1, <4>2
    <3>6. QED
      BY <3>5 DEF o1, f1, g1, q
  <2>6. QED
    BY <2>5 DEF Adds
<1>12. QED
  BY <1>2, <1>5, <1>7, <1>8, <1>9, <1>10, <1>11 DEF Threads

\* What becomes of stop's debt when t has been through _flush.
LEMMA OwesStep ==
  ASSUME BufferInv, NEW t \in Threads, NEW p, p # "drain" \/ t = "flusher",
         p # "idle", p # "returned", pc[t] \in {"store", "count"},
         \A u \in Threads : pc'[u] = IF u = t THEN p ELSE pc[u],
         \A u \in Threads : u # t => batch'[u] = batch[u],
         queue' = queue, owed' = owed, hurried' = hurried,
         Elems(offered') \cup Elems(Pending("flusher")') \cup Elems(Pending("stop")')
           = Elems(offered) \cup Elems(Pending("flusher")) \cup Elems(Pending("stop"))
  PROVE  Owes'
<1>1. Owes
  BY DEF BufferInv
<1>2. /\ pc'["stop"] = "drain" <=> pc["stop"] = "drain"
      /\ pc'["stop"] = "idle" <=> pc["stop"] = "idle"
  BY DEF Threads
<1>3. pc'["stop"] = "drain" => batch'["stop"] = batch["stop"]
  BY DEF Threads
<1>4. pc["stop"] = "returned" /\ ~hurried => pc'["flusher"] = "done"
  BY <1>1 DEF Threads, Owes
<1>5. pc'["stop"] = "returned" => pc["stop"] = "returned"
  BY DEF Threads
<1>6. pc'["stop"] = "returned" /\ ~hurried' => pc'["flusher"] = "done"
  BY <1>1, <1>4, <1>5 DEF Owes
<1>7. pc'["stop"] = "drain" =>
        \A e \in Elems(batch'["stop"]) \cup Elems(queue), o \in Elems(owed) :
          e \in Elems(owed) \/ o < e
  BY <1>1, <1>2, <1>3 DEF Owes
<1>8. pc'["stop"] # "idle" /\ ~hurried /\ Len(owed) <= BatchSize =>
          Elems(owed) \subseteq Elems(offered') \cup Elems(Pending("flusher")')
                                  \cup Elems(Pending("stop")')
                                  \cup (IF pc'["stop"] = "drain" THEN Elems(queue) ELSE {})
  BY <1>1, <1>2 DEF Owes
<1>9. QED
  BY <1>6, <1>7, <1>8 DEF Owes

LEMMA AfterFlushIs ==
  \A t \in Threads : /\ AfterFlush(t) \in Places
                     /\ t = "flusher" => AfterFlush(t) \in {"drain", "done"}
                     /\ t # "flusher" => AfterFlush(t) = "join"
BY DEF AfterFlush, Loop, Places

\* Thread t moves on to p, in or after _flush, and may release its batch.
LEMMA MoveTypes ==
  ASSUME BufferInv, NEW t \in Threads, NEW p \in Places,
         pc' = [pc EXCEPT ![t] = p], pc[t] \in {"store", "count"},
         t = "flusher" => p \in {"count", "drain", "done"},
         t # "flusher" => p \in {"count", "join"},
         p = "count" => batch' = batch /\ next' = next,
         p # "count" => /\ batch' = [batch EXCEPT ![t] = <<>>]
                        /\ next' = [next EXCEPT ![t] = 0],
         seen' \in [Threads -> Nat], shutdown' = shutdown, hurried' = hurried
  PROVE  /\ ThreadTypes' /\ Carries'
         /\ \A u \in Threads : pc'[u] = IF u = t THEN p ELSE pc[u]
         /\ \A u \in Threads : u # t => batch'[u] = batch[u]
<1>1. ThreadTypes /\ Carries /\ BufferTypes
  BY DEF BufferInv
<1>2. \A u \in Threads : pc'[u] = IF u = t THEN p ELSE pc[u]
  BY <1>1 DEF ThreadTypes
<1>3. \A u \in Threads : u # t => batch'[u] = batch[u] /\ next'[u] = next[u]
  BY <1>1 DEF ThreadTypes, BufferTypes
<1>4. ThreadTypes'
  <2>1. pc' \in [Threads -> Places]
    BY <1>1 DEF ThreadTypes
  <2>2. /\ pc'["flusher"] \in {"drain", "store", "count", "sleep", "done"}
        /\ pc'["stop"] \in {"idle", "drain", "store", "count", "join", "returned"}
    BY <1>1, <1>2 DEF ThreadTypes, Threads
  <2>3. next' \in [Threads -> Nat]
    <3>1. next \in [Threads -> Nat] /\ [next EXCEPT ![t] = 0] \in [Threads -> Nat]
      BY <1>1 DEF ThreadTypes
    <3>2. next' = next \/ next' = [next EXCEPT ![t] = 0]
      OBVIOUS
    <3>3. QED
      BY <3>1, <3>2
  <2>4. QED
    BY <1>1, <2>1, <2>2, <2>3 DEF ThreadTypes
<1>5. Carries'
  <2> SUFFICES ASSUME NEW u \in Threads
               PROVE  /\ next'[u] <= Len(batch'[u])
                      /\ pc'[u] \notin {"drain", "store", "count"} => batch'[u] = <<>>
                      /\ pc'[u] = "drain" => next'[u] = 0
    BY DEF Carries
  <2>1. CASE u # t
    BY <1>1, <1>2, <1>3, <2>1 DEF Carries
  <2>2. CASE u = t /\ p = "count"
    BY <1>1, <1>2, <2>2 DEF Carries
  <2>3. CASE u = t /\ p # "count"
    <3>1. batch'[t] = <<>> /\ next'[t] = 0
      BY <1>1, <2>3 DEF ThreadTypes, BufferTypes
    <3>2. QED
      BY <2>3, <3>1, Empty
  <2>4. QED
    BY <2>1, <2>2, <2>3
<1>6. QED
  BY <1>2, <1>3, <1>4, <1>5

LEMMA FlushOkStep ==
  ASSUME BufferInv, NEW t \in Threads, FlushOk(t)
  PROVE  BufferInv'
<1>1. /\ pc[t] = "store" /\ offered' = offered \o batch[t]
      /\ delivered' = delivered + Len(batch[t]) /\ seen' = [seen EXCEPT ![t] = flushed]
      /\ pc' = [pc EXCEPT ![t] = "count"]
      /\ queue' = queue /\ batch' = batch /\ next' = next /\ shutdown' = shutdown
      /\ flushed' = flushed /\ dropped' = dropped /\ sent' = sent /\ others' = others
      /\ owed' = owed /\ hurried' = hurried
  BY DEF FlushOk, Goto
<1>2. BufferTypes /\ ThreadTypes /\ CountTypes /\ Counting
  BY DEF BufferInv
<1>3. /\ ThreadTypes' /\ Carries'
      /\ \A u \in Threads : pc'[u] = IF u = t THEN "count" ELSE pc[u]
  <2>1. seen' \in [Threads -> Nat] /\ "count" \in Places
    BY <1>1, <1>2 DEF ThreadTypes, CountTypes, Places
  <2>2. QED
    BY <1>1, <2>1, MoveTypes
<1>4. \A u \in Threads : Pending(u)' = IF u = t THEN <<>> ELSE Pending(u)
  BY <1>1, <1>3 DEF Pending
<1>5. /\ BufferTypes' /\ Ordered' /\ Apart' /\ Adds'
      /\ Elems(offered') \cup Elems(Pending("flusher")') \cup Elems(Pending("stop")')
           = Elems(offered) \cup Elems(Pending("flusher")) \cup Elems(Pending("stop"))
  BY <1>1, <1>4, OfferStep
<1>6. Owes'
  BY <1>1, <1>3, <1>5, OwesStep
<1>7. \A u \in Threads : Len(batch[u]) \in Nat /\ seen[u] \in Nat
  BY <1>2, PendingIs DEF ThreadTypes
<1>8. flushed \in Nat /\ delivered \in Nat /\ flushed <= delivered
      /\ delivered' \in Nat /\ delivered <= delivered'
      /\ flushed + Len(batch[t]) <= delivered'
  <2>1. flushed \in Nat /\ delivered \in Nat /\ flushed <= delivered
    BY <1>2 DEF CountTypes, Counting
  <2>2. Len(batch[t]) \in Nat /\ delivered' = delivered + Len(batch[t])
    BY <1>1, <1>7
  <2>3. QED
    BY <2>1, <2>2
<1>9. CountTypes'
  BY <1>1, <1>2, <1>8 DEF CountTypes
<1>10. Counting'
  <2>1. flushed' <= delivered'
    BY <1>1, <1>8
  <2>2. ASSUME NEW u \in Threads, pc'[u] = "count" PROVE seen'[u] + Len(batch[u]) <= delivered'
    <3>1. CASE u = t
      BY <1>1, <1>2, <1>8, <3>1 DEF ThreadTypes
    <3>2. CASE u # t
      <4>1. seen'[u] = seen[u] /\ seen[u] + Len(batch[u]) <= delivered
        BY <1>1, <1>2, <1>3, <2>2, <3>2 DEF ThreadTypes, Counting
      <4>2. QED
        BY <1>7, <1>8, <4>1
    <3>3. QED
      BY <3>1, <3>2
  <2>3. ASSUME pc'["stop"] = "idle"
        PROVE  /\ pc'["flusher"] = "count"
               /\ seen'["flusher"] = flushed /\ flushed + Len(batch["flusher"]) = delivered'
    <3>1. t = "flusher" /\ pc["stop"] = "idle"
      BY <1>3, <2>3 DEF Threads
    <3>2. flushed = delivered
      BY <1>1, <1>2, <3>1 DEF Counting
    <3>3. QED
      BY <1>1, <1>2, <1>3, <3>1, <3>2 DEF ThreadTypes, Threads
  <2>4. QED
    BY <1>1, <2>1, <2>2, <2>3 DEF Counting
<1>11. QED
  BY <1>3, <1>5, <1>6, <1>9, <1>10 DEF BufferInv

LEMMA FlushFailsStep ==
  ASSUME BufferInv, NEW t \in Threads, FlushFails(t)
  PROVE  BufferInv'
<1> DEFINE p == AfterFlush(t)
<1>1. /\ pc[t] = "store" /\ offered' = offered \o batch[t]
      /\ pc' = [pc EXCEPT ![t] = p] /\ batch' = [batch EXCEPT ![t] = <<>>]
      /\ next' = [next EXCEPT ![t] = 0]
      /\ queue' = queue /\ seen' = seen /\ shutdown' = shutdown
      /\ flushed' = flushed /\ dropped' = dropped /\ sent' = sent /\ others' = others
      /\ delivered' = delivered /\ owed' = owed /\ hurried' = hurried
  BY DEF FlushFails, Goto, Release
<1>2. BufferTypes /\ ThreadTypes /\ CountTypes /\ Counting
  BY DEF BufferInv
<1>3. /\ p \in Places /\ p # "count" /\ p # "idle" /\ p # "returned"
      /\ t = "flusher" => p \in {"drain", "done"}
      /\ t # "flusher" => p = "join"
  BY AfterFlushIs
<1> HIDE DEF p
<1>4. /\ ThreadTypes' /\ Carries'
      /\ \A u \in Threads : pc'[u] = IF u = t THEN p ELSE pc[u]
      /\ \A u \in Threads : u # t => batch'[u] = batch[u]
  <2>1. seen' \in [Threads -> Nat]
    BY <1>1, <1>2 DEF ThreadTypes
  <2>2. QED
    BY <1>1, <1>3, <2>1, MoveTypes
<1>5. \A u \in Threads : Pending(u)' = IF u = t THEN <<>> ELSE Pending(u)
  <2>1. batch'[t] = <<>>
    BY <1>1, <1>2 DEF BufferTypes
  <2>2. QED
    BY <1>3, <1>4, <2>1 DEF Pending
<1>6. /\ BufferTypes' /\ Ordered' /\ Apart' /\ Adds'
      /\ Elems(offered') \cup Elems(Pending("flusher")') \cup Elems(Pending("stop")')
           = Elems(offered) \cup Elems(Pending("flusher")) \cup Elems(Pending("stop"))
  BY <1>1, <1>5, OfferStep
<1>7. Owes'
  BY <1>1, <1>3, <1>4, <1>6, OwesStep
<1>8. CountTypes'
  BY <1>1, <1>2 DEF CountTypes
<1>9. Counting'
  <2>1. \A u \in Threads : pc'[u] = "count" => pc[u] = "count" /\ batch'[u] = batch[u]
    BY <1>3, <1>4
  <2>2. pc'["stop"] = "idle" =>
          pc["stop"] = "idle" /\ pc["flusher"] # "count" /\ pc'["flusher"] # "count"
    BY <1>1, <1>3, <1>4 DEF Threads
  <2>3. QED
    BY <1>1, <1>2, <2>1, <2>2 DEF Counting
<1>10. QED
  BY <1>4, <1>6, <1>7, <1>8, <1>9 DEF BufferInv

LEMMA CountStep ==
  ASSUME BufferInv, NEW t \in Threads, Count(t)
  PROVE  BufferInv'
<1> DEFINE p == AfterFlush(t)
<1>1. /\ pc[t] = "count" /\ flushed' = seen[t] + Len(batch[t])
      /\ seen' = [seen EXCEPT ![t] = 0]
      /\ pc' = [pc EXCEPT ![t] = p] /\ batch' = [batch EXCEPT ![t] = <<>>]
      /\ next' = [next EXCEPT ![t] = 0]
      /\ queue' = queue /\ shutdown' = shutdown /\ dropped' = dropped
      /\ sent' = sent /\ others' = others /\ offered' = offered
      /\ delivered' = delivered /\ owed' = owed /\ hurried' = hurried
  BY DEF Count, Goto, Release
<1>2. /\ BufferTypes /\ ThreadTypes /\ CountTypes /\ Counting /\ Ordered /\ Apart /\ Adds
  BY DEF BufferInv
<1>3. /\ p \in Places /\ p # "count" /\ p # "idle" /\ p # "returned"
      /\ t = "flusher" => p \in {"drain", "done"}
      /\ t # "flusher" => p = "join"
  BY AfterFlushIs
<1> HIDE DEF p
<1>4. /\ ThreadTypes' /\ Carries'
      /\ \A u \in Threads : pc'[u] = IF u = t THEN p ELSE pc[u]
      /\ \A u \in Threads : u # t => batch'[u] = batch[u]
  <2>1. seen' \in [Threads -> Nat]
    BY <1>1, <1>2 DEF ThreadTypes
  <2>2. QED
    BY <1>1, <1>3, <2>1, MoveTypes
<1>5. batch'[t] = <<>>
  BY <1>1, <1>2 DEF BufferTypes
<1>6. \A u \in Threads : Pending(u)' = Pending(u)
  BY <1>1, <1>3, <1>4, <1>5 DEF Pending
<1>7. BufferTypes'
  <2>1. batch' \in [Threads -> Seq(1 .. sent)]
    BY <1>1, <1>2, Empty DEF BufferTypes
  <2>2. \A u \in Threads : Len(batch'[u]) <= BatchSize
    BY <1>2, <1>4, <1>5, Empty, PyTelemetryAssumption DEF BufferTypes
  <2>3. QED
    BY <1>1, <1>2, <2>1, <2>2 DEF BufferTypes
<1>8. Ordered'
  <2>1. \A u \in Threads : Inj(batch'[u]) /\ Elems(batch'[u]) \subseteq Elems(batch[u])
    BY <1>2, <1>4, <1>5, Empty DEF Ordered
  <2>2. QED
    BY <1>1, <1>2, <2>1 DEF Ordered
<1>9. Apart' /\ Adds'
  BY <1>1, <1>2, <1>6 DEF Apart, Adds, Threads
<1>10. Owes'
  <2>1. Elems(offered') \cup Elems(Pending("flusher")') \cup Elems(Pending("stop")')
          = Elems(offered) \cup Elems(Pending("flusher")) \cup Elems(Pending("stop"))
    BY <1>1, <1>6 DEF Threads
  <2>2. QED
    BY <1>1, <1>3, <1>4, <2>1, OwesStep
<1>11. flushed' \in Nat /\ flushed' <= delivered
  <2>1. seen[t] \in Nat /\ Len(batch[t]) \in Nat
    BY <1>2, PendingIs DEF ThreadTypes
  <2>2. seen[t] + Len(batch[t]) <= delivered
    BY <1>1, <1>2 DEF Counting
  <2>3. QED
    BY <1>1, <2>1, <2>2
<1>12. CountTypes'
  BY <1>1, <1>2, <1>11 DEF CountTypes
<1>13. Counting'
  <2>1. \A u \in Threads : pc'[u] = "count" =>
          pc[u] = "count" /\ batch'[u] = batch[u] /\ seen'[u] = seen[u]
    BY <1>1, <1>2, <1>3, <1>4 DEF ThreadTypes
  <2>2. \A u \in Threads : pc'[u] = "count" => seen'[u] + Len(batch'[u]) <= delivered
    BY <1>2, <2>1 DEF Counting
  <2>3. ASSUME pc'["stop"] = "idle" PROVE pc'["flusher"] # "count" /\ flushed' = delivered
    <3>1. t = "flusher" /\ pc["stop"] = "idle"
      BY <1>3, <1>4, <2>3 DEF Threads
    <3>2. seen[t] = flushed /\ flushed + Len(batch[t]) = delivered
      BY <1>1, <1>2, <3>1 DEF Counting
    <3>3. QED
      BY <1>1, <1>3, <1>4, <3>1, <3>2
  <2>4. QED
    BY <1>1, <1>11, <2>2, <2>3 DEF Counting
<1>14. QED
  BY <1>4, <1>7, <1>8, <1>9, <1>10, <1>12, <1>13 DEF BufferInv

LEMMA StoreEventStep ==
  ASSUME BufferInv, NEW t \in Threads, StoreEvent(t)
  PROVE  BufferInv'
<1>1. /\ pc[t] = "store" /\ next[t] < Len(batch[t]) /\ next' = [next EXCEPT ![t] = @ + 1]
      /\ queue' = queue /\ batch' = batch /\ pc' = pc /\ seen' = seen
      /\ shutdown' = shutdown /\ flushed' = flushed /\ dropped' = dropped
      /\ sent' = sent /\ others' = others /\ offered' = offered
      /\ delivered' = delivered /\ owed' = owed /\ hurried' = hurried
  BY DEF StoreEvent
<1>2. /\ BufferTypes /\ ThreadTypes /\ CountTypes /\ Carries /\ Ordered /\ Apart /\ Adds
      /\ Counting /\ Owes
  BY DEF BufferInv
<1>3. next[t] \in Nat /\ Len(batch[t]) \in Nat /\ next'[t] = next[t] + 1
  BY <1>1, <1>2, PendingIs DEF ThreadTypes
<1>4. next' \in [Threads -> Nat] /\ next'[t] <= Len(batch[t])
  <2>1. next[t] + 1 \in Nat /\ next[t] + 1 <= Len(batch[t])
    BY <1>1, <1>3
  <2>2. QED
    BY <1>1, <1>2, <1>3, <2>1 DEF ThreadTypes
<1>5. ThreadTypes'
  BY <1>1, <1>2, <1>4 DEF ThreadTypes
<1>6. Carries'
  <2>1. \A u \in Threads : u # t => next'[u] = next[u]
    BY <1>1, <1>2 DEF ThreadTypes
  <2>2. QED
    BY <1>1, <1>2, <1>4, <2>1 DEF Carries
<1>7. \A u \in Threads : Pending(u)' = Pending(u)
  BY <1>1 DEF Pending
<1>8. BufferTypes' /\ CountTypes' /\ Ordered' /\ Counting'
  BY <1>1, <1>2 DEF BufferTypes, CountTypes, Ordered, Counting
<1>9. Apart' /\ Adds' /\ Owes'
  BY <1>1, <1>2, <1>7 DEF Apart, Adds, Owes, Threads
<1>10. QED
  BY <1>5, <1>6, <1>8, <1>9 DEF BufferInv

\* A write to another table changes no variable of the buffer but its number.
LEMMA OtherStep ==
  ASSUME BufferInv, others' \in 0 .. MaxOther, sent + others' <= MaxEvents,
         UNCHANGED <<queue, batch, pc, next, seen, shutdown, flushed, dropped, sent,
                     offered, delivered, owed, hurried>>
  PROVE  BufferInv'
<1>1. /\ BufferTypes /\ ThreadTypes /\ CountTypes /\ Carries /\ Ordered /\ Apart /\ Adds
      /\ Counting /\ Owes
  BY DEF BufferInv
<1>2. \A u \in Threads : Pending(u)' = Pending(u)
  BY DEF Pending
<1>3. BufferTypes' /\ ThreadTypes' /\ Carries' /\ Ordered' /\ Counting'
  BY <1>1 DEF BufferTypes, ThreadTypes, Carries, Ordered, Counting
<1>4. CountTypes'
  BY <1>1 DEF CountTypes
<1>5. Apart' /\ Adds' /\ Owes'
  BY <1>1, <1>2 DEF Apart, Adds, Owes, Threads
<1>6. QED
  BY <1>3, <1>4, <1>5, <1>1 DEF BufferInv

LEMMA StopStep ==
  ASSUME BufferInv, Stop
  PROVE  BufferInv'
<1>1. /\ pc["stop"] = "idle" /\ shutdown' = TRUE /\ owed' = queue
      /\ pc' = [pc EXCEPT !["stop"] = "drain"]
      /\ queue' = queue /\ batch' = batch /\ next' = next /\ seen' = seen
      /\ flushed' = flushed /\ dropped' = dropped
      /\ sent' = sent /\ others' = others /\ offered' = offered
      /\ delivered' = delivered /\ hurried' = hurried
  BY DEF Stop, Goto
<1>2. /\ BufferTypes /\ ThreadTypes /\ CountTypes /\ Carries /\ Ordered /\ Apart /\ Adds
      /\ Counting /\ Owes
  BY DEF BufferInv
<1>3. "stop" \in Threads /\ "flusher" \in Threads /\ Threads = {"flusher", "stop"}
  BY DEF Threads
<1>4. pc'["stop"] = "drain" /\ pc'["flusher"] = pc["flusher"]
  BY <1>1, <1>2, <1>3 DEF ThreadTypes
<1>5. batch["stop"] = <<>> /\ next["stop"] = 0
  <2>1. batch["stop"] = <<>> /\ next["stop"] <= Len(batch["stop"])
    BY <1>1, <1>2, <1>3 DEF Carries
  <2>2. next["stop"] \in Nat
    BY <1>2, <1>3 DEF ThreadTypes
  <2>3. QED
    BY <2>1, <2>2, Empty
<1>6. BufferTypes' /\ CountTypes'
  BY <1>1, <1>2 DEF BufferTypes, CountTypes
<1>7. ThreadTypes'
  <2>1. pc' \in [Threads -> Places]
    BY <1>1, <1>2 DEF ThreadTypes, Places
  <2>2. /\ pc'["flusher"] \in {"drain", "store", "count", "sleep", "done"}
        /\ pc'["stop"] \in {"idle", "drain", "store", "count", "join", "returned"}
    BY <1>2, <1>4 DEF ThreadTypes
  <2>3. shutdown' \in BOOLEAN
    BY <1>1
  <2>4. QED
    BY <1>1, <1>2, <2>1, <2>2, <2>3 DEF ThreadTypes
<1>8. Carries'
  BY <1>1, <1>2, <1>3, <1>4, <1>5 DEF Carries
<1>9. Ordered'
  <2>1. Inj(queue)
    BY <1>2, IncreasingIsInj DEF Ordered, BufferTypes, CountTypes
  <2>2. QED
    BY <1>1, <1>2, <2>1 DEF Ordered
<1>10. \A u \in Threads : Pending(u)' = Pending(u)
  BY <1>1, <1>3, <1>4 DEF Pending
<1>11. Apart' /\ Adds'
  BY <1>1, <1>2, <1>10 DEF Apart, Adds, Threads
<1>12. Counting'
  BY <1>1, <1>2, <1>3, <1>4 DEF Counting
<1>13. Owes'
  BY <1>1, <1>4, <1>5, Empty DEF Owes
<1>14. QED
  BY <1>6, <1>7, <1>8, <1>9, <1>11, <1>12, <1>13 DEF BufferInv

\* One of the two threads works.
LEMMA WorkStep ==
  ASSUME BufferInv, NEW t \in Threads, Work(t)
  PROVE  BufferInv'
BY TakeStep, DrainedStep, StoreEventStep, FlushOkStep, CountStep, FlushFailsStep DEF Work

LEMMA OtherWriteIs ==
  ASSUME OtherWrite
  PROVE  /\ others < MaxOther /\ sent + others < MaxEvents /\ others' = others + 1
         /\ UNCHANGED <<queue, batch, pc, next, seen, shutdown, flushed, dropped, sent,
                        offered, delivered, owed, hurried>>
BY DEF OtherWrite

LEMMA BufferStep ==
  ASSUME BufferInv, [Next]_vars
  PROVE  BufferInv'
<1>1. CASE Send
  BY <1>1, SendStep
<1>2. CASE OtherWrite
  <2>1. others \in 0 .. MaxOther /\ sent + others <= MaxEvents /\ sent \in Nat
    BY DEF BufferInv, CountTypes
  <2>2. others' \in 0 .. MaxOther /\ sent + others' <= MaxEvents
    BY <1>2, <2>1, OtherWriteIs, PyTelemetryAssumption
  <2>3. QED
    BY <1>2, <2>2, OtherWriteIs, OtherStep
<1>3. CASE Flusher
  BY <1>3, WakeStep, WorkStep DEF Flusher, Threads
<1>4. CASE Stop
  BY <1>4, StopStep
<1>5. CASE Stopper
  BY <1>5, JoinStep, WorkStep DEF Stopper, Threads
<1>6. CASE UNCHANGED bufferVars
  <2>1. /\ others' = others
        /\ UNCHANGED <<queue, batch, pc, next, seen, shutdown, flushed, dropped, sent,
                       offered, delivered, owed, hurried>>
    BY <1>6 DEF bufferVars
  <2>2. others' \in 0 .. MaxOther /\ sent + others' <= MaxEvents
    BY <2>1 DEF BufferInv, CountTypes
  <2>3. QED
    BY <2>1, <2>2, OtherStep
<1>7. CASE UNCHANGED vars
  <2>1. UNCHANGED bufferVars
    BY <1>7 DEF vars
  <2>2. QED
    BY <1>6, <2>1
<1>8. QED
  BY <1>1, <1>2, <1>3, <1>4, <1>5, <1>6, <1>7 DEF Next
-----------------------------------------------------------------------------
(* The steps of the store *)

LEMMA StatementIs ==
  \A s \in Statements : s # NoRow /\ s.op \in Ops /\ s.key \in Keys /\ s.value \in Values
<1> SUFFICES ASSUME NEW s \in Statements
             PROVE  s # NoRow /\ s.op \in Ops /\ s.key \in Keys /\ s.value \in Values
  OBVIOUS
<1>1. s.op \in Ops /\ s.key \in Keys /\ s.value \in Values
  BY DEF Statements
<1>2. NoRow.op = "none" /\ "none" \notin Ops
  BY DEF NoRow, Ops
<1>3. QED
  BY <1>1, <1>2

\* Events that were taken stay taken, so a statement that fits goes on fitting.
LEMMA FitsOn ==
  ASSUME sent \in Nat, others \in Nat, sent' \in Nat, others' \in Nat,
         sent <= sent', others <= others',
         \A e \in 1 .. sent : e \in Elems(queue') => e \in Elems(queue)
  PROVE  \A s : Fits(s) => FitsNext(s)
<1> SUFFICES ASSUME NEW s, Fits(s) PROVE FitsNext(s)
  OBVIOUS
<1>1. 1 .. sent \subseteq 1 .. sent' /\ 1 .. others \subseteq 1 .. others'
  OBVIOUS
<1>2. QED
  BY <1>1 DEF Fits, FitsNext, FitsIn

LEMMA NumberedIs ==
  ASSUME NEW s, Fits(s), Numbered(s)
  PROVE  s.value \in 1 .. others
BY DEF Fits, FitsIn, Numbered

\* A step that touches neither the tables nor what is on its way to them.
LEMMA KeptStep ==
  ASSUME StoreInv, \A s : Fits(s) => FitsNext(s), wq' = wq, wbatch' = wbatch, row' = row,
         StoreTypeOK', wpc' # "execute" => wbatch = <<>>
  PROVE  StoreInv'
<1>1. StatementsFit /\ InTurn
  BY DEF StoreInv
<1>2. StatementsFit'
  BY <1>1 DEF StatementsFit, Found, Fits, FitsNext
<1>3. InTurn'
  BY <1>1 DEF InTurn, Found, Numbered
<1>4. QED
  BY <1>2, <1>3 DEF StoreInv

\* _enqueue
LEMMA EnqueueStep ==
  ASSUME StoreInv, \A s : Fits(s) => FitsNext(s), NEW op, NEW k, NEW v, Enqueue(op, k, v),
         [op |-> op, key |-> k, value |-> v] \in Statements,
         FitsNext([op |-> op, key |-> k, value |-> v]),
         others \in Nat,
         Numbered([op |-> op, key |-> k, value |-> v]) => v \in Nat /\ others < v
  PROVE  StoreInv'
<1> DEFINE st == [op |-> op, key |-> k, value |-> v]
<1>1. StoreTypeOK /\ StatementsFit /\ InTurn /\ (wpc # "execute" => wbatch = <<>>)
  BY DEF StoreInv
<1>2. /\ wq' = IF Room THEN Append(wq, st) ELSE wq
      /\ row' = row /\ expired' = expired /\ wbatch' = wbatch /\ wpc' = wpc
      /\ shut' = shut /\ conn' = conn
  BY DEF Enqueue
<1>3. st \in Statements /\ FitsNext(st) /\ st.value = v
  OBVIOUS
<1>4. wq \in Seq(Statements) /\ Len(wq) \in Nat
  BY <1>1, ElemsIn DEF StoreTypeOK
<1>5. Numbered(st) => v \in Nat /\ others < v
  OBVIOUS
<1> HIDE DEF st
<1>6. CASE ~Room
  <2>1. StoreTypeOK'
    BY <1>1, <1>2, <1>6 DEF StoreTypeOK
  <2>2. QED
    BY <1>1, <1>2, <1>6, <2>1, KeptStep
<1>7. CASE Room
  <2>1. /\ wq' \in Seq(Statements) /\ Len(wq') = Len(wq) + 1 /\ wq'[Len(wq) + 1] = st
        /\ \A i \in 1 .. Len(wq) : wq'[i] = wq[i]
    BY <1>2, <1>3, <1>4, <1>7, AppendIs
  <2>2. Len(wq') <= QueueSize
    BY <1>4, <1>7, <2>1, PyStoreAssumption DEF Room
  <2>3. \A i \in 1 .. Len(wq') : i = Len(wq) + 1 \/ i \in 1 .. Len(wq)
    BY <1>4, <2>1
  <2>4. StoreTypeOK'
    BY <1>1, <1>2, <2>1, <2>2 DEF StoreTypeOK
  <2>5. StatementsFit'
    <3>1. \A i \in 1 .. Len(wq') : FitsNext(wq'[i])
      BY <1>1, <1>3, <2>1, <2>3 DEF StatementsFit
    <3>2. \A i \in 1 .. Len(wbatch) : FitsNext(wbatch[i])
      BY <1>1 DEF StatementsFit
    <3>3. \A c \in Keys : row[c] # NoRow =>
            row[c].key = c /\ row[c].op # "cleanup" /\ FitsNext(row[c])
      BY <1>1 DEF StatementsFit, Found
    <3>4. QED
      BY <1>2, <3>1, <3>2, <3>3 DEF StatementsFit, Found, Fits, FitsNext
  <2>6. ASSUME NEW s, Fits(s), Numbered(s), Numbered(st) PROVE s.value < st.value
    <3>1. s.value \in 1 .. others
      BY <2>6, NumberedIs
    <3>2. v \in Nat /\ others < v
      BY <1>5, <2>6
    <3>3. QED
      BY <1>3, <3>1, <3>2
  <2>7. InTurn'
    <3>1. ASSUME NEW i \in 1 .. Len(wq'), NEW j \in 1 .. Len(wq'), i < j,
                 Numbered(wq'[i]), Numbered(wq'[j])
          PROVE  wq'[i].value < wq'[j].value
      <4>1. i \in 1 .. Len(wq)
        BY <1>4, <2>1, <3>1
      <4>2. CASE j \in 1 .. Len(wq)
        BY <1>1, <2>1, <3>1, <4>1, <4>2 DEF InTurn
      <4>3. CASE j = Len(wq) + 1
        BY <1>1, <2>1, <2>6, <3>1, <4>1, <4>3 DEF StatementsFit
      <4>4. QED
        BY <2>3, <4>2, <4>3
    <3>2. ASSUME NEW i \in 1 .. Len(wbatch), NEW j \in 1 .. Len(wq'),
                 Numbered(wbatch[i]), Numbered(wq'[j])
          PROVE  wbatch[i].value < wq'[j].value
      <4>1. CASE j \in 1 .. Len(wq)
        BY <1>1, <2>1, <3>2, <4>1 DEF InTurn
      <4>2. CASE j = Len(wq) + 1
        BY <1>1, <2>1, <2>6, <3>2, <4>2 DEF StatementsFit
      <4>3. QED
        BY <2>3, <4>1, <4>2
    <3>3. ASSUME NEW c \in Keys, row[c] # NoRow, Numbered(row[c])
          PROVE  /\ \A i \in 1 .. Len(wbatch) :
                      Numbered(wbatch[i]) => row[c].value < wbatch[i].value
                 /\ \A i \in 1 .. Len(wq') : Numbered(wq'[i]) => row[c].value < wq'[i].value
      <4>1. \A i \in 1 .. Len(wbatch) :
              Numbered(wbatch[i]) => row[c].value < wbatch[i].value
        BY <1>1, <3>3 DEF InTurn, Found
      <4>2. ASSUME NEW i \in 1 .. Len(wq'), Numbered(wq'[i]) PROVE row[c].value < wq'[i].value
        <5>1. CASE i \in 1 .. Len(wq)
          BY <1>1, <2>1, <3>3, <4>2, <5>1 DEF InTurn, Found
        <5>2. CASE i = Len(wq) + 1
          <6>1. Fits(row[c])
            BY <1>1, <3>3 DEF StatementsFit, Found
          <6>2. QED
            BY <2>1, <2>6, <3>3, <4>2, <5>2, <6>1
        <5>3. QED
          BY <2>3, <5>1, <5>2
      <4>3. QED
        BY <4>1, <4>2
    <3>4. \A i, j \in 1 .. Len(wbatch) :
            i < j /\ Numbered(wbatch[i]) /\ Numbered(wbatch[j])
              => wbatch[i].value < wbatch[j].value
      BY <1>1 DEF InTurn
    <3>5. QED
      BY <1>2, <3>1, <3>2, <3>3, <3>4 DEF InTurn, Found, Numbered
  <2>8. QED
    BY <1>1, <1>2, <2>4, <2>5, <2>7 DEF StoreInv
<1>8. QED
  BY <1>6, <1>7

\* What may have changed in the buffer as one of its threads, or a writer, steps.
LEMMA FitsAfter ==
  ASSUME BufferInv, [Next]_vars
  PROVE  \A s : Fits(s) => FitsNext(s)
<1>1. BufferTypes /\ CountTypes /\ sent \in Nat /\ others \in Nat
  BY PyTelemetryAssumption DEF BufferInv, CountTypes
<1>2. BufferInv' /\ CountTypes' /\ sent' \in Nat /\ others' \in Nat
  BY BufferStep, PyTelemetryAssumption DEF BufferInv, CountTypes
<1>3. queue \in Seq(1 .. sent)
  BY <1>1 DEF BufferTypes
<1>4. \/ sent' = sent /\ others' = others /\ queue' = queue
      \/ sent' = sent + 1 /\ others' = others /\ Send
      \/ sent' = sent /\ others' = others + 1 /\ queue' = queue
      \/ sent' = sent /\ others' = others /\ queue' = Tail(queue) /\ queue # <<>>
  <2>1. CASE Send
    BY <2>1 DEF Send
  <2>2. CASE OtherWrite
    BY <2>2, OtherWriteIs
  <2>3. ASSUME NEW t \in Threads, Work(t)
        PROVE  sent' = sent /\ others' = others
               /\ (queue' = queue \/ (queue' = Tail(queue) /\ queue # <<>>))
    <3>1. Take(t) => sent' = sent /\ others' = others /\ queue' = Tail(queue) /\ queue # <<>>
      BY DEF Take, Remove
    <3>2. Drained(t) => sent' = sent /\ others' = others /\ queue' = queue
      BY DEF Drained
    <3>3. StoreEvent(t) => sent' = sent /\ others' = others /\ queue' = queue
      BY DEF StoreEvent
    <3>4. FlushOk(t) => sent' = sent /\ others' = others /\ queue' = queue
      BY DEF FlushOk
    <3>5. Count(t) => sent' = sent /\ others' = others /\ queue' = queue
      BY DEF Count
    <3>6. FlushFails(t) => sent' = sent /\ others' = others /\ queue' = queue
      BY DEF FlushFails
    <3>7. QED
      BY <2>3, <3>1, <3>2, <3>3, <3>4, <3>5, <3>6 DEF Work
  <2>4. CASE Wake \/ Stop \/ Join \/ UNCHANGED bufferVars \/ UNCHANGED vars
    BY <2>4 DEF Wake, Stop, Join, bufferVars, vars
  <2>5. \/ Send \/ OtherWrite \/ \E t \in Threads : Work(t)
        \/ Wake \/ Stop \/ Join \/ UNCHANGED bufferVars \/ UNCHANGED vars
    BY DEF Next, Flusher, Stopper, Threads
  <2>6. QED
    BY <2>1, <2>2, <2>3, <2>4, <2>5
<1>5. sent <= sent' /\ others <= others'
  BY <1>1, <1>4
<1>6. \A e \in 1 .. sent : e \in Elems(queue') => e \in Elems(queue)
  <2>1. CASE queue' = queue
    BY <2>1
  <2>2. CASE queue' = Tail(queue) /\ queue # <<>>
    BY <1>3, <2>2, TailIs
  <2>3. CASE Send /\ sent' = sent + 1
    <3>1. CASE queue' = Append(queue, sent')
      <4>1. 1 .. sent \subseteq 1 .. sent' /\ sent' \in 1 .. sent' /\ sent' \notin 1 .. sent
        BY <1>1, <2>3
      <4>2. queue \in Seq(1 .. sent')
        BY <1>3, <4>1, SeqMonotonic
      <4>3. Elems(queue') = Elems(queue) \cup {sent'}
        BY <3>1, <4>1, <4>2, AppendIs
      <4>4. QED
        BY <4>1, <4>3
    <3>2. CASE queue' = queue
      BY <3>2
    <3>3. QED
      BY <2>3, <3>1, <3>2 DEF Send
  <2>4. QED
    BY <1>4, <2>1, <2>2, <2>3
<1>7. QED
  BY <1>1, <1>2, <1>5, <1>6, FitsOn

LEMMA StoreEventStoreStep ==
  ASSUME IInv, \A s : Fits(s) => FitsNext(s), NEW t \in Threads, StoreEvent(t),
         ~UNCHANGED storeVars
  PROVE  StoreInv'
<1> DEFINE e == batch[t][next'[t]]
<1>1. /\ BufferTypes /\ ThreadTypes /\ CountTypes /\ Ordered /\ StoreInv
      /\ sent \in Nat /\ others \in Nat
  BY PyTelemetryAssumption DEF IInv, BufferInv, CountTypes
<1>2. /\ next[t] < Len(batch[t]) /\ next' = [next EXCEPT ![t] = @ + 1]
      /\ Enqueue("replace", e, e)
      /\ queue' = queue /\ sent' = sent /\ others' = others
  BY DEF StoreEvent, Replace
<1>3. next'[t] \in 1 .. Len(batch[t])
  <2>1. next[t] \in Nat /\ Len(batch[t]) \in Nat /\ next'[t] = next[t] + 1
    BY <1>1, <1>2, PendingIs DEF ThreadTypes
  <2>2. QED
    BY <1>2, <2>1
<1>4. e \in Elems(batch[t]) /\ e \in 1 .. sent
  BY <1>1, <1>3, PendingIs, ElemsIn
<1> HIDE DEF e
<1>5. e \notin Elems(queue)
  BY <1>1, <1>4, TakenIsOlder
<1>6. e \in Events /\ e \in Keys /\ e \in Values
  <2>1. sent <= MaxEvents
    BY <1>1, PyTelemetryAssumption DEF CountTypes
  <2>2. e \in 1 .. MaxEvents
    BY <1>1, <1>4, <2>1, PyTelemetryAssumption
  <2>3. QED
    BY <2>2, PyTelemetryAssumption DEF Events
<1> DEFINE st == [op |-> "replace", key |-> e, value |-> e]
<1>7. st \in Statements
  BY <1>6 DEF Statements, Ops
<1>8. FitsNext(st)
  BY <1>2, <1>4, <1>5, <1>6 DEF FitsNext, FitsIn
<1>9. ~Numbered(st)
  BY <1>6 DEF Numbered
<1>10. QED
  BY <1>1, <1>2, <1>7, <1>8, <1>9, EnqueueStep

LEMMA OtherWriteStoreStep ==
  ASSUME IInv, \A s : Fits(s) => FitsNext(s), OtherWrite
  PROVE  StoreInv'
<1>1. CountTypes /\ StoreInv /\ sent \in Nat /\ others \in Nat
  BY PyTelemetryAssumption DEF IInv, BufferInv, CountTypes
<1>2. others' = others + 1 /\ sent + others < MaxEvents
  BY OtherWriteIs
<1>3. others' \in Nat /\ others < others' /\ others' \in 1 .. others' /\ others' \in 1 .. MaxEvents
  BY <1>1, <1>2, PyTelemetryAssumption
<1>4. others' \in Values /\ others' \in Keys
  BY <1>3, PyTelemetryAssumption DEF Events
<1>5. ASSUME NEW k \in Keys \ Events, NEW op \in {"replace", "update"},
             Enqueue(op, k, others')
      PROVE  StoreInv'
  <2> DEFINE st == [op |-> op, key |-> k, value |-> others']
  <2>1. st \in Statements
    BY <1>4 DEF Statements, Ops
  <2>2. FitsNext(st)
    BY <1>3 DEF FitsNext, FitsIn
  <2>3. QED
    BY <1>1, <1>3, <1>5, <2>1, <2>2, EnqueueStep
<1>6. CASE Cleanup
  <2> DEFINE c == CHOOSE k \in Keys : TRUE
             v == CHOOSE x \in Values : TRUE
             st == [op |-> "cleanup", key |-> c, value |-> v]
  <2>1. Enqueue("cleanup", c, v)
    BY <1>6 DEF Cleanup
  <2>2. c \in Keys /\ v \in Values
    BY <1>4
  <2> HIDE DEF c, v
  <2>3. st \in Statements
    BY <2>2 DEF Statements, Ops
  <2>4. FitsNext(st) /\ ~Numbered(st)
    BY DEF FitsNext, FitsIn, Numbered
  <2>5. QED
    BY <1>1, <2>1, <2>3, <2>4, EnqueueStep
<1>7. QED
  BY <1>5, <1>6 DEF OtherWrite, Replace, Deactivate

LEMMA TakeBatchStep ==
  ASSUME StoreInv, \A s : Fits(s) => FitsNext(s), TakeBatch
  PROVE  StoreInv'
<1> DEFINE m == Upto(WriteBatch, wq)
<1>1. StoreTypeOK /\ StatementsFit /\ InTurn /\ (wpc # "execute" => wbatch = <<>>)
  BY DEF StoreInv
<1>2. /\ wpc = "get" /\ wq # <<>> /\ wbatch' = SubSeq(wq, 1, m)
      /\ wq' = SubSeq(wq, m + 1, Len(wq)) /\ wpc' = "execute"
      /\ row' = row /\ expired' = expired /\ shut' = shut /\ conn' = conn
  BY DEF TakeBatch
<1>3. /\ wq \in Seq(Statements) /\ Len(wq) \in Nat /\ Len(wq) >= 1
      /\ \A i \in 1 .. Len(wq) : wq[i] \in Statements
  BY <1>1, <1>2, ElemsIn, TailIs DEF StoreTypeOK
<1>4. m \in Nat /\ 1 <= m /\ m <= Len(wq) /\ m <= WriteBatch
  BY <1>3, PyStoreAssumption DEF Upto
<1> HIDE DEF m
<1>5. /\ wbatch' \in Seq(Statements) /\ Len(wbatch') = m
      /\ \A i \in 1 .. m : wbatch'[i] = wq[i] /\ i \in 1 .. Len(wq)
  <2>1. \A i \in 1 .. m : wq[i] \in Statements /\ i \in 1 .. Len(wq)
    BY <1>3, <1>4
  <2>2. /\ SubSeq(wq, 1, m) \in Seq(Statements)
        /\ Len(SubSeq(wq, 1, m)) = IF 1 <= m THEN m - 1 + 1 ELSE 0
        /\ \A i \in 1 .. m - 1 + 1 : SubSeq(wq, 1, m)[i] = wq[1 + i - 1]
    BY <1>4, <2>1, SubSeqProperties
  <2>3. m - 1 + 1 = m /\ \A i \in 1 .. m : 1 + i - 1 = i
    BY <1>4
  <2>4. QED
    BY <1>2, <1>4, <2>1, <2>2, <2>3
<1>6. /\ wq' \in Seq(Statements) /\ Len(wq') = Len(wq) - m
      /\ \A i \in 1 .. Len(wq) - m : wq'[i] = wq[i + m] /\ i + m \in 1 .. Len(wq) /\ m < i + m
  <2>1. \A i \in m + 1 .. Len(wq) : wq[i] \in Statements
    BY <1>3, <1>4
  <2>2. /\ SubSeq(wq, m + 1, Len(wq)) \in Seq(Statements)
        /\ Len(SubSeq(wq, m + 1, Len(wq)))
             = IF m + 1 <= Len(wq) THEN Len(wq) - (m + 1) + 1 ELSE 0
        /\ \A i \in 1 .. Len(wq) - (m + 1) + 1 :
             SubSeq(wq, m + 1, Len(wq))[i] = wq[(m + 1) + i - 1]
    BY <1>3, <1>4, <2>1, SubSeqProperties
  <2>3. /\ (IF m + 1 <= Len(wq) THEN Len(wq) - (m + 1) + 1 ELSE 0) = Len(wq) - m
        /\ Len(wq) - (m + 1) + 1 = Len(wq) - m
        /\ \A i \in 1 .. Len(wq) - m :
             (m + 1) + i - 1 = i + m /\ i + m \in 1 .. Len(wq) /\ m < i + m
    BY <1>3, <1>4
  <2>4. QED
    BY <1>2, <2>2, <2>3
<1>7. StoreTypeOK'
  <2>1. Len(wq') <= QueueSize /\ Len(wbatch') <= WriteBatch
    BY <1>1, <1>3, <1>4, <1>5, <1>6, PyStoreAssumption DEF StoreTypeOK
  <2>2. QED
    BY <1>1, <1>2, <1>5, <1>6, <2>1 DEF StoreTypeOK
<1>8. StatementsFit'
  <2>1. \A i \in 1 .. Len(wq) : FitsNext(wq[i])
    BY <1>1 DEF StatementsFit
  <2>2. \A i \in 1 .. Len(wbatch') : FitsNext(wbatch'[i])
    BY <1>5, <2>1
  <2>3. \A i \in 1 .. Len(wq') : FitsNext(wq'[i])
    BY <1>6, <2>1
  <2>4. \A k \in Keys : row[k] # NoRow =>
          row[k].key = k /\ row[k].op # "cleanup" /\ FitsNext(row[k])
    BY <1>1 DEF StatementsFit, Found
  <2>5. QED
    BY <1>2, <2>2, <2>3, <2>4 DEF StatementsFit, Found, Fits, FitsNext
<1>9. InTurn'
  <2>1. ASSUME NEW i \in 1 .. m, NEW j \in 1 .. m, i < j,
               Numbered(wbatch'[i]), Numbered(wbatch'[j])
        PROVE  wbatch'[i].value < wbatch'[j].value
    BY <1>1, <1>5, <2>1 DEF InTurn
  <2>2. ASSUME NEW i \in 1 .. Len(wq) - m, NEW j \in 1 .. Len(wq) - m, i < j,
               Numbered(wq'[i]), Numbered(wq'[j])
        PROVE  wq'[i].value < wq'[j].value
    <3>1. i + m < j + m
      BY <1>3, <1>4, <2>2
    <3>2. QED
      BY <1>1, <1>6, <2>2, <3>1 DEF InTurn
  <2>3. ASSUME NEW i \in 1 .. m, NEW j \in 1 .. Len(wq) - m,
               Numbered(wbatch'[i]), Numbered(wq'[j])
        PROVE  wbatch'[i].value < wq'[j].value
    <3>1. i < j + m
      BY <1>3, <1>4, <2>3
    <3>2. QED
      BY <1>1, <1>5, <1>6, <2>3, <3>1 DEF InTurn
  <2>4. ASSUME NEW k \in Keys, row[k] # NoRow, Numbered(row[k])
        PROVE  /\ \A i \in 1 .. m : Numbered(wbatch'[i]) => row[k].value < wbatch'[i].value
               /\ \A i \in 1 .. Len(wq) - m :
                    Numbered(wq'[i]) => row[k].value < wq'[i].value
    <3>1. \A i \in 1 .. Len(wq) : Numbered(wq[i]) => row[k].value < wq[i].value
      BY <1>1, <2>4 DEF InTurn, Found
    <3>2. QED
      BY <1>5, <1>6, <3>1
  <2>5. QED
    BY <1>2, <1>5, <1>6, <2>1, <2>2, <2>3, <2>4 DEF InTurn, Found, Numbered
<1>10. QED
  BY <1>2, <1>7, <1>8, <1>9 DEF StoreInv

\* The rest of the batch is given up.
LEMMA AbandonStep ==
  ASSUME StoreInv, \A s : Fits(s) => FitsNext(s), Abandon
  PROVE  StoreInv'
<1>1. StoreTypeOK /\ StatementsFit /\ InTurn
  BY DEF StoreInv
<1>2. /\ wbatch' = <<>> /\ wpc' \in {"get", "done"} /\ wq' = wq
      /\ row' = row /\ expired' = expired /\ shut' = shut /\ conn' = conn
  BY DEF Abandon, Again
<1>3. <<>> \in Seq(Statements) /\ Len(<<>>) = 0 /\ \A i \in 1 .. 0 : FALSE
  BY EmptySeq
<1>4. StoreTypeOK'
  BY <1>1, <1>2, <1>3, PyStoreAssumption DEF StoreTypeOK
<1>5. StatementsFit'
  BY <1>1, <1>2, <1>3 DEF StatementsFit, Found, Fits, FitsNext
<1>6. InTurn'
  BY <1>1, <1>2, <1>3 DEF InTurn, Found, Numbered
<1>7. QED
  BY <1>2, <1>4, <1>5, <1>6 DEF StoreInv

\* What a statement does to a row: nothing, drop it for its age, or take its place.
LEMMA ExecuteIs ==
  ASSUME StoreInv, Execute
  PROVE  /\ Head(wbatch) = wbatch[1] /\ Head(wbatch) \in Statements /\ Fits(Head(wbatch))
         /\ 1 \in 1 .. Len(wbatch) /\ Len(wbatch) \in Nat
         /\ row' \in [Keys -> Statements \cup {NoRow}] /\ expired' \subseteq Addresses
         /\ wq' = wq /\ shut' = shut /\ conn' = conn /\ wpc' = wpc /\ wpc = "execute"
         /\ wbatch' \in Seq(Statements) /\ Len(wbatch') = Len(wbatch) - 1
         /\ \A i \in 1 .. Len(wbatch) - 1 : wbatch'[i] = wbatch[i + 1]
         /\ \A k \in Keys : \/ row'[k] = row[k]
                            \/ row'[k] = NoRow /\ k \in expired
                            \/ /\ row'[k] = Head(wbatch) /\ Head(wbatch).key = k
                               /\ Head(wbatch).op # "cleanup"
<1> DEFINE s == Head(wbatch)
<1>1. StoreTypeOK /\ StatementsFit
  BY DEF StoreInv
<1>2. /\ wpc = "execute" /\ wbatch # <<>> /\ row' = After(s) /\ wbatch' = Tail(wbatch)
      /\ wq' = wq /\ wpc' = wpc /\ shut' = shut /\ conn' = conn
      /\ expired' = CASE s.op = "replace" -> expired \ {s.key}
                      [] s.op = "update"  -> expired
                      [] s.op = "cleanup" -> {}
  BY DEF Execute
<1>3. /\ s = wbatch[1] /\ s \in Statements /\ Tail(wbatch) \in Seq(Statements)
      /\ Len(wbatch) \in Nat /\ Len(wbatch) >= 1 /\ Len(Tail(wbatch)) = Len(wbatch) - 1
      /\ \A i \in 1 .. Len(wbatch) - 1 : Tail(wbatch)[i] = wbatch[i + 1]
  BY <1>1, <1>2, TailIs DEF StoreTypeOK
<1> HIDE DEF s
<1>4. 1 \in 1 .. Len(wbatch)
  BY <1>3
<1>5. Fits(s)
  BY <1>1, <1>3, <1>4 DEF StatementsFit
<1>6. s.op \in {"replace", "update", "cleanup"} /\ s.key \in Keys
  BY <1>3, StatementIs DEF Ops
<1>7. row \in [Keys -> Statements \cup {NoRow}] /\ expired \subseteq Addresses
  BY <1>1 DEF StoreTypeOK
<1>8. expired' \subseteq Addresses
  BY <1>2, <1>6, <1>7
<1>9. /\ row' \in [Keys -> Statements \cup {NoRow}]
      /\ \A k \in Keys : \/ row'[k] = row[k]
                         \/ row'[k] = NoRow /\ k \in expired
                         \/ row'[k] = s /\ s.key = k /\ s.op # "cleanup"
  <2>1. CASE s.op = "replace"
    <3>1. row' = [row EXCEPT ![s.key] = s]
      BY <1>2, <2>1 DEF After
    <3>2. QED
      BY <1>3, <1>6, <1>7, <2>1, <3>1
  <2>2. CASE s.op = "update"
    <3>1. row' = [row EXCEPT ![s.key] = s] \/ row' = row
      BY <1>2, <2>2 DEF After
    <3>2. QED
      BY <1>3, <1>6, <1>7, <2>2, <3>1
  <2>3. CASE s.op = "cleanup"
    <3>1. row' = [k \in Keys |-> IF k \in expired THEN NoRow ELSE row[k]]
      BY <1>2, <2>3 DEF After
    <3>2. QED
      BY <1>7, <3>1
  <2>4. QED
    BY <1>6, <2>1, <2>2, <2>3
<1>10. QED
  BY <1>2, <1>3, <1>4, <1>5, <1>8, <1>9 DEF s

LEMMA ExecuteStep ==
  ASSUME StoreInv, \A s : Fits(s) => FitsNext(s), Execute
  PROVE  StoreInv'
<1> DEFINE s == Head(wbatch)
           n == Len(wbatch) - 1
<1>1. StoreTypeOK /\ StatementsFit /\ InTurn
  BY DEF StoreInv
<1>2. /\ s = wbatch[1] /\ s \in Statements /\ Fits(s)
      /\ 1 \in 1 .. Len(wbatch) /\ Len(wbatch) \in Nat
      /\ row' \in [Keys -> Statements \cup {NoRow}] /\ expired' \subseteq Addresses
      /\ wq' = wq /\ shut' = shut /\ conn' = conn /\ wpc' = wpc /\ wpc = "execute"
      /\ wbatch' \in Seq(Statements) /\ Len(wbatch') = n
      /\ \A i \in 1 .. n : wbatch'[i] = wbatch[i + 1]
      /\ \A k \in Keys : \/ row'[k] = row[k]
                         \/ row'[k] = NoRow /\ k \in expired
                         \/ row'[k] = s /\ s.key = k /\ s.op # "cleanup"
  BY ExecuteIs
<1> HIDE DEF s
<1>3. \A i \in 1 .. n : i + 1 \in 1 .. Len(wbatch) /\ 1 < i + 1
  BY <1>2
<1>4. StoreTypeOK'
  <2>1. Len(wbatch') <= WriteBatch
    BY <1>1, <1>2, PyStoreAssumption DEF StoreTypeOK
  <2>2. QED
    BY <1>1, <1>2, <2>1 DEF StoreTypeOK
<1> HIDE DEF n
<1>5. StatementsFit'
  <2>1. \A i \in 1 .. n : FitsNext(wbatch'[i])
    BY <1>1, <1>2, <1>3 DEF StatementsFit
  <2>2. \A i \in 1 .. Len(wq) : FitsNext(wq[i])
    BY <1>1 DEF StatementsFit
  <2>3. ASSUME NEW k \in Keys, row'[k] # NoRow
        PROVE  row'[k].key = k /\ row'[k].op # "cleanup" /\ FitsNext(row'[k])
    <3>1. CASE row'[k] = row[k]
      BY <1>1, <2>3, <3>1 DEF StatementsFit, Found
    <3>2. CASE row'[k] = s /\ s.key = k /\ s.op # "cleanup"
      BY <1>2, <3>2
    <3>3. QED
      BY <1>2, <2>3, <3>1, <3>2
  <2>4. QED
    BY <1>2, <2>1, <2>2, <2>3 DEF StatementsFit, Found, Fits, FitsNext
<1>6. InTurn'
  <2>1. ASSUME NEW i \in 1 .. n, NEW j \in 1 .. n, i < j,
               Numbered(wbatch'[i]), Numbered(wbatch'[j])
        PROVE  wbatch'[i].value < wbatch'[j].value
    <3> DEFINE a == i + 1
               b == j + 1
    <3>1. a < b
      BY <1>2, <2>1 DEF n
    <3>2. a \in 1 .. Len(wbatch) /\ b \in 1 .. Len(wbatch)
      BY <1>3
    <3>3. wbatch'[i] = wbatch[a] /\ wbatch'[j] = wbatch[b]
      BY <1>2
    <3> HIDE DEF a, b
    <3>4. QED
      BY <1>1, <2>1, <3>1, <3>2, <3>3 DEF InTurn
  <2>2. ASSUME NEW i \in 1 .. n, NEW j \in 1 .. Len(wq), Numbered(wbatch'[i]), Numbered(wq[j])
        PROVE  wbatch'[i].value < wq[j].value
    <3> DEFINE a == i + 1
    <3>1. a \in 1 .. Len(wbatch) /\ wbatch'[i] = wbatch[a]
      BY <1>2, <1>3
    <3> HIDE DEF a
    <3>2. QED
      BY <1>1, <2>2, <3>1 DEF InTurn
  <2>3. ASSUME NEW k \in Keys, row'[k] # NoRow, Numbered(row'[k])
        PROVE  /\ \A i \in 1 .. n : Numbered(wbatch'[i]) => row'[k].value < wbatch'[i].value
               /\ \A i \in 1 .. Len(wq) : Numbered(wq[i]) => row'[k].value < wq[i].value
    <3>1. CASE row'[k] = row[k]
      <4>1. /\ \A i \in 1 .. Len(wbatch) : Numbered(wbatch[i]) => row[k].value < wbatch[i].value
            /\ \A i \in 1 .. Len(wq) : Numbered(wq[i]) => row[k].value < wq[i].value
        BY <1>1, <2>3, <3>1 DEF InTurn, Found
      <4>2. QED
        BY <1>2, <1>3, <3>1, <4>1
    <3>2. CASE row'[k] = s
      <4>1. Numbered(wbatch[1]) /\ row'[k] = wbatch[1]
        BY <1>2, <2>3, <3>2
      <4>2. \A i \in 1 .. n : Numbered(wbatch[i + 1]) => wbatch[1].value < wbatch[i + 1].value
        BY <1>1, <1>2, <1>3, <4>1 DEF InTurn
      <4>3. \A i \in 1 .. Len(wq) : Numbered(wq[i]) => wbatch[1].value < wq[i].value
        BY <1>1, <1>2, <4>1 DEF InTurn
      <4>4. QED
        BY <1>2, <4>1, <4>2, <4>3
    <3>3. QED
      BY <1>2, <2>3, <3>1, <3>2
  <2>4. \A i, j \in 1 .. Len(wq) :
          i < j /\ Numbered(wq[i]) /\ Numbered(wq[j]) => wq[i].value < wq[j].value
    BY <1>1 DEF InTurn
  <2>5. QED
    BY <1>2, <2>1, <2>2, <2>3, <2>4 DEF InTurn, Found, Numbered
<1>7. QED
  BY <1>2, <1>4, <1>5, <1>6 DEF StoreInv

LEMMA StoreStep ==
  ASSUME IInv, [Next]_vars
  PROVE  StoreInv'
<1>1. \A s : Fits(s) => FitsNext(s)
  BY FitsAfter DEF IInv
<1>2. StoreInv /\ StoreTypeOK /\ (wpc # "execute" => wbatch = <<>>)
  BY DEF IInv, StoreInv
<1>3. CASE UNCHANGED storeVars
  <2>1. /\ wq' = wq /\ wbatch' = wbatch /\ row' = row /\ wpc' = wpc
        /\ expired' = expired /\ shut' = shut /\ conn' = conn
    BY <1>3 DEF storeVars
  <2>2. StoreTypeOK'
    BY <1>2, <2>1 DEF StoreTypeOK
  <2>3. QED
    BY <1>1, <1>2, <2>1, <2>2, KeptStep
<1>4. CASE OtherWrite
  BY <1>1, <1>4, OtherWriteStoreStep
<1>5. ASSUME NEW t \in Threads, Work(t) PROVE StoreInv'
  <2>1. CASE StoreEvent(t)
    BY <1>1, <1>3, <2>1, StoreEventStoreStep
  <2>2. CASE Take(t) \/ Drained(t) \/ FlushOk(t) \/ Count(t) \/ FlushFails(t)
    BY <1>3, <2>2 DEF Take, Drained, FlushOk, Count, FlushFails, storeVars
  <2>3. QED
    BY <1>5, <2>1, <2>2 DEF Work
<1>6. CASE Send \/ Wake \/ Stop \/ Join \/ UNCHANGED vars
  BY <1>3, <1>6 DEF Send, Wake, Stop, Join, vars, storeVars
<1>7. CASE Execute
  BY <1>1, <1>2, <1>7, ExecuteStep
<1>8. CASE TakeBatch
  BY <1>1, <1>2, <1>8, TakeBatchStep
<1>9. CASE Abandon
  BY <1>1, <1>2, <1>9, AbandonStep
<1>10. CASE GetTimeout \/ Commit
  <2>1. /\ wq' = wq /\ wbatch' = wbatch /\ row' = row /\ wpc' \in {"get", "done"}
        /\ expired' = expired /\ shut' = shut /\ conn' = conn
    BY <1>10 DEF GetTimeout, Commit, Again
  <2>2. wbatch = <<>>
    BY <1>2, <1>10 DEF GetTimeout, Commit
  <2>3. StoreTypeOK'
    BY <1>2, <2>1 DEF StoreTypeOK
  <2>4. QED
    BY <1>1, <1>2, <2>1, <2>2, <2>3, KeptStep
<1>11. CASE BeginClose \/ EndClose \/ \E k \in Keys : Expire(k)
  <2>1. /\ wq' = wq /\ wbatch' = wbatch /\ row' = row /\ wpc' = wpc
        /\ expired' \subseteq Addresses
        /\ shut' \in BOOLEAN /\ conn' \in {"open", "closed"}
    BY <1>2, <1>11 DEF BeginClose, EndClose, Expire, StoreTypeOK
  <2>2. StoreTypeOK'
    BY <1>2, <2>1 DEF StoreTypeOK
  <2>3. QED
    BY <1>1, <1>2, <2>1, <2>2, KeptStep
<1>12. QED
  BY <1>4, <1>5, <1>6, <1>7, <1>8, <1>9, <1>10, <1>11
     DEF Next, Flusher, Stopper, Threads, Writer
-----------------------------------------------------------------------------
(* The inductive invariant *)

LEMMA InitBuffer ==
  ASSUME Init
  PROVE  BufferInv
<1>1. /\ queue = <<>> /\ offered = <<>> /\ owed = <<>>
      /\ batch = [t \in Threads |-> <<>>]
      /\ pc = [flusher |-> "drain", stop |-> "idle"]
      /\ next = [t \in Threads |-> 0] /\ seen = [t \in Threads |-> 0]
      /\ shutdown = FALSE /\ hurried = FALSE
      /\ flushed = 0 /\ dropped = 0 /\ sent = 0 /\ others = 0 /\ delivered = 0
  BY DEF Init
<1>2. /\ pc \in [Threads -> Places] /\ pc["flusher"] = "drain" /\ pc["stop"] = "idle"
  BY <1>1 DEF Threads, Places
<1>3. \A t \in Threads : batch[t] = <<>> /\ next[t] = 0 /\ seen[t] = 0
  BY <1>1
<1>4. \A t \in Threads : Pending(t) = <<>>
  BY <1>3 DEF Pending
<1>5. BufferTypes
  <2>1. batch \in [Threads -> Seq(1 .. sent)]
    BY <1>1, Empty
  <2>2. QED
    BY <1>1, <1>3, <2>1, Empty, PyTelemetryAssumption DEF BufferTypes
<1>6. ThreadTypes
  <2>1. shutdown \in BOOLEAN /\ hurried \in BOOLEAN
    BY <1>1
  <2>2. next \in [Threads -> Nat] /\ seen \in [Threads -> Nat]
    BY <1>1
  <2>3. QED
    BY <1>2, <2>1, <2>2 DEF ThreadTypes
<1>7. CountTypes
  BY <1>1, PyTelemetryAssumption DEF CountTypes
<1>8. Carries
  BY <1>3, Empty DEF Carries
<1>9. Ordered
  BY <1>1, <1>3, Empty DEF Ordered, Increasing
<1>10. Apart
  BY <1>1, <1>4, Empty DEF Apart, Threads
<1>11. Adds
  <2>1. Len(Pending("flusher")) = 0 /\ Len(Pending("stop")) = 0 /\ Len(offered) = 0
        /\ Len(queue) = 0
    BY <1>1, <1>4, Empty DEF Threads
  <2>2. QED
    BY <1>1, <2>1 DEF Adds
<1>12. Counting
  BY <1>1, <1>2 DEF Counting, Threads
<1>13. Owes
  BY <1>2 DEF Owes
<1>14. QED
  BY <1>5, <1>6, <1>7, <1>8, <1>9, <1>10, <1>11, <1>12, <1>13 DEF BufferInv

LEMMA InitStore ==
  ASSUME Init
  PROVE  StoreInv
<1>1. /\ row = [k \in Keys |-> NoRow] /\ expired = {} /\ wq = <<>> /\ wbatch = <<>>
      /\ wpc = "get" /\ shut = FALSE /\ conn = "open"
  BY DEF Init, StoreInit
<1>2. <<>> \in Seq(Statements) /\ Len(<<>>) = 0 /\ \A i \in 1 .. 0 : FALSE
  BY EmptySeq
<1>3. StoreTypeOK
  <2>1. row \in [Keys -> Statements \cup {NoRow}]
    BY <1>1
  <2>2. shut \in BOOLEAN
    BY <1>1
  <2>3. Len(wq) <= QueueSize /\ Len(wbatch) <= WriteBatch
    BY <1>1, <1>2, PyStoreAssumption
  <2>4. QED
    BY <1>1, <1>2, <2>1, <2>2, <2>3 DEF StoreTypeOK
<1>4. \A k \in Keys : ~Found(k)
  BY <1>1 DEF Found
<1>5. StatementsFit
  BY <1>1, <1>2, <1>4 DEF StatementsFit
<1>6. InTurn
  BY <1>1, <1>2, <1>4 DEF InTurn
<1>7. QED
  BY <1>1, <1>3, <1>5, <1>6 DEF StoreInv

LEMMA Invariance == Spec => []IInv
<1>1. Init => IInv
  BY InitBuffer, InitStore DEF IInv
<1>2. IInv /\ [Next]_vars => IInv'
  BY BufferStep, StoreStep DEF IInv
<1>3. QED
  BY <1>1, <1>2, PTL DEF Spec
-----------------------------------------------------------------------------
(* The results *)

\* The variables have their types.
THEOREM TypeCorrect == Spec => []TypeOK
<1>1. IInv => TypeOK
  <2> SUFFICES ASSUME IInv PROVE TypeOK
    OBVIOUS
  <2>1. BufferTypes /\ ThreadTypes /\ CountTypes /\ Carries /\ StoreTypeOK
    BY DEF IInv, BufferInv, StoreInv
  <2>2. next \in [Threads -> 0 .. BatchSize]
    <3>1. ASSUME NEW t \in Threads PROVE next[t] \in 0 .. BatchSize
      <4>1. next[t] \in Nat /\ next[t] <= Len(batch[t]) /\ Len(batch[t]) <= BatchSize
            /\ Len(batch[t]) \in Nat
        BY <2>1, PendingIs DEF ThreadTypes, Carries, BufferTypes
      <4>2. QED
        BY <4>1, PyTelemetryAssumption
    <3>2. QED
      BY <2>1, <3>1 DEF ThreadTypes
  <2>3. sent \in 0 .. MaxEvents
    BY <2>1, PyTelemetryAssumption DEF CountTypes
  <2>4. /\ pc.flusher \in {"drain", "store", "count", "sleep", "done"}
        /\ pc.stop \in {"idle", "drain", "store", "count", "join", "returned"}
        /\ DOMAIN pc = Threads
    BY <2>1 DEF ThreadTypes
  <2>5. {flushed, dropped, delivered} \subseteq Nat /\ others \in 0 .. MaxOther
    BY <2>1 DEF CountTypes
  <2>6. shutdown \in BOOLEAN /\ hurried \in BOOLEAN /\ seen \in [Threads -> Nat]
    BY <2>1 DEF ThreadTypes
  <2>7. QED
    BY <2>1, <2>2, <2>3, <2>4, <2>5, <2>6 DEF TypeOK, BufferTypes
<1>2. QED
  BY <1>1, Invariance, PTL

\* An event that send took is in one place only, whatever the two threads do; no row
\* is there for an event that is still queued; and stats() counts no event as flushed that
\* flush_fn did not take.
THEOREM EventsAccountedFor == Spec => []EventsAccounted
<1>1. IInv => EventsAccounted
  <2> SUFFICES ASSUME IInv PROVE EventsAccounted
    OBVIOUS
  <2>1. /\ BufferTypes /\ ThreadTypes /\ CountTypes /\ Ordered /\ Apart /\ Adds /\ Counting
        /\ StatementsFit
    BY DEF IInv, BufferInv, StoreInv
  <2>2. sent \in Nat /\ "flusher" \in Threads /\ "stop" \in Threads
    BY <2>1 DEF CountTypes, Threads
  <2>3. \A t \in Threads : /\ Pending(t) \in Seq(1 .. sent) /\ Inj(Pending(t))
                           /\ Elems(Pending(t)) \cap Elems(queue) = {}
    <3> SUFFICES ASSUME NEW t \in Threads
                 PROVE  /\ Pending(t) \in Seq(1 .. sent) /\ Inj(Pending(t))
                        /\ Elems(Pending(t)) \cap Elems(queue) = {}
      OBVIOUS
    <3>1. Inj(Pending(t))
      BY <2>1, Empty DEF Pending, Ordered
    <3>2. QED
      BY <2>1, <3>1, PendingIs, TakenIsOlder
  <2> DEFINE places == <<offered, Pending("flusher"), Pending("stop"), queue>>
  <2>4. /\ places[1] = offered /\ places[2] = Pending("flusher")
        /\ places[3] = Pending("stop") /\ places[4] = queue
    OBVIOUS
  <2> HIDE DEF places
  <2>5. /\ Elems(places[1]) \cap Elems(places[2]) = {}
        /\ Elems(places[1]) \cap Elems(places[3]) = {}
        /\ Elems(places[1]) \cap Elems(places[4]) = {}
        /\ Elems(places[2]) \cap Elems(places[3]) = {}
        /\ Elems(places[2]) \cap Elems(places[4]) = {}
        /\ Elems(places[3]) \cap Elems(places[4]) = {}
    BY <2>1, <2>2, <2>3, <2>4 DEF Apart
  <2>6. \A i, j \in 1 .. 4 : i # j => Elems(places[i]) \cap Elems(places[j]) = {}
    <3> SUFFICES ASSUME NEW i \in 1 .. 4, NEW j \in 1 .. 4, i # j
                 PROVE  Elems(places[i]) \cap Elems(places[j]) = {}
      OBVIOUS
    <3>1. (i = 1 \/ i = 2 \/ i = 3 \/ i = 4) /\ (j = 1 \/ j = 2 \/ j = 3 \/ j = 4)
      OBVIOUS
    <3>2. QED
      BY <2>5, <3>1
  <2>7. \A i \in 1 .. 4 : Cardinality(Elems(places[i])) = Len(places[i])
    <3>1. offered \in Seq(1 .. sent) /\ Inj(offered) /\ queue \in Seq(1 .. sent)
      BY <2>1 DEF BufferTypes, Ordered
    <3>2. Inj(queue)
      BY <2>1, <2>2, <3>1, IncreasingIsInj DEF Ordered
    <3>3. /\ Cardinality(Elems(places[1])) = Len(places[1])
          /\ Cardinality(Elems(places[2])) = Len(places[2])
          /\ Cardinality(Elems(places[3])) = Len(places[3])
          /\ Cardinality(Elems(places[4])) = Len(places[4])
      BY <2>2, <2>3, <2>4, <3>1, <3>2, InjCounts
    <3>4. \A i \in 1 .. 4 : i = 1 \/ i = 2 \/ i = 3 \/ i = 4
      OBVIOUS
    <3>5. QED
      BY <3>3, <3>4
  <2>8. \A e \in Events : Found(e) => e \notin Elems(queue)
    <3> SUFFICES ASSUME NEW e \in Events, Found(e) PROVE e \notin Elems(queue)
      OBVIOUS
    <3>1. e \in Keys
      BY PyTelemetryAssumption
    <3>2. row[e].key = e /\ row[e].op # "cleanup" /\ Fits(row[e])
      BY <2>1, <3>1 DEF StatementsFit
    <3>3. QED
      BY <3>2 DEF Fits, FitsIn
  <2>9. /\ flushed <= delivered
        /\ pc.stop = "idle" =>
             flushed + (IF pc.flusher = "count" THEN Len(batch.flusher) ELSE 0) = delivered
    <3>1. flushed <= delivered /\ flushed \in Nat /\ delivered \in Nat
      BY <2>1 DEF Counting, CountTypes
    <3>2. ASSUME pc["stop"] = "idle"
          PROVE  flushed + (IF pc["flusher"] = "count" THEN Len(batch["flusher"]) ELSE 0)
                   = delivered
      <4>1. CASE pc["flusher"] = "count"
        BY <2>1, <3>2, <4>1 DEF Counting
      <4>2. CASE pc["flusher"] # "count"
        <5>1. flushed = delivered
          BY <2>1, <3>2, <4>2 DEF Counting
        <5>2. QED
          BY <3>1, <4>2, <5>1
      <4>3. QED
        BY <4>1, <4>2
    <3>3. QED
      BY <3>1, <3>2
  <2>10. Len(offered) + Len(Pending("flusher")) + Len(Pending("stop")) + Len(queue)
           + dropped = sent
    BY <2>1 DEF Adds
  <2>11. QED
    BY <2>6, <2>7, <2>8, <2>9, <2>10 DEF EventsAccounted, places
<1>2. QED
  BY <1>1, Invariance, PTL

\* When stop returns in time, all that was queued as it was called, up to a batch, has
\* been offered to flush_fn, and the flusher carries nothing.
THEOREM StopFlushes == Spec => []StopFlushesABatch
<1>1. IInv => StopFlushesABatch
  <2> SUFFICES ASSUME IInv, pc["stop"] = "returned", ~hurried, Len(owed) <= BatchSize
               PROVE  Elems(owed) \subseteq Elems(offered) /\ batch["flusher"] = <<>>
    BY DEF StopFlushesABatch
  <2>1. Carries /\ Owes /\ "flusher" \in Threads /\ "stop" \in Threads
    BY DEF IInv, BufferInv, Threads
  <2>2. pc["flusher"] = "done"
    BY <2>1 DEF Owes
  <2>3. batch["flusher"] = <<>> /\ batch["stop"] = <<>>
    BY <2>1, <2>2 DEF Carries
  <2>4. Elems(Pending("flusher")) = {} /\ Elems(Pending("stop")) = {}
    BY <2>3, Empty DEF Pending
  <2>5. Elems(owed) \subseteq Elems(offered) \cup Elems(Pending("flusher"))
                                \cup Elems(Pending("stop")) \cup {}
    BY <2>1 DEF Owes
  <2>6. QED
    BY <2>3, <2>4, <2>5
<1>2. QED
  BY <1>1, Invariance, PTL

\* A row is overwritten only by a later write, in whatever batches the two came and
\* whatever statement failed between them, and leaves only when its time is over.
THEOREM RowsWrittenInOrder == Spec => WritesInOrder
<1> DEFINE A == \A k \in Keys : row'[k] # row[k] =>
                  IF row'[k] = NoRow THEN k \in expired
                  ELSE Found(k) => row'[k].value > row[k].value
<1>1. IInv /\ [Next]_vars => [A]_storeVars
  <2> SUFFICES ASSUME IInv, [Next]_vars, storeVars' # storeVars PROVE A
    OBVIOUS
  <2>1. StoreInv /\ StatementsFit /\ InTurn
    BY DEF IInv, StoreInv
  <2>2. CASE row' = row
    BY <2>2
  <2>3. CASE Execute
    <3> SUFFICES ASSUME NEW k \in Keys, row'[k] # row[k], ~(row'[k] = NoRow /\ k \in expired)
                 PROVE  row'[k] # NoRow /\ (Found(k) => row'[k].value > row[k].value)
      OBVIOUS
    <3> DEFINE s == wbatch[1]
    <3>1. /\ s \in Statements /\ Fits(s) /\ 1 \in 1 .. Len(wbatch)
          /\ row'[k] = s /\ s.key = k /\ s.op # "cleanup"
      BY <2>1, <2>3, ExecuteIs
    <3>2. s # NoRow
      BY <3>1, StatementIs
    <3> HIDE DEF s
    <3>3. ASSUME Found(k) PROVE s.value > row[k].value
      <4>1. row[k].key = k /\ row[k].op # "cleanup" /\ Fits(row[k])
        BY <2>1, <3>3 DEF StatementsFit
      <4>2. CASE k \in Events
        <5>1. s = [op |-> "replace", key |-> k, value |-> k]
          BY <3>1, <4>2 DEF Fits, FitsIn
        <5>2. row[k] = [op |-> "replace", key |-> k, value |-> k]
          BY <4>1, <4>2 DEF Fits, FitsIn
        <5>3. QED
          BY <3>1, <5>1, <5>2
      <4>3. CASE k \notin Events
        <5>1. Numbered(s) /\ Numbered(row[k])
          BY <3>1, <4>1, <4>3 DEF Numbered
        <5>2. row[k].value < s.value
          BY <2>1, <3>1, <3>3, <5>1 DEF InTurn, s
        <5>3. row[k].value \in 1 .. others /\ s.value \in 1 .. others
          BY <3>1, <4>1, <5>1, NumberedIs
        <5>4. QED
          BY <5>2, <5>3
      <4>4. QED
        BY <4>2, <4>3
    <3>4. QED
      BY <3>1, <3>2, <3>3
  <2>4. row' = row \/ Execute
    <3>1. ASSUME NEW t \in Threads, Work(t) PROVE row' = row
      <4>1. CASE StoreEvent(t)
        BY <4>1 DEF StoreEvent, Replace, Enqueue, storeVars
      <4>2. CASE Take(t) \/ Drained(t) \/ FlushOk(t) \/ Count(t) \/ FlushFails(t)
        BY <4>2 DEF Take, Drained, FlushOk, Count, FlushFails, storeVars
      <4>3. QED
        BY <3>1, <4>1, <4>2 DEF Work
    <3>2. OtherWrite => row' = row
      BY DEF OtherWrite, Replace, Deactivate, Cleanup, Enqueue
    <3>3. Send \/ Wake \/ Stop \/ Join \/ UNCHANGED vars => row' = row
      BY DEF Send, Wake, Stop, Join, vars, storeVars
    <3>4. Writer => row' = row \/ Execute
      BY DEF Writer, GetTimeout, TakeBatch, Abandon, Commit
    <3>5. BeginClose \/ EndClose \/ (\E k \in Keys : Expire(k)) => row' = row
      BY DEF BeginClose, EndClose, Expire
    <3>6. QED
      BY <3>1, <3>2, <3>3, <3>4, <3>5 DEF Next, Flusher, Stopper, Threads
  <2>5. QED
    BY <2>2, <2>3, <2>4
<1>2. QED
  BY <1>1, Invariance, PTL DEF Spec, WritesInOrder
-----------------------------------------------------------------------------
(***************************************************************************)
(* The pipeline. Whatever a call of check records in the hash cache is     *)
(* true of the content under a type it was scanned as: malicious only if a *)
(* detector can match it then, clean only if it is not spoofed then. As    *)
(* the types a content was scanned as only get more, so are, for as long   *)
(* as they are around, all the statements in the queue and the writer's    *)
(* batch and all the rows, and what a call reads there is as good as what  *)
(* some call has scanned.                                                  *)
(***************************************************************************)

\* J[k]: the types content k was scanned as, that is judged or what it becomes.
Harm(J, k) == \E t \in J[k] : Harmful(k, t)
Honest(J, k) == \E t \in J[k] : k \notin SpoofedAs[t]

Just(J, v, k) == /\ v \in {"MALICIOUS", "CLEAN"}
                 /\ v = "MALICIOUS" => Harm(J, k)
                 /\ v = "CLEAN" => Honest(J, k)

\* The statements that tell the truth about a content.
Recorded(J) == {s \in Statements : /\ s.op = "replace" /\ s.key \in Contents
                                   /\ Just(J, s.value, s.key)}

\* The store holds such statements only.
StoreRecords == /\ wq \in Seq(Recorded(judged)) /\ wbatch \in Seq(Recorded(judged))
                /\ row \in [Keys -> Recorded(judged) \cup {NoRow}]
                /\ \A k \in Keys : Found(k) => row[k].key = k

RuleTypes == /\ mode \in {"enforce", "shadow"}
             /\ patterns \subseteq Sigs /\ rules \subseteq Marks
             /\ reload \in {"idle", "yara"} /\ reloads \in 0 .. MaxReloads

Stages == {"new", "tier1", "hash", "scan", "record", "ml", "decided", "raised"}

CallTypes == /\ req \in [Calls -> Requests]
             /\ stage \in [Calls -> Stages]
             /\ target \in [Calls -> Nat \ {0}]
             /\ found \in [Calls -> {"none", "MALICIOUS", "CLEAN"}]
             /\ decision \in [Calls -> {"none", "PERMIT", "BLOCK"}]
             /\ must \in [Calls -> SUBSET Sigs]
             /\ judged \in [Contents -> SUBSET Types]

\* What the two properties say of one request, the patterns loaded all along and the
\* decision.
JustifiedFor(J, r, d) ==
  d = "BLOCK" => /\ mode = "enforce"
                 /\ \/ r.sigs # {} \/ r.injection \/ r.anomalous
                    \/ \E i \in DOMAIN Targets(r) : Harm(J, Targets(r)[i])

Unspoofed(J, r) == Targets(r) # <<>> => Honest(J, Targets(r)[1])

DetectedFor(J, r, d, m) ==
  mode = "enforce" /\ d = "PERMIT" /\ ~r.static =>
     r.sigs \cap m = {} /\ ~r.injection /\ ~r.anomalous /\ Unspoofed(J, r)

\* What call c, at stage p, has established about its request.
SoFar(J, p, r, i, f, d, m) ==
  /\ p # "decided" => d = "none"
  /\ p \in {"new", "tier1"} => i = 1
  /\ p \in {"hash", "scan", "record", "ml"} => r.sigs \cap m = {} /\ ~r.injection
  /\ p \in {"hash", "scan", "record"} => /\ i \in 1 .. Len(Targets(r))
                                         /\ i > 1 => Unspoofed(J, r)
  /\ p = "record" => Just(J, f, Targets(r)[i])
  /\ p = "ml" => Unspoofed(J, r)
  /\ JustifiedFor(J, r, d) /\ DetectedFor(J, r, d, m)

CallInv(c) == SoFar(judged, stage[c], req[c], target[c], found[c], decision[c], must[c])

PipelineInv == /\ StoreTypeOK /\ StoreRecords /\ RuleTypes /\ CallTypes
               /\ \A c \in Calls : must[c] \subseteq patterns /\ CallInv(c)
-----------------------------------------------------------------------------
(* The store under the pipeline *)

LEMMA TargetsAre ==
  ASSUME NEW r \in Requests
  PROVE  Targets(r) \in Seq(Contents) /\ Len(Targets(r)) \in Nat
         /\ DOMAIN Targets(r) = 1 .. Len(Targets(r))
         /\ \A i \in 1 .. Len(Targets(r)) : Targets(r)[i] \in Contents
         /\ Targets(r) # <<>> => Len(Targets(r)) >= 1
<1>1. r.parts \in Seq(Contents)
  BY PyPipelineAssumption DEF RequestType
<1>2. Targets(r) \in Seq(Contents)
  BY <1>1 DEF Targets
<1>3. QED
  BY <1>2, LenProperties, EmptySeq

\* A statement recorded is one about a content, and a row is no NoRow.
LEMMA RecordedIs ==
  ASSUME NEW J
  PROVE
  /\ \A s \in Recorded(J) : s \in Statements /\ s.op = "replace" /\ s.key \in Contents
                         /\ s.key \in Keys /\ Just(J, s.value, s.key) /\ s # NoRow
  /\ \A k \in Contents : \A v :
       Just(J, v, k) => [op |-> "replace", key |-> k, value |-> v] \in Recorded(J)
<1>1. \A k \in Contents : \A v :
       Just(J, v, k) => [op |-> "replace", key |-> k, value |-> v] \in Recorded(J)
  <2> SUFFICES ASSUME NEW k \in Contents, NEW v, Just(J, v, k)
               PROVE  [op |-> "replace", key |-> k, value |-> v] \in Recorded(J)
    OBVIOUS
  <2>1. v \in Values /\ k \in Keys
    BY PyPipelineAssumption DEF Just
  <2>2. [op |-> "replace", key |-> k, value |-> v] \in Statements
    BY <2>1 DEF Statements, Ops
  <2>3. QED
    BY <2>2 DEF Recorded
<1>2. \A s \in Recorded(J) : s \in Statements /\ s.op = "replace" /\ s.key \in Contents
                         /\ s.key \in Keys /\ Just(J, s.value, s.key)
  BY PyPipelineAssumption DEF Recorded
<1>3. \A s \in Recorded(J) : s # NoRow
  BY <1>2 DEF NoRow, Statements
<1>4. QED
  BY <1>1, <1>2, <1>3

\* Being scanned as more types makes nothing untrue.
Grows(J) == \A k \in Contents : judged[k] \subseteq J[k]

LEMMA TruthStays ==
  ASSUME NEW J, Grows(J)
  PROVE  /\ \A k \in Contents : (Harm(judged, k) => Harm(J, k)) /\ (Honest(judged, k) => Honest(J, k))
         /\ \A k \in Contents : \A v : Just(judged, v, k) => Just(J, v, k)
         /\ Recorded(judged) \subseteq Recorded(J)
<1>1. \A k \in Contents : (Harm(judged, k) => Harm(J, k)) /\ (Honest(judged, k) => Honest(J, k))
  BY DEF Grows, Harm, Honest
<1>2. \A k \in Contents : \A v : Just(judged, v, k) => Just(J, v, k)
  BY <1>1 DEF Just
<1>3. Recorded(judged) \subseteq Recorded(J)
  BY <1>2 DEF Recorded
<1>4. QED
  BY <1>1, <1>2, <1>3

\* So what a call has established stays established.
LEMMA SoFarStays ==
  ASSUME NEW J, Grows(J), NEW r \in Requests, NEW p, NEW i, NEW f, NEW d, NEW m,
         SoFar(judged, p, r, i, f, d, m)
  PROVE  SoFar(J, p, r, i, f, d, m)
<1>1. \A k \in Contents : (Harm(judged, k) => Harm(J, k)) /\ (Honest(judged, k) => Honest(J, k))
  BY TruthStays
<1>2. \A k \in Contents : \A v : Just(judged, v, k) => Just(J, v, k)
  BY TruthStays
<1>3. /\ DOMAIN Targets(r) = 1 .. Len(Targets(r))
      /\ \A j \in 1 .. Len(Targets(r)) : Targets(r)[j] \in Contents
      /\ Targets(r) # <<>> => 1 \in 1 .. Len(Targets(r))
  BY TargetsAre
<1>4. Unspoofed(judged, r) => Unspoofed(J, r)
  BY <1>1, <1>3 DEF Unspoofed
<1>5. JustifiedFor(judged, r, d) => JustifiedFor(J, r, d)
  BY <1>1, <1>3 DEF JustifiedFor
<1>6. DetectedFor(judged, r, d, m) => DetectedFor(J, r, d, m)
  BY <1>4 DEF DetectedFor
<1>7. i \in 1 .. Len(Targets(r)) /\ Just(judged, f, Targets(r)[i]) => Just(J, f, Targets(r)[i])
  BY <1>2, <1>3
<1>8. QED
  BY <1>4, <1>5, <1>6, <1>7 DEF SoFar

\* store_file_hash queues the truth or loses it.
LEMMA RecordStore ==
  ASSUME StoreTypeOK, StoreRecords, judged' = judged,
         NEW k \in Contents, NEW v, Just(judged, v, k), Replace(k, v)
  PROVE  StoreTypeOK' /\ StoreRecords'
<1> DEFINE s == [op |-> "replace", key |-> k, value |-> v]
<1>1. s \in Recorded(judged) /\ s \in Statements
  BY RecordedIs
<1>2. wq' = IF Len(wq) < QueueSize THEN Append(wq, s) ELSE wq
  BY DEF Replace, Enqueue, Room
<1> HIDE DEF s
<1>3. /\ row' = row /\ expired' = expired /\ wbatch' = wbatch /\ wpc' = wpc
      /\ shut' = shut /\ conn' = conn
  BY DEF Replace, Enqueue
<1>4. wq \in Seq(Statements) /\ wq \in Seq(Recorded(judged)) /\ Len(wq) <= QueueSize /\ Len(wq) \in Nat
  BY LenProperties DEF StoreTypeOK, StoreRecords
<1>5. /\ Append(wq, s) \in Seq(Statements) /\ Append(wq, s) \in Seq(Recorded(judged))
      /\ Len(Append(wq, s)) = Len(wq) + 1
  BY <1>1, <1>4, AppendIs
<1>6. wq' \in Seq(Statements) /\ wq' \in Seq(Recorded(judged)) /\ Len(wq') <= QueueSize
  BY <1>2, <1>4, <1>5, PyStoreAssumption
<1>7. StoreTypeOK'
  BY <1>3, <1>6 DEF StoreTypeOK
<1>8. QED
  BY <1>3, <1>6, <1>7 DEF StoreRecords, Found

\* The writer executes it.
LEMMA WriterStore ==
  ASSUME StoreTypeOK, StoreRecords, judged' = judged, Writer \/ BeginClose \/ EndClose
  PROVE  StoreTypeOK' /\ StoreRecords'
<1>1. CASE GetTimeout \/ Commit
  <2>1. /\ row' = row /\ expired' = expired /\ wq' = wq /\ wbatch' = wbatch
        /\ shut' = shut /\ conn' = conn /\ wpc' \in {"get", "done"}
    BY <1>1 DEF GetTimeout, Commit, Again
  <2>2. QED
    BY <2>1 DEF StoreTypeOK, StoreRecords, Found
<1>2. CASE BeginClose \/ EndClose
  <2>1. /\ row' = row /\ expired' = expired /\ wq' = wq /\ wbatch' = wbatch
        /\ shut' \in BOOLEAN /\ conn' \in {"open", "closed"} /\ wpc' = wpc
    BY <1>2 DEF BeginClose, EndClose, StoreTypeOK
  <2>2. QED
    BY <2>1 DEF StoreTypeOK, StoreRecords, Found
<1>3. CASE TakeBatch
  <2> DEFINE m == Upto(WriteBatch, wq)
  <2>1. /\ row' = row /\ expired' = expired /\ shut' = shut /\ conn' = conn
        /\ wpc' = "execute" /\ wq # <<>>
        /\ wbatch' = SubSeq(wq, 1, m) /\ wq' = SubSeq(wq, m + 1, Len(wq))
    BY <1>3 DEF TakeBatch
  <2>2. /\ wq \in Seq(Statements) /\ wq \in Seq(Recorded(judged))
        /\ Len(wq) <= QueueSize /\ Len(wq) \in Nat
    BY LenProperties DEF StoreTypeOK, StoreRecords
  <2>3. m \in 0 .. Len(wq) /\ m <= WriteBatch
    BY <2>2, PyStoreAssumption DEF Upto
  <2> HIDE DEF m
  <2>4. \A i \in 1 .. m : i \in 1 .. Len(wq)
    BY <2>2, <2>3
  <2>5. \A i \in m + 1 .. Len(wq) : i \in 1 .. Len(wq)
    BY <2>2, <2>3
  <2>6. /\ wbatch' \in Seq(Statements) /\ wbatch' \in Seq(Recorded(judged)) /\ Len(wbatch') = m
    BY <2>1, <2>2, <2>3, <2>4, SubSeqProperties
  <2>7. /\ wq' \in Seq(Statements) /\ wq' \in Seq(Recorded(judged))
        /\ Len(wq') = Len(wq) - m
    BY <2>1, <2>2, <2>3, <2>5, SubSeqProperties
  <2>8. Len(wq') <= QueueSize /\ Len(wbatch') <= WriteBatch
    BY <2>2, <2>3, <2>6, <2>7, PyStoreAssumption
  <2>9. StoreTypeOK'
    BY <2>1, <2>6, <2>7, <2>8 DEF StoreTypeOK
  <2>10. QED
    BY <2>1, <2>6, <2>7, <2>9 DEF StoreRecords, Found
<1>4. CASE Abandon
  <2>1. /\ row' = row /\ expired' = expired /\ wq' = wq /\ wbatch' = <<>>
        /\ shut' = shut /\ conn' = conn /\ wpc' \in {"get", "done"}
    BY <1>4 DEF Abandon, Again
  <2>2. wbatch' \in Seq(Statements) /\ wbatch' \in Seq(Recorded(judged)) /\ Len(wbatch') = 0
    BY <2>1, EmptySeq
  <2>3. QED
    BY <2>1, <2>2, PyStoreAssumption DEF StoreTypeOK, StoreRecords, Found
<1>5. CASE Execute
  <2> DEFINE s == Head(wbatch)
  <2>1. /\ wbatch # <<>> /\ wbatch' = Tail(wbatch) /\ row' = After(s)
        /\ wq' = wq /\ wpc' = wpc /\ shut' = shut /\ conn' = conn
    BY <1>5 DEF Execute
  <2>2. wbatch \in Seq(Statements) /\ wbatch \in Seq(Recorded(judged)) /\ Len(wbatch) <= WriteBatch
    BY DEF StoreTypeOK, StoreRecords
  <2>3. /\ s \in Recorded(judged) /\ Tail(wbatch) \in Seq(Statements) /\ Tail(wbatch) \in Seq(Recorded(judged))
        /\ Len(Tail(wbatch)) = Len(wbatch) - 1 /\ Len(wbatch) \in Nat
    BY <2>1, <2>2, TailIs
  <2>4. /\ s \in Statements /\ s.op = "replace" /\ s.key \in Keys
    BY <2>3, RecordedIs
  <2>5. expired' = expired \ {s.key}
    BY <1>5, <2>4 DEF Execute
  <2>6. row' = [row EXCEPT ![s.key] = s]
    BY <2>1, <2>4 DEF After
  <2> HIDE DEF s
  <2>7. /\ row' \in [Keys -> Recorded(judged) \cup {NoRow}]
        /\ row' \in [Keys -> Statements \cup {NoRow}]
        /\ \A k \in Keys : row'[k] # NoRow => row'[k].key = k
    BY <2>3, <2>4, <2>6 DEF StoreTypeOK, StoreRecords, Found
  <2>8. Len(wbatch') <= WriteBatch
    BY <2>1, <2>2, <2>3, PyStoreAssumption
  <2>9. StoreTypeOK'
    BY <2>1, <2>3, <2>5, <2>7, <2>8 DEF StoreTypeOK
  <2>10. QED
    BY <2>1, <2>3, <2>7, <2>9 DEF StoreRecords, Found
<1>6. QED
  BY <1>1, <1>2, <1>3, <1>4, <1>5 DEF Writer
-----------------------------------------------------------------------------
(* A call of check *)

\* What a step of call c sets.
Sets(c, p, r, i, f, d, m) ==
  /\ stage' = [stage EXCEPT ![c] = p] /\ req' = [req EXCEPT ![c] = r]
  /\ target' = [target EXCEPT ![c] = i] /\ found' = [found EXCEPT ![c] = f]
  /\ decision' = [decision EXCEPT ![c] = d] /\ must' = [must EXCEPT ![c] = m]

RulesKept == UNCHANGED <<mode, ruleVars>>

\* A step of call c is one of its request, its target, its finding and its decision.
LEMMA CallStep ==
  ASSUME PipelineInv, NEW c \in Calls, NEW p \in Stages, NEW r \in Requests,
         NEW i \in Nat \ {0}, NEW f \in {"none", "MALICIOUS", "CLEAN"},
         NEW d \in {"none", "PERMIT", "BLOCK"}, NEW m \in SUBSET Sigs,
         Sets(c, p, r, i, f, d, m), RulesKept, StoreTypeOK', StoreRecords',
         m \subseteq patterns, judged' \in [Contents -> SUBSET Types], Grows(judged'),
         SoFar(judged', p, r, i, f, d, m)
  PROVE  PipelineInv'
<1>1. RuleTypes /\ CallTypes /\ \A e \in Calls : must[e] \subseteq patterns /\ CallInv(e)
  BY DEF PipelineInv
<1>2. mode' = mode /\ patterns' = patterns
  BY DEF RulesKept, ruleVars
<1>3. RuleTypes'
  BY <1>1 DEF RuleTypes, RulesKept, ruleVars
<1>4. CallTypes'
  BY <1>1 DEF CallTypes, Sets
<1>5. ASSUME NEW e \in Calls
      PROVE  /\ must'[e] \subseteq patterns
             /\ SoFar(judged', stage'[e], req'[e], target'[e], found'[e], decision'[e], must'[e])
  <2>1. CASE e = c
    BY <1>1, <2>1 DEF CallTypes, Sets
  <2>2. CASE e # c
    <3>1. /\ stage'[e] = stage[e] /\ req'[e] = req[e] /\ target'[e] = target[e]
          /\ found'[e] = found[e] /\ decision'[e] = decision[e] /\ must'[e] = must[e]
      BY <1>1, <2>2 DEF CallTypes, Sets
    <3>2. SoFar(judged, stage[e], req[e], target[e], found[e], decision[e], must[e])
      BY <1>1 DEF CallInv
    <3>3. req[e] \in Requests
      BY <1>1 DEF CallTypes
    <3>4. SoFar(judged', stage[e], req[e], target[e], found[e], decision[e], must[e])
      BY <3>2, <3>3, SoFarStays
    <3>5. QED
      BY <1>1, <3>1, <3>4
  <2>3. QED
    BY <2>1, <2>2
<1>6. ASSUME NEW e \in Calls PROVE must'[e] \subseteq patterns' /\ CallInv(e)'
  BY <1>2, <1>5 DEF CallInv, SoFar, JustifiedFor, DetectedFor
<1>7. QED
  BY <1>3, <1>4, <1>6 DEF PipelineInv
LEMMA CallIs ==
  ASSUME PipelineInv, NEW c \in Calls
  PROVE  /\ req[c] \in Requests /\ stage[c] \in Stages /\ target[c] \in Nat \ {0}
         /\ found[c] \in {"none", "MALICIOUS", "CLEAN"}
         /\ decision[c] \in {"none", "PERMIT", "BLOCK"} /\ must[c] \in SUBSET Sigs
         /\ must[c] \subseteq patterns
         /\ SoFar(judged, stage[c], req[c], target[c], found[c], decision[c], must[c])
         /\ [req EXCEPT ![c] = req[c]] = req /\ [stage EXCEPT ![c] = stage[c]] = stage
         /\ [target EXCEPT ![c] = target[c]] = target /\ [found EXCEPT ![c] = found[c]] = found
         /\ [decision EXCEPT ![c] = decision[c]] = decision
         /\ [must EXCEPT ![c] = must[c]] = must
         /\ judged \in [Contents -> SUBSET Types] /\ Grows(judged)
BY DEF PipelineInv, CallTypes, CallInv, Grows

LEMMA StaysSeq ==
  ASSUME NEW S, NEW T, S \subseteq T, NEW q \in Seq(S)
  PROVE  q \in Seq(T)
<1>1. /\ Len(q) \in Nat /\ DOMAIN q = 1 .. Len(q) /\ q = [i \in 1 .. Len(q) |-> q[i]]
      /\ \A i \in 1 .. Len(q) : q[i] \in S
  BY LenProperties, ElementOfSeq
<1>2. [i \in 1 .. Len(q) |-> q[i]] \in Seq(T)
  BY <1>1, IsASeq
<1>3. QED
  BY <1>1, <1>2

LEMMA StoreKept ==
  ASSUME PipelineInv, UNCHANGED storeVars, Grows(judged')
  PROVE  StoreTypeOK' /\ StoreRecords'
<1>1. /\ row' = row /\ expired' = expired /\ wq' = wq /\ wbatch' = wbatch /\ wpc' = wpc
      /\ shut' = shut /\ conn' = conn
  BY DEF storeVars
<1>2. Recorded(judged) \subseteq Recorded(judged')
  BY TruthStays
<1>3. \A q \in Seq(Recorded(judged)) : q \in Seq(Recorded(judged'))
  BY <1>2, StaysSeq
<1>4. StoreTypeOK'
  BY <1>1 DEF PipelineInv, StoreTypeOK
<1>5. /\ wq \in Seq(Recorded(judged)) /\ wbatch \in Seq(Recorded(judged))
      /\ row \in [Keys -> Recorded(judged) \cup {NoRow}]
      /\ \A k \in Keys : row[k] # NoRow => row[k].key = k
  BY DEF PipelineInv, StoreRecords, Found
<1>6. row \in [Keys -> Recorded(judged') \cup {NoRow}]
  BY <1>2, <1>5
<1>7. StoreRecords'
  BY <1>1, <1>3, <1>5, <1>6 DEF StoreRecords, Found
<1>8. QED
  BY <1>4, <1>7

\* What _make_verdict returns.
Blocked == IF mode = "shadow" THEN "PERMIT" ELSE "BLOCK"

LEMMA BeginStep ==
  ASSUME PipelineInv, RulesKept,
         NEW c \in Calls, NEW r \in Requests, Begin(c, r)
  PROVE  PipelineInv'
<1>1. /\ stage[c] = "new" /\ req' = [req EXCEPT ![c] = r]
      /\ must' = [must EXCEPT ![c] = patterns]
      /\ target' = target /\ found' = found /\ UNCHANGED storeVars /\ judged' = judged
  BY DEF Begin
<1>2. /\ judged' \in [Contents -> SUBSET Types] /\ Grows(judged')
      /\ target[c] = 1 /\ decision[c] = "none" /\ patterns \in SUBSET Sigs
      /\ target[c] \in Nat \ {0} /\ found[c] \in {"none", "MALICIOUS", "CLEAN"}
  BY <1>1, CallIs DEF SoFar, PipelineInv, RuleTypes
<1>3. StoreTypeOK' /\ StoreRecords'
  BY <1>1, <1>2, StoreKept
<1>4. CASE r.static
  <2>1. stage' = [stage EXCEPT ![c] = "decided"] /\ decision' = [decision EXCEPT ![c] = "PERMIT"]
    BY <1>4 DEF Begin, Permit, Decide
  <2>2. SoFar(judged, "decided", r, target[c], found[c], "PERMIT", patterns)
    BY <1>4 DEF SoFar, JustifiedFor, DetectedFor
  <2>3. Sets(c, "decided", r, target[c], found[c], "PERMIT", patterns)
    BY <1>1, <2>1, CallIs DEF Sets
  <2>4. QED
    BY <1>1, <1>2, <1>3, <2>2, <2>3, CallStep DEF Stages
<1>5. CASE ~r.static
  <2>1. stage' = [stage EXCEPT ![c] = "tier1"] /\ decision' = decision
    BY <1>5 DEF Begin, Proceed
  <2>2. SoFar(judged, "tier1", r, target[c], found[c], "none", patterns)
    BY <1>2 DEF SoFar, JustifiedFor, DetectedFor
  <2>3. decision' = [decision EXCEPT ![c] = "none"]
    BY <1>2, <2>1, CallIs
  <2>4. Sets(c, "tier1", r, target[c], found[c], "none", patterns)
    BY <1>1, <2>1, <2>3, CallIs DEF Sets
  <2>5. QED
    BY <1>1, <1>2, <1>3, <2>2, <2>4, CallStep DEF Stages
<1>6. QED
  BY <1>4, <1>5

\* A call that only goes on to stage p with decision d.
LEMMA GoOn ==
  ASSUME PipelineInv, RulesKept, UNCHANGED <<storeVars, req, target, found, must, judged>>,
         NEW c \in Calls, NEW p \in Stages, NEW d \in {"none", "PERMIT", "BLOCK"},
         stage' = [stage EXCEPT ![c] = p], decision' = [decision EXCEPT ![c] = d],
         SoFar(judged, p, req[c], target[c], found[c], d, must[c])
  PROVE  PipelineInv'
<1>1. /\ UNCHANGED storeVars /\ req' = req /\ target' = target /\ found' = found
      /\ must' = must /\ judged' = judged
  OBVIOUS
<1>2. Sets(c, p, req[c], target[c], found[c], d, must[c])
  BY <1>1, CallIs DEF Sets
<1>3. /\ req[c] \in Requests /\ target[c] \in Nat \ {0} /\ must[c] \in SUBSET Sigs
      /\ found[c] \in {"none", "MALICIOUS", "CLEAN"} /\ must[c] \subseteq patterns
      /\ judged' \in [Contents -> SUBSET Types] /\ Grows(judged')
  BY <1>1, CallIs
<1>4. StoreTypeOK' /\ StoreRecords'
  BY <1>1, <1>3, StoreKept
<1>5. QED
  BY <1>1, <1>2, <1>3, <1>4, CallStep

\* The block of a request that a detector has matched.
LEMMA BlockStep ==
  ASSUME PipelineInv, NEW c \in Calls, NEW r \in Requests, NEW i, NEW f, NEW m,
         \/ r.sigs # {} \/ r.injection \/ r.anomalous
         \/ \E j \in DOMAIN Targets(r) : Harm(judged, Targets(r)[j])
  PROVE  /\ Blocked \in {"none", "PERMIT", "BLOCK"}
         /\ SoFar(judged, "decided", r, i, f, Blocked, m)
<1>1. mode \in {"enforce", "shadow"}
  BY DEF PipelineInv, RuleTypes
<1>2. CASE mode = "shadow"
  BY <1>2 DEF Blocked, SoFar, JustifiedFor, DetectedFor
<1>3. CASE mode = "enforce"
  BY <1>3 DEF Blocked, SoFar, JustifiedFor, DetectedFor
<1>4. QED
  BY <1>1, <1>2, <1>3

LEMMA Tier1Step ==
  ASSUME PipelineInv, RulesKept, NEW c \in Calls, Tier1(c)
  PROVE  PipelineInv'
<1> DEFINE r == req[c]
<1>1. /\ stage[c] = "tier1" /\ UNCHANGED <<storeVars, req, target, found, must, judged>>
  BY DEF Tier1
<1>2. target[c] = 1 /\ decision[c] = "none" /\ must[c] \subseteq patterns /\ r \in Requests
  BY <1>1, CallIs DEF SoFar
<1>3. CASE Matched(c) \/ r.injection
  <2>1. stage' = [stage EXCEPT ![c] = "decided"] /\ decision' = [decision EXCEPT ![c] = Blocked]
    BY <1>3 DEF Tier1, Block, Decide, Blocked
  <2>2. r.sigs # {} \/ r.injection
    BY <1>3 DEF Matched
  <2> HIDE DEF r
  <2>3. /\ Blocked \in {"none", "PERMIT", "BLOCK"}
       /\ SoFar(judged, "decided", r, target[c], found[c], Blocked, must[c])
    BY <1>2, <2>2, BlockStep
  <2>4. QED
    BY <1>1, <2>1, <2>3, GoOn DEF Stages, r
<1>4. CASE ~(Matched(c) \/ r.injection)
  <2> DEFINE p == IF Targets(r) = <<>> THEN "ml" ELSE "hash"
  <2>1. stage' = [stage EXCEPT ![c] = p] /\ decision' = decision
    BY <1>4 DEF Tier1, Proceed
  <2>2. r.sigs \cap must[c] = {} /\ ~r.injection
    BY <1>2, <1>4 DEF Matched
  <2>3. decision' = [decision EXCEPT ![c] = "none"]
    BY <1>2, <2>1, CallIs
  <2>4. Targets(r) # <<>> => target[c] \in 1 .. Len(Targets(r)) /\ ~(target[c] > 1)
    BY <1>2, TargetsAre
  <2> HIDE DEF r
  <2>5. SoFar(judged, p, r, target[c], found[c], "none", must[c])
    BY <2>2, <2>4 DEF SoFar, JustifiedFor, DetectedFor, Unspoofed
  <2>6. QED
    BY <1>1, <2>1, <2>3, <2>5, GoOn DEF Stages, r
<1>5. QED
  BY <1>3, <1>4

LEMMA Tier3Step ==
  ASSUME PipelineInv, RulesKept, NEW c \in Calls, Tier3(c)
  PROVE  PipelineInv'
<1> DEFINE r == req[c]
<1>1. /\ stage[c] = "ml" /\ UNCHANGED <<storeVars, req, target, found, must, judged>>
  BY DEF Tier3
<1>2. r.sigs \cap must[c] = {} /\ ~r.injection /\ Unspoofed(judged, r) /\ r \in Requests
  BY <1>1, CallIs DEF SoFar
<1>3. CASE r.anomalous
  <2>1. stage' = [stage EXCEPT ![c] = "decided"] /\ decision' = [decision EXCEPT ![c] = Blocked]
    BY <1>3 DEF Tier3, Block, Decide, Blocked
  <2> HIDE DEF r
  <2>2. /\ Blocked \in {"none", "PERMIT", "BLOCK"}
       /\ SoFar(judged, "decided", r, target[c], found[c], Blocked, must[c])
    BY <1>2, <1>3, BlockStep
  <2>3. QED
    BY <1>1, <2>1, <2>2, GoOn DEF Stages, r
<1>4. CASE ~r.anomalous
  <2>1. stage' = [stage EXCEPT ![c] = "decided"] /\ decision' = [decision EXCEPT ![c] = "PERMIT"]
    BY <1>4 DEF Tier3, Permit, Decide
  <2> HIDE DEF r
  <2>2. SoFar(judged, "decided", r, target[c], found[c], "PERMIT", must[c])
    BY <1>2, <1>4 DEF SoFar, JustifiedFor, DetectedFor
  <2>3. QED
    BY <1>1, <2>1, <2>2, GoOn DEF Stages, r
<1>5. QED
  BY <1>3, <1>4

\* At a scan target: it is a content, and none before it was spoofed.
LEMMA AtTarget ==
  ASSUME PipelineInv, NEW c \in Calls, stage[c] \in {"hash", "scan", "record"}
  PROVE  /\ req[c] \in Requests /\ Content(c) = Targets(req[c])[target[c]]
         /\ target[c] \in 1 .. Len(Targets(req[c])) /\ Content(c) \in Contents
         /\ req[c].sigs \cap must[c] = {} /\ ~req[c].injection /\ decision[c] = "none"
         /\ target[c] > 1 => Unspoofed(judged, req[c])
         /\ Honest(judged, Content(c)) => Unspoofed(judged, req[c])
         /\ target[c] \in DOMAIN Targets(req[c]) /\ Content(c) \in Keys
<1>1. /\ req[c] \in Requests /\ target[c] \in 1 .. Len(Targets(req[c]))
      /\ req[c].sigs \cap must[c] = {} /\ ~req[c].injection /\ decision[c] = "none"
      /\ target[c] > 1 => Unspoofed(judged, req[c])
  BY CallIs DEF SoFar
<1>2. Content(c) = Targets(req[c])[target[c]]
  BY DEF Content
<1>3. target[c] = 1 \/ target[c] > 1
  BY <1>1, TargetsAre
<1>4. Honest(judged, Content(c)) => Unspoofed(judged, req[c])
  BY <1>1, <1>2, <1>3 DEF Unspoofed
<1>5. Content(c) \in Contents /\ target[c] \in DOMAIN Targets(req[c])
  BY <1>1, <1>2, TargetsAre
<1>6. QED
  BY <1>1, <1>2, <1>4, <1>5, PyPipelineAssumption

LEMMA HashLookupStep ==
  ASSUME PipelineInv, RulesKept, NEW c \in Calls, HashLookup(c)
  PROVE  PipelineInv'
<1> DEFINE r == req[c]
           k == Content(c)
<1>1. /\ stage[c] = "hash" /\ UNCHANGED <<storeVars, req, target, found, must, judged>>
  BY DEF HashLookup
<1>2. /\ r \in Requests /\ k = Targets(r)[target[c]] /\ k \in Keys
      /\ target[c] \in 1 .. Len(Targets(r)) /\ target[c] \in DOMAIN Targets(r)
      /\ r.sigs \cap must[c] = {} /\ ~r.injection /\ decision[c] = "none"
      /\ target[c] > 1 => Unspoofed(judged, r)
      /\ Honest(judged, k) => Unspoofed(judged, r)
  BY <1>1, AtTarget
<1>3. Found(k) => Just(judged, row[k].value, k)
  BY <1>2, RecordedIs DEF PipelineInv, StoreRecords, Found
<1>4. \/ Proceed(c, "raised") \/ Proceed(c, "scan")
      \/ Found(k) /\ row[k].value = "MALICIOUS" /\ Block(c)
      \/ Found(k) /\ row[k].value # "MALICIOUS" /\ Proceed(c, "ml")
  BY DEF HashLookup, HashClean
<1> HIDE DEF r, k
<1>5. CASE Found(k) /\ row[k].value = "MALICIOUS" /\ Block(c)
  <2>1. stage' = [stage EXCEPT ![c] = "decided"] /\ decision' = [decision EXCEPT ![c] = Blocked]
    BY <1>5 DEF Block, Decide, Blocked
  <2>2. Harm(judged, Targets(r)[target[c]])
    BY <1>2, <1>3, <1>5 DEF Just
  <2>3. /\ Blocked \in {"none", "PERMIT", "BLOCK"}
       /\ SoFar(judged, "decided", r, target[c], found[c], Blocked, must[c])
    BY <1>2, <2>2, BlockStep
  <2>4. QED
    BY <1>1, <2>1, <2>3, GoOn DEF Stages, r
<1>6. ASSUME NEW p \in {"raised", "scan", "ml"}, Proceed(c, p), p = "ml" => Unspoofed(judged, r)
      PROVE  PipelineInv'
  <2>1. stage' = [stage EXCEPT ![c] = p] /\ decision' = [decision EXCEPT ![c] = "none"]
    BY <1>2, <1>6, CallIs DEF Proceed
  <2>2. SoFar(judged, p, r, target[c], found[c], "none", must[c])
    BY <1>2, <1>6 DEF SoFar, JustifiedFor, DetectedFor
  <2>3. QED
    BY <1>1, <2>1, <2>2, GoOn DEF Stages, r
<1>7. Found(k) /\ row[k].value # "MALICIOUS" => Unspoofed(judged, r)
  BY <1>2, <1>3 DEF Just
<1>8. QED
  BY <1>4, <1>5, <1>6, <1>7

LEMMA ScanStep ==
  ASSUME PipelineInv, RulesKept, NEW c \in Calls, Scan(c)
  PROVE  PipelineInv'
<1> DEFINE r == req[c]
           k == Content(c)
           J == [judged EXCEPT ![k] = @ \cup {r.type}]
<1>1. /\ stage[c] = "scan" /\ UNCHANGED <<storeVars, req, target, must>>
      /\ stage' = [stage EXCEPT ![c] = "record"] /\ decision' = decision /\ judged' = J
  BY DEF Scan, Proceed
<1>2. /\ r \in Requests /\ k = Targets(r)[target[c]] /\ k \in Contents
      /\ target[c] \in 1 .. Len(Targets(r))
      /\ r.sigs \cap must[c] = {} /\ ~r.injection /\ decision[c] = "none"
      /\ target[c] > 1 => Unspoofed(judged, r)
  BY <1>1, AtTarget
<1>3. judged \in [Contents -> SUBSET Types] /\ r.type \in Types
  BY <1>2, CallIs, PyPipelineAssumption DEF RequestType
<1>4. J \in [Contents -> SUBSET Types] /\ Grows(J) /\ r.type \in J[k]
  BY <1>2, <1>3 DEF Grows
<1>5. PICK f \in {"MALICIOUS", "CLEAN"} : found' = [found EXCEPT ![c] = f] /\ Just(J, f, k)
  <2>1. /\ (k \in SpoofedAs[r.type] \/ MarksOf[k] # {}) => Harm(J, k)
        /\ k \notin SpoofedAs[r.type] => Honest(J, k)
    BY <1>4 DEF Harm, Harmful, Honest
  <2> HIDE DEF J
  <2>2. CASE k \in SpoofedAs[r.type] /\ found' = [found EXCEPT ![c] = "MALICIOUS"]
    BY <2>1, <2>2 DEF Just
  <2>3. CASE MarksOf[k] \cap rules # {} /\ found' = [found EXCEPT ![c] = "MALICIOUS"]
    BY <2>1, <2>3 DEF Just
  <2>4. CASE k \notin SpoofedAs[r.type] /\ found' = [found EXCEPT ![c] = "CLEAN"]
    BY <2>1, <2>4 DEF Just
  <2>5. QED
    BY <2>2, <2>3, <2>4 DEF Scan, Spoofs, YaraMatches
<1> HIDE DEF r, k, J
<1>6. target[c] > 1 => Unspoofed(J, r)
  <2>1. Targets(r) # <<>> => Targets(r)[1] \in Contents
    BY <1>2, TargetsAre
  <2>2. QED
    BY <1>2, <1>4, <2>1, TruthStays DEF Unspoofed
<1>7. SoFar(J, "record", r, target[c], f, "none", must[c])
  BY <1>2, <1>5, <1>6 DEF SoFar, JustifiedFor, DetectedFor
<1>8. decision' = [decision EXCEPT ![c] = "none"]
  BY <1>1, <1>2, CallIs
<1>9. Sets(c, "record", r, target[c], f, "none", must[c])
  BY <1>1, <1>5, <1>8, CallIs DEF r, Sets
<1>10. target[c] \in Nat \ {0} /\ must[c] \in SUBSET Sigs /\ must[c] \subseteq patterns
  BY CallIs
<1>11. StoreTypeOK' /\ StoreRecords'
  BY <1>1, <1>4, StoreKept
<1>12. QED
  BY <1>1, <1>2, <1>4, <1>7, <1>9, <1>10, <1>11, CallStep DEF Stages

LEMMA RecordStep ==
  ASSUME PipelineInv, RulesKept, NEW c \in Calls, Record(c)
  PROVE  PipelineInv'
<1> DEFINE r == req[c]
           k == Content(c)
           n == Len(Targets(req[c]))
<1>1. /\ stage[c] = "record" /\ Replace(k, found[c]) /\ req' = req /\ must' = must
      /\ judged' = judged /\ found' = [found EXCEPT ![c] = "none"]
  BY DEF Record, RecordedKey
<1>2. /\ r \in Requests /\ k = Targets(r)[target[c]] /\ k \in Contents
      /\ target[c] \in 1 .. n /\ target[c] \in DOMAIN Targets(r)
      /\ r.sigs \cap must[c] = {} /\ ~r.injection /\ decision[c] = "none"
      /\ target[c] > 1 => Unspoofed(judged, r)
      /\ Honest(judged, k) => Unspoofed(judged, r)
  BY <1>1, AtTarget
<1>3. Just(judged, found[c], k)
  BY <1>1, <1>2, CallIs DEF SoFar
<1>4. StoreTypeOK' /\ StoreRecords'
  BY <1>1, <1>2, <1>3, RecordStore DEF PipelineInv
<1>5. \/ found[c] = "MALICIOUS" /\ Block(c) /\ target' = target
      \/ /\ found[c] # "MALICIOUS" /\ target[c] < n /\ Proceed(c, "hash")
         /\ target' = [target EXCEPT ![c] = target[c] + 1]
      \/ found[c] # "MALICIOUS" /\ Proceed(c, "ml") /\ target' = target
  BY DEF Record
<1>6. n \in Nat
  BY <1>2, TargetsAre
<1>7. found[c] # "MALICIOUS" => Unspoofed(judged, r)
  BY <1>2, <1>3 DEF Just
<1>8. /\ target[c] \in Nat \ {0} /\ must[c] \in SUBSET Sigs /\ must[c] \subseteq patterns
      /\ judged' \in [Contents -> SUBSET Types] /\ Grows(judged')
  BY <1>1, CallIs
<1> HIDE DEF k
<1>9. CASE found[c] = "MALICIOUS" /\ Block(c) /\ target' = target
  <2> HIDE DEF n
  <2>1. stage' = [stage EXCEPT ![c] = "decided"] /\ decision' = [decision EXCEPT ![c] = Blocked]
    BY <1>9 DEF Block, Decide, Blocked
  <2>2. Sets(c, "decided", r, target[c], "none", Blocked, must[c])
    BY <1>1, <1>9, <2>1, CallIs DEF Sets
  <2> HIDE DEF r
  <2>3. Harm(judged, Targets(r)[target[c]])
    BY <1>2, <1>3, <1>9 DEF Just
  <2>4. /\ Blocked \in {"none", "PERMIT", "BLOCK"}
       /\ SoFar(judged, "decided", r, target[c], "none", Blocked, must[c])
    BY <1>2, <2>3, BlockStep
  <2>5. QED
    BY <1>1, <1>2, <1>4, <1>8, <2>2, <2>4, CallStep DEF Stages
<1>10. CASE /\ found[c] # "MALICIOUS" /\ target[c] < n /\ Proceed(c, "hash")
            /\ target' = [target EXCEPT ![c] = target[c] + 1]
  <2> DEFINE i == target[c] + 1
  <2>1. stage' = [stage EXCEPT ![c] = "hash"] /\ decision' = [decision EXCEPT ![c] = "none"]
    BY <1>2, <1>10, CallIs DEF Proceed
  <2>2. i \in 1 .. n /\ i \in Nat \ {0}
    BY <1>2, <1>6, <1>10
  <2>3. target' = [target EXCEPT ![c] = i]
    BY <1>10
  <2> HIDE DEF i
  <2>4. Sets(c, "hash", r, i, "none", "none", must[c])
    BY <1>1, <2>1, <2>3, CallIs DEF Sets
  <2>5. i \in 1 .. Len(Targets(r))
    BY <2>2
  <2> HIDE DEF r, n
  <2>6. SoFar(judged, "hash", r, i, "none", "none", must[c])
    BY <1>2, <1>7, <1>10, <2>5 DEF SoFar, JustifiedFor, DetectedFor
  <2>7. QED
    BY <1>1, <1>2, <1>4, <1>8, <2>2, <2>4, <2>6, CallStep DEF Stages
<1>11. CASE found[c] # "MALICIOUS" /\ Proceed(c, "ml") /\ target' = target
  <2> HIDE DEF n
  <2>1. stage' = [stage EXCEPT ![c] = "ml"] /\ decision' = [decision EXCEPT ![c] = "none"]
    BY <1>2, <1>11, CallIs DEF Proceed
  <2>2. Sets(c, "ml", r, target[c], "none", "none", must[c])
    BY <1>1, <1>11, <2>1, CallIs DEF Sets
  <2> HIDE DEF r
  <2>3. SoFar(judged, "ml", r, target[c], "none", "none", must[c])
    BY <1>2, <1>7, <1>11 DEF SoFar, JustifiedFor, DetectedFor
  <2>4. QED
    BY <1>1, <1>2, <1>4, <1>8, <2>2, <2>3, CallStep DEF Stages
<1>12. QED
  BY <1>5, <1>9, <1>10, <1>11
-----------------------------------------------------------------------------
(* The pipeline's invariant *)

\* A reload leaves in must only what stays loaded.
LEMMA ReloadStep ==
  ASSUME PipelineInv, Reload, UNCHANGED mode
  PROVE  PipelineInv'
<1>1. RuleTypes /\ CallTypes /\ \A e \in Calls : must[e] \subseteq patterns /\ CallInv(e)
  BY DEF PipelineInv
<1>2. /\ UNCHANGED storeVars /\ req' = req /\ stage' = stage /\ target' = target
      /\ found' = found /\ decision' = decision /\ judged' = judged
  BY DEF Reload, ReloadPatterns, ReloadYara, checkVars
<1>3. StoreTypeOK' /\ StoreRecords'
  BY <1>2, StoreKept DEF Grows
<1>4. RuleTypes'
  <2>1. CASE ReloadPatterns
    BY <1>1, <2>1, PyPipelineAssumption DEF RuleTypes, ReloadPatterns
  <2>2. CASE ReloadYara
    BY <1>1, <2>2 DEF RuleTypes, ReloadYara
  <2>3. QED
    BY <2>1, <2>2 DEF Reload
<1>5. /\ must' \in [Calls -> SUBSET Sigs]
      /\ \A e \in Calls : must'[e] \subseteq patterns' /\ must'[e] \subseteq must[e]
  <2>1. CASE ReloadPatterns
    BY <1>1, <2>1 DEF CallTypes, ReloadPatterns
  <2>2. CASE ReloadYara
    BY <1>1, <2>2 DEF CallTypes, ReloadYara, checkVars
  <2>3. QED
    BY <2>1, <2>2 DEF Reload
<1>6. CallTypes'
  BY <1>1, <1>2, <1>5 DEF CallTypes
<1>7. ASSUME NEW e \in Calls PROVE CallInv(e)'
  <2>1. SoFar(judged, stage[e], req[e], target[e], found[e], decision[e], must[e])
    BY <1>1 DEF CallInv
  <2>2. \A S : S \cap must[e] = {} => S \cap must'[e] = {}
    BY <1>5
  <2>3. QED
    BY <1>2, <2>1, <2>2 DEF CallInv, SoFar, JustifiedFor, DetectedFor
<1>8. QED
  BY <1>3, <1>4, <1>5, <1>6, <1>7 DEF PipelineInv

LEMMA PipelineStep ==
  ASSUME PipelineInv, [PipelineNext]_pipelineVars
  PROVE  PipelineInv'
<1>1. ASSUME NEW c \in Calls, CheckStep(c), RulesKept PROVE PipelineInv'
  BY <1>1, BeginStep, Tier1Step, HashLookupStep, ScanStep, RecordStep, Tier3Step DEF CheckStep
<1>2. CASE Reload /\ UNCHANGED mode
  BY <1>2, ReloadStep
<1>3. ASSUME StoreTypeOK', StoreRecords', UNCHANGED <<mode, ruleVars, checkVars>>
      PROVE  PipelineInv'
  <2>1. /\ mode' = mode /\ patterns' = patterns /\ rules' = rules /\ reload' = reload
        /\ reloads' = reloads /\ req' = req /\ stage' = stage /\ target' = target
        /\ found' = found /\ decision' = decision /\ must' = must /\ judged' = judged
    BY <1>3 DEF ruleVars, checkVars
  <2>2. RuleTypes' /\ CallTypes'
    BY <2>1 DEF PipelineInv, RuleTypes, CallTypes
  <2>3. ASSUME NEW e \in Calls PROVE must'[e] \subseteq patterns' /\ CallInv(e)'
    BY <2>1 DEF PipelineInv, CallInv, SoFar, JustifiedFor, DetectedFor
  <2>4. QED
    BY <1>3, <2>2, <2>3 DEF PipelineInv
<1>4. CASE (Writer \/ BeginClose \/ EndClose) /\ UNCHANGED <<mode, ruleVars, checkVars>>
  BY <1>3, <1>4, WriterStore DEF PipelineInv, checkVars
<1>5. CASE UNCHANGED pipelineVars
  <2>1. UNCHANGED storeVars /\ UNCHANGED <<mode, ruleVars, checkVars>>
    BY <1>5 DEF pipelineVars
  <2>2. judged' = judged
    BY <2>1 DEF checkVars
  <2>3. QED
    BY <1>3, <2>1, <2>2, StoreKept DEF Grows
<1>6. QED
  BY <1>1, <1>2, <1>4, <1>5 DEF PipelineNext, RulesKept

LEMMA InitPipeline ==
  ASSUME PipelineInit
  PROVE  PipelineInv
<1>1. /\ row = [k \in Keys |-> NoRow] /\ expired = {} /\ wq = <<>> /\ wbatch = <<>>
      /\ wpc = "get" /\ shut = FALSE /\ conn = "open"
  BY DEF PipelineInit, StoreInit
<1>2. <<>> \in Seq(Statements) /\ <<>> \in Seq(Recorded(judged)) /\ Len(<<>>) = 0
  BY EmptySeq
<1>3. StoreTypeOK
  <2>1. row \in [Keys -> Statements \cup {NoRow}] /\ shut \in BOOLEAN
    BY <1>1
  <2>2. Len(wq) <= QueueSize /\ Len(wbatch) <= WriteBatch
    BY <1>1, <1>2, PyStoreAssumption
  <2>3. QED
    BY <1>1, <1>2, <2>1, <2>2 DEF StoreTypeOK
<1>4. StoreRecords
  BY <1>1, <1>2 DEF StoreRecords, Found
<1>5. /\ mode \in {"enforce", "shadow"} /\ patterns = Sigs /\ rules = Marks
      /\ reload = "idle" /\ reloads = 0
  BY DEF PipelineInit
<1>6. RuleTypes
  BY <1>5, PyPipelineAssumption DEF RuleTypes
<1>7. SomeRequest \in Requests
  BY PyPipelineAssumption DEF SomeRequest
<1>8. /\ req = [c \in Calls |-> SomeRequest] /\ stage = [c \in Calls |-> "new"]
      /\ target = [c \in Calls |-> 1] /\ found = [c \in Calls |-> "none"]
      /\ decision = [c \in Calls |-> "none"] /\ must = [c \in Calls |-> {}]
      /\ judged = [k \in Contents |-> {}]
  BY DEF PipelineInit
<1>9. CallTypes
  BY <1>7, <1>8 DEF CallTypes, Stages
<1>10. ASSUME NEW c \in Calls PROVE must[c] \subseteq patterns /\ CallInv(c)
  <2>1. /\ stage[c] = "new" /\ target[c] = 1 /\ decision[c] = "none" /\ must[c] = {}
    BY <1>8
  <2>2. QED
    BY <2>1 DEF CallInv, SoFar, JustifiedFor, DetectedFor
<1>11. QED
  BY <1>3, <1>4, <1>6, <1>9, <1>10 DEF PipelineInv

LEMMA PipelineInvariance == PipelineSpec => []PipelineInv
<1>1. PipelineInit => PipelineInv
  BY InitPipeline
<1>2. PipelineInv /\ [PipelineNext]_pipelineVars => PipelineInv'
  BY PipelineStep
<1>3. QED
  BY <1>1, <1>2, PTL DEF PipelineSpec

\* The variables of the pipeline and its database have their types.
THEOREM PipelineTypeCorrect == PipelineSpec => []PipelineTypeOK
<1>1. PipelineInv => PipelineTypeOK
  BY DEF PipelineInv, RuleTypes, CallTypes, Stages, PipelineTypeOK
<1>2. QED
  BY <1>1, PipelineInvariance, PTL

\* check blocks a request only in enforce mode and for what is in it, or for a target that
\* was scanned, for some request, and matched then: a row of the hash cache blocks no
\* other bytes, and no reload makes a harmless request be blocked.
THEOREM BlocksAreJustified == PipelineSpec => []BlockJustified
<1>1. PipelineInv => BlockJustified
  BY DEF PipelineInv, CallInv, SoFar, JustifiedFor, Harm, BlockJustified
<1>2. QED
  BY <1>1, PipelineInvariance, PTL

\* In enforce mode a request is permitted only if none of the detectors that saw it
\* matched it, and only with a body that was scanned, for it or for an earlier request,
\* and was of the type declared then.
THEOREM DetectedAreBlocked == PipelineSpec => []DetectedIsBlocked
<1>1. PipelineInv => DetectedIsBlocked
  BY DEF PipelineInv, CallInv, SoFar, DetectedFor, Unspoofed, Honest, DetectedIsBlocked
<1>2. QED
  BY <1>1, PipelineInvariance, PTL
-----------------------------------------------------------------------------
(***************************************************************************)
(* The socket server. What the pool holds is submitted and not yet picked  *)
(* up, and nothing is put in it once stop waits for it; what a connection  *)
(* has been answered, decided and counted as depends on where it is.       *)
(***************************************************************************)

\* The pool and the accept loop hold connections that are at their place.
HoldsOK == /\ Inj(pool) /\ \A i \in 1 .. Len(pool) : at[pool[i]] = "queued"
           /\ held # "none" => at[held] = "accepted"

\* Once stop waits for the pool, nothing more is put in it.
StopOK == /\ stop \in {"wait", "returned"} => poolShut
          /\ StopIsFinal

\* How far the handling of a connection is.
HandledOK == \A c \in Conns :
  /\ at[c] = "count" => outcome[c] \in {"blocked", "permitted", "errors"}
  /\ at[c] \in {"new", "backlog", "accepted", "queued", "read", "check", "decided",
                "raised", "reply"} => answer[c] = "none"
  /\ at[c] \in {"new", "backlog", "accepted", "queued", "read", "check"} => verdict[c] = "none"
  /\ at[c] = "decided" => verdict[c] \in {"PERMIT", "BLOCK"}

ServerInv == ServerTypeOK /\ HoldsOK /\ StopOK /\ HandledOK /\ CountersAddUp
-----------------------------------------------------------------------------
(* Counting connections *)

\* The connections in some states are finitely many.
LEMMA InIsFinite ==
  ASSUME NEW S
  PROVE  /\ IsFiniteSet(In(S)) /\ Cardinality(In(S)) \in Nat
<1>1. IsFiniteSet(Conns) /\ In(S) \subseteq Conns
  BY PyServerAssumption DEF In
<1>2. QED
  BY <1>1, FS_Subset, FS_CardinalityType

\* One connection goes elsewhere, the others stay.
GoesTo(c, p) == at \in [Conns -> Labels] /\ at' = [at EXCEPT ![c] = p]

\* It goes elsewhere within the states S, or outside of them.
LEMMA StaysIn ==
  ASSUME NEW CONSTANT S, NEW c \in Conns, NEW CONSTANT p, GoesTo(c, p), at[c] \in S <=> p \in S
  PROVE  In(S)' = In(S) /\ Cardinality(In(S))' = Cardinality(In(S))
<1>1. In(S)' = In(S)
  BY DEF GoesTo, In
<1>2. QED
  BY <1>1

\* It goes into S.
LEMMA ComesIn ==
  ASSUME NEW CONSTANT S, NEW c \in Conns, NEW CONSTANT p, GoesTo(c, p), at[c] \notin S, p \in S
  PROVE  Cardinality(In(S))' = Cardinality(In(S)) + 1
<1>1. In(S)' = In(S) \cup {c} /\ c \notin In(S)
  BY DEF GoesTo, In
<1>2. Cardinality(In(S) \cup {c}) = Cardinality(In(S)) + 1
  BY <1>1, InIsFinite, FS_AddElement
<1>3. QED
  BY <1>1, <1>2

\* It leaves S.
LEMMA GoesOut ==
  ASSUME NEW CONSTANT S, NEW c \in Conns, NEW CONSTANT p, GoesTo(c, p), at[c] \in S, p \notin S
  PROVE  Cardinality(In(S))' = Cardinality(In(S)) - 1
<1>1. In(S)' = In(S) \ {c} /\ c \in In(S)
  BY DEF GoesTo, In
<1>2. Cardinality(In(S) \ {c}) = Cardinality(In(S)) - 1
  BY <1>1, InIsFinite, FS_RemoveElement
<1>3. QED
  BY <1>1, <1>2
-----------------------------------------------------------------------------
(* Type correctness *)

\* The steps that concern no connection.
Elsewhere == Listen \/ SetRunning \/ EndLoop \/ ClearRunning \/ ShutPool \/ StopReturns

LEMMA ServerSteps ==
  ASSUME ServerNext
  PROVE  \/ Elsewhere \/ CloseSocket
         \/ \E c \in Conns : Accept(c) \/ Submit(c) \/ Connect(c) \/ Pick(c) \/ Handle(c)
BY DEF ServerNext, Starter, StopThread, Worker, Elsewhere

LEMMA ElsewhereIs ==
  ASSUME Elsewhere
  PROVE  /\ at' = at /\ verdict' = verdict /\ stats' = stats /\ outcome' = outcome
         /\ answer' = answer /\ unread' = unread /\ held' = held /\ pool' = pool
BY DEF Elsewhere, Listen, SetRunning, EndLoop, ClearRunning, ShutPool, StopReturns, replyVars

LEMMA HandleIs ==
  ASSUME NEW c, Handle(c)
  PROVE  /\ start' = start /\ stop' = stop /\ running' = running /\ listener' = listener
         /\ path' = path /\ held' = held /\ pool' = pool /\ poolShut' = poolShut
BY DEF Handle, ReadNothing, ReadMalformed, ReadRequest, Check, CheckRaised, Late, FailOpen,
       InTime, AddOne, CloseConn, serverVars

\* Where the steps of a worker that handles c lead.
Ends == (Handling \ {"read"}) \cup {"closed"}

\* A step of a worker within the handling of c.
LEMMA HandleTypes ==
  ASSUME ServerTypeOK, HandledOK, NEW c \in Conns, Handle(c)
  PROVE  /\ at[c] \in Handling
         /\ \E p \in Ends : GoesTo(c, p)
         /\ stats' \in [Counters -> Nat] /\ unread' \in Nat
         /\ outcome' \in [Conns -> Counters \cup {"none"}]
         /\ verdict' \in [Conns -> {"none", "PERMIT", "BLOCK"}]
         /\ answer' \in [Conns -> {"none", "PERMIT", "BLOCK"}]
<1>1. /\ at \in [Conns -> Labels] /\ stats \in [Counters -> Nat] /\ unread \in Nat
      /\ outcome \in [Conns -> Counters \cup {"none"}]
      /\ verdict \in [Conns -> {"none", "PERMIT", "BLOCK"}]
      /\ answer \in [Conns -> {"none", "PERMIT", "BLOCK"}]
  BY DEF ServerTypeOK
<1>2. /\ "total" \in Counters /\ "blocked" \in Counters /\ "permitted" \in Counters
      /\ "errors" \in Counters /\ "fail_open" \in Counters
  BY DEF Counters
<1>3. ASSUME NEW p \in Ends, at' = [at EXCEPT ![c] = p], at[c] \in Handling
      PROVE  at[c] \in Handling /\ \E e \in Ends : GoesTo(c, e)
  BY <1>1, <1>3 DEF GoesTo
<1>4. \A a \in {"PERMIT", "BLOCK"} :
        SendAnswer(c, a) => answer' \in [Conns -> {"none", "PERMIT", "BLOCK"}]
  BY <1>1 DEF SendAnswer
<1>5. \A k \in Counters : Then(c, k) => /\ outcome' \in [Conns -> Counters \cup {"none"}]
                                        /\ at' = [at EXCEPT ![c] = "count"]
  BY <1>1 DEF Then
<1>6. \A k \in Counters : CountAs(k) => stats' \in [Counters -> Nat]
  BY <1>1 DEF CountAs
<1>7. "release" \in Ends /\ "count" \in Ends /\ "reply" \in Ends /\ "closed" \in Ends
      /\ "check" \in Ends /\ "decided" \in Ends /\ "raised" \in Ends
  BY DEF Ends, Handling
<1>8. CASE ReadNothing(c) \/ FailOpen(c)
  <2>1. /\ SendAnswer(c, "PERMIT") /\ at' = [at EXCEPT ![c] = "release"] /\ at[c] \in Handling
        /\ unread' \in Nat /\ stats' = stats /\ outcome' = outcome /\ verdict' = verdict
    BY <1>1, <1>8 DEF ReadNothing, FailOpen, Handling
  <2>2. QED
    BY <1>1, <1>3, <1>4, <1>7, <2>1
<1>9. CASE ReadMalformed(c) \/ CheckRaised(c)
  <2>1. /\ SendAnswer(c, "PERMIT") /\ Then(c, "errors") /\ at[c] \in Handling
        /\ unread' = unread /\ stats' = stats /\ verdict' = verdict
    BY <1>9 DEF ReadMalformed, CheckRaised, Handling
  <2>2. QED
    BY <1>1, <1>2, <1>3, <1>4, <1>5, <1>7, <2>1
<1>10. CASE ReadRequest(c) \/ CloseConn(c)
  <2>1. /\ at' = [at EXCEPT ![c] = "check"] \/ at' = [at EXCEPT ![c] = "closed"]
        /\ at[c] \in Handling
        /\ unread' = unread /\ stats' = stats /\ verdict' = verdict /\ answer' = answer
        /\ outcome' = outcome
    BY <1>10 DEF ReadRequest, CloseConn, Handling, replyVars
  <2>2. QED
    BY <1>1, <1>3, <1>7, <2>1
<1>11. CASE Check(c)
  <2>1. /\ at' = [at EXCEPT ![c] = "decided"] \/ at' = [at EXCEPT ![c] = "raised"]
        /\ at[c] \in Handling /\ verdict' \in [Conns -> {"none", "PERMIT", "BLOCK"}]
        /\ unread' = unread /\ stats' = stats /\ answer' = answer /\ outcome' = outcome
    BY <1>1, <1>11 DEF Check, Handling, replyVars
  <2>2. QED
    BY <1>1, <1>3, <1>7, <2>1
<1>12. CASE Late(c)
  <2>1. /\ at' = [at EXCEPT ![c] = "reply"] /\ at[c] \in Handling /\ CountAs("fail_open")
        /\ unread' = unread /\ verdict' = verdict /\ answer' = answer /\ outcome' = outcome
    BY <1>12 DEF Late, Handling
  <2>2. QED
    BY <1>1, <1>2, <1>3, <1>6, <1>7, <2>1
<1>13. CASE InTime(c)
  <2>1. verdict[c] \in {"PERMIT", "BLOCK"}
    BY <1>13 DEF InTime, HandledOK
  <2>2. /\ answer' = [answer EXCEPT ![c] = verdict[c]] \/ answer' = answer
        /\ stats' = stats /\ verdict' = verdict /\ unread' = unread /\ at[c] \in Handling
        /\ Then(c, "blocked") \/ Then(c, "permitted") \/ Then(c, "errors")
    BY <1>13 DEF InTime, Handling
  <2>3. answer' \in [Conns -> {"none", "PERMIT", "BLOCK"}]
    BY <1>1, <2>1, <2>2
  <2>4. QED
    BY <1>1, <1>2, <1>3, <1>5, <1>7, <2>2, <2>3
<1>14. CASE AddOne(c)
  <2>1. outcome[c] \in Counters
    BY <1>2, <1>14 DEF AddOne, HandledOK
  <2>2. /\ at' = [at EXCEPT ![c] = "release"] /\ at[c] \in Handling /\ CountAs(outcome[c])
        /\ outcome' = [outcome EXCEPT ![c] = "none"]
        /\ unread' = unread /\ verdict' = verdict /\ answer' = answer
    BY <1>14 DEF AddOne, Handling
  <2>3. QED
    BY <1>1, <1>3, <1>6, <1>7, <2>1, <2>2
<1>15. QED
  BY <1>8, <1>9, <1>10, <1>11, <1>12, <1>13, <1>14 DEF Handle

LEMMA ServerTypeNext ==
  ASSUME ServerTypeOK, HoldsOK, HandledOK, ServerNext
  PROVE  ServerTypeOK'
<1>1. CASE Listen \/ SetRunning \/ EndLoop
  BY <1>1, ElsewhereIs DEF Elsewhere, Listen, SetRunning, EndLoop, ServerTypeOK
<1>2. CASE ClearRunning \/ ShutPool \/ StopReturns
  BY <1>2, ElsewhereIs DEF Elsewhere, ClearRunning, ShutPool, StopReturns, ServerTypeOK
<1>3. CASE CloseSocket
  <2>1. at' \in [Conns -> Labels]
    BY <1>3 DEF CloseSocket, ServerTypeOK, Labels
  <2>2. QED
    BY <1>3, <2>1 DEF CloseSocket, replyVars, ServerTypeOK
<1>4. ASSUME NEW c \in Conns, Accept(c) \/ Connect(c) PROVE ServerTypeOK'
  BY <1>4, PyServerAssumption DEF Accept, Connect, serverVars, replyVars, ServerTypeOK, Labels
<1>5. ASSUME NEW c \in Conns, Submit(c) PROVE ServerTypeOK'
  <2>1. Append(pool, c) \in Seq(Conns)
    BY AppendIs DEF ServerTypeOK
  <2>2. QED
    BY <1>5, <2>1 DEF Submit, replyVars, ServerTypeOK, Labels
<1>6. ASSUME NEW c \in Conns, Pick(c) PROVE ServerTypeOK'
  <2>1. pool' \in Seq(Conns)
    BY <1>6, TailIs DEF Pick, ServerTypeOK
  <2>2. stats' \in [Counters -> Nat]
    BY <1>6 DEF Pick, CountAs, Counters, ServerTypeOK
  <2>3. at' \in [Conns -> Labels]
    BY <1>6 DEF Pick, ServerTypeOK, Labels, Handling
  <2>4. QED
    BY <1>6, <2>1, <2>2, <2>3 DEF Pick, ServerTypeOK
<1>7. ASSUME NEW c \in Conns, Handle(c) PROVE ServerTypeOK'
  <2>1. at' \in [Conns -> Labels]
    BY <1>7, HandleTypes DEF GoesTo, Labels, Ends
  <2>2. QED
    BY <1>7, <2>1, HandleTypes, HandleIs DEF ServerTypeOK
<1>8. QED
  BY <1>1, <1>2, <1>3, <1>4, <1>5, <1>6, <1>7, ServerSteps DEF Elsewhere
-----------------------------------------------------------------------------
(* The pool, the accepted connection and the end of stop *)

LEMMA HoldsNext ==
  ASSUME ServerTypeOK, HoldsOK, HandledOK, ServerNext
  PROVE  HoldsOK'
<1>1. /\ Inj(pool) /\ \A i \in 1 .. Len(pool) : at[pool[i]] = "queued" /\ pool[i] \in Conns
      /\ held # "none" => at[held] = "accepted" /\ held \in Conns
      /\ at \in [Conns -> Labels] /\ pool \in Seq(Conns) /\ Len(pool) \in Nat
      /\ start = "submit" <=> held # "none"
  <2>1. pool \in Seq(Conns)
    BY DEF ServerTypeOK
  <2>2. QED
    BY <2>1, ElemsIn DEF HoldsOK, ServerTypeOK
<1>2. CASE Elsewhere
  BY <1>1, <1>2, ElsewhereIs DEF HoldsOK
<1>3. ASSUME \A d \in Conns : at[d] \in {"queued", "accepted"} => at'[d] = at[d],
             pool' = pool, held' = held
      PROVE  HoldsOK'
  BY <1>1, <1>3 DEF HoldsOK
<1>4. CASE CloseSocket
  BY <1>1, <1>3, <1>4 DEF CloseSocket
<1>5. ASSUME NEW c \in Conns, Connect(c) \/ Handle(c) PROVE HoldsOK'
  <2>1. at[c] \notin {"queued", "accepted"}
    BY <1>5, HandleTypes DEF Connect, Handling
  <2>2. /\ pool' = pool /\ held' = held /\ \A d \in Conns \ {c} : at'[d] = at[d]
    BY <1>1, <1>5, HandleTypes, HandleIs DEF Connect, serverVars, GoesTo
  <2>3. QED
    BY <1>3, <2>1, <2>2
<1>6. ASSUME NEW c \in Conns, Accept(c) PROVE HoldsOK'
  <2>1. pool' = pool /\ held' = c /\ at' = [at EXCEPT ![c] = "accepted"] /\ at[c] = "backlog"
    BY <1>6 DEF Accept
  <2>2. QED
    BY <1>1, <2>1 DEF HoldsOK
<1>7. ASSUME NEW c \in Conns, Submit(c) PROVE HoldsOK'
  <2>1. at[c] = "accepted" /\ held = c /\ held' = "none"
    BY <1>1, <1>7, PyServerAssumption DEF Submit
  <2>2. CASE poolShut
    BY <1>1, <1>7, <2>1, <2>2 DEF Submit, HoldsOK
  <2>3. CASE ~poolShut
    <3>1. pool' = Append(pool, c) /\ at' = [at EXCEPT ![c] = "queued"]
      BY <1>7, <2>3 DEF Submit
    <3>2. /\ Len(pool') = Len(pool) + 1 /\ pool'[Len(pool) + 1] = c
          /\ \A i \in 1 .. Len(pool) : pool'[i] = pool[i]
      BY <1>1, <3>1, AppendIs
    <3>3. \A i \in 1 .. Len(pool') : \/ i \in 1 .. Len(pool) /\ pool'[i] = pool[i]
                                     \/ i = Len(pool) + 1 /\ pool'[i] = c
      BY <1>1, <3>2
    <3>4. \A i \in 1 .. Len(pool) : pool[i] # c
      BY <1>1, <2>1
    <3>5. Inj(pool')
      BY <1>1, <3>3, <3>4 DEF Inj
    <3>6. \A i \in 1 .. Len(pool') : at'[pool'[i]] = "queued"
      BY <1>1, <3>1, <3>3
    <3>7. QED
      BY <2>1, <3>5, <3>6 DEF HoldsOK
  <2>4. QED
    BY <2>2, <2>3
<1>8. ASSUME NEW c \in Conns, Pick(c) PROVE HoldsOK'
  <2>1. /\ pool # <<>> /\ Head(pool) = c /\ pool' = Tail(pool) /\ held' = held
        /\ at' = [at EXCEPT ![c] = "read"]
    BY <1>8 DEF Pick
  <2>2. /\ pool[1] = c /\ Len(pool) >= 1 /\ Len(pool') = Len(pool) - 1
        /\ \A i \in 1 .. Len(pool) - 1 : pool'[i] = pool[i + 1]
    BY <1>1, <2>1, TailIs
  <2>3. \A i \in 1 .. Len(pool') : /\ i + 1 \in 1 .. Len(pool) /\ 1 \in 1 .. Len(pool)
                                   /\ i + 1 # 1 /\ pool'[i] = pool[i + 1]
    BY <1>1, <2>2
  <2>4. \A i, j \in 1 .. Len(pool') : i + 1 = j + 1 => i = j
    BY <1>1, <2>2
  <2>5. Inj(pool')
    BY <1>1, <2>3, <2>4 DEF Inj
  <2>6. \A i \in 1 .. Len(pool') : pool'[i] # c /\ pool'[i] \in Conns /\ at[pool'[i]] = "queued"
    BY <1>1, <2>2, <2>3 DEF Inj
  <2>7. at[c] = "queued"
    BY <1>1, <2>2, <2>1
  <2>8. \A i \in 1 .. Len(pool') : at'[pool'[i]] = "queued"
    BY <1>1, <2>1, <2>6
  <2>9. held' # "none" => at'[held'] = "accepted"
    BY <1>1, <2>1, <2>7
  <2>10. QED
    BY <2>5, <2>8, <2>9 DEF HoldsOK
<1>9. QED
  BY <1>2, <1>4, <1>5, <1>6, <1>7, <1>8, ServerSteps

LEMMA StopNext ==
  ASSUME ServerTypeOK, HandledOK, HoldsOK, StopOK, ServerNext
  PROVE  StopOK'
<1>1. PoolEmpty <=> pool = <<>> /\ \A c \in Conns : at[c] \notin Handling
  BY DEF PoolEmpty, In
<1>2. PoolEmpty' <=> pool' = <<>> /\ \A c \in Conns : at'[c] \notin Handling
  BY DEF PoolEmpty, In
<1>3. StopOK <=> /\ stop \in {"wait", "returned"} => poolShut
                 /\ stop = "returned" => PoolEmpty
  BY DEF StopOK, StopIsFinal
<1>4. StopOK' <=> /\ stop' \in {"wait", "returned"} => poolShut'
                  /\ stop' = "returned" => PoolEmpty'
  BY DEF StopOK, StopIsFinal
<1>5. at \in [Conns -> Labels]
  BY DEF ServerTypeOK
<1>6. CASE Elsewhere
  <2>1. PoolEmpty' <=> PoolEmpty
    BY <1>1, <1>2, <1>6, ElsewhereIs
  <2>2. CASE Listen \/ SetRunning \/ EndLoop
    BY <1>3, <1>4, <2>1, <2>2 DEF Listen, SetRunning, EndLoop
  <2>3. CASE ClearRunning \/ ShutPool
    BY <1>3, <1>4, <2>1, <2>3 DEF ClearRunning, ShutPool
  <2>4. CASE StopReturns
    BY <1>3, <1>4, <2>1, <2>4 DEF StopReturns, PoolDone
  <2>5. QED
    BY <1>6, <2>2, <2>3, <2>4 DEF Elsewhere
<1>7. CASE CloseSocket
  BY <1>4, <1>7 DEF CloseSocket
<1>8. ASSUME NEW c \in Conns, Accept(c) \/ Connect(c) PROVE StopOK'
  <2>1. /\ stop' = stop /\ poolShut' = poolShut /\ pool' = pool
        /\ at' = [at EXCEPT ![c] = "accepted"] \/ at' = [at EXCEPT ![c] = "backlog"]
    BY <1>8 DEF Accept, Connect, serverVars
  <2>2. PoolEmpty => PoolEmpty'
    BY <1>1, <1>2, <1>5, <2>1 DEF Handling
  <2>3. QED
    BY <1>3, <1>4, <2>1, <2>2
<1>9. ASSUME NEW c \in Conns, Submit(c) PROVE StopOK'
  <2>1. stop' = stop /\ poolShut' = poolShut
    BY <1>9 DEF Submit
  <2>2. CASE poolShut
    <3>1. pool' = pool /\ at' = [at EXCEPT ![c] = "closed"]
      BY <1>9, <2>2 DEF Submit
    <3>2. PoolEmpty => PoolEmpty'
      BY <1>1, <1>2, <1>5, <3>1 DEF Handling
    <3>3. QED
      BY <1>3, <1>4, <2>1, <3>2
  <2>3. CASE ~poolShut
    BY <1>3, <1>4, <2>1, <2>3
  <2>4. QED
    BY <2>2, <2>3
<1>10. ASSUME NEW c \in Conns, Pick(c) PROVE StopOK'
  <2>1. stop' = stop /\ poolShut' = poolShut /\ ~PoolEmpty
    BY <1>1, <1>10 DEF Pick
  <2>2. QED
    BY <1>3, <1>4, <2>1
<1>11. ASSUME NEW c \in Conns, Handle(c) PROVE StopOK'
  <2>1. stop' = stop /\ poolShut' = poolShut /\ ~PoolEmpty
    BY <1>1, <1>11, HandleIs, HandleTypes
  <2>2. QED
    BY <1>3, <1>4, <2>1
<1>12. QED
  BY <1>6, <1>7, <1>8, <1>9, <1>10, <1>11, ServerSteps

LEMMA HandledNext ==
  ASSUME ServerTypeOK, HoldsOK, HandledOK, ServerNext
  PROVE  HandledOK'
<1> DEFINE Early == {"new", "backlog", "accepted", "queued", "read", "check"}
           Unanswered == Early \cup {"decided", "raised", "reply"}
           Fits1(p, o, a, v) == /\ p = "count" => o \in {"blocked", "permitted", "errors"}
                                /\ p \in Unanswered => a = "none"
                                /\ p \in Early => v = "none"
                                /\ p = "decided" => v \in {"PERMIT", "BLOCK"}
<1>1. HandledOK <=> \A c \in Conns : Fits1(at[c], outcome[c], answer[c], verdict[c])
  BY DEF HandledOK
<1>2. HandledOK' <=> \A c \in Conns : Fits1(at'[c], outcome'[c], answer'[c], verdict'[c])
  BY DEF HandledOK
<1>3. /\ at \in [Conns -> Labels] /\ outcome \in [Conns -> Counters \cup {"none"}]
      /\ answer \in [Conns -> {"none", "PERMIT", "BLOCK"}]
      /\ verdict \in [Conns -> {"none", "PERMIT", "BLOCK"}]
  BY DEF ServerTypeOK
<1>4. CASE Elsewhere
  BY <1>1, <1>2, <1>4, ElsewhereIs
<1>5. CASE CloseSocket
  BY <1>1, <1>2, <1>3, <1>5 DEF CloseSocket, replyVars
<1>6. ASSUME NEW c \in Conns, Accept(c) \/ Connect(c) PROVE HandledOK'
  BY <1>1, <1>2, <1>3, <1>6 DEF Accept, Connect, replyVars
<1>7. ASSUME NEW c \in Conns, Submit(c) PROVE HandledOK'
  <2>1. at[c] = "accepted"
    BY <1>7, PyServerAssumption DEF Submit, HoldsOK
  <2>2. /\ at' = [at EXCEPT ![c] = "closed"] \/ at' = [at EXCEPT ![c] = "queued"]
        /\ outcome' = outcome /\ answer' = answer /\ verdict' = verdict
    BY <1>7 DEF Submit, replyVars
  <2>3. QED
    BY <1>1, <1>2, <1>3, <2>1, <2>2
<1>8. ASSUME NEW c \in Conns, Pick(c) PROVE HandledOK'
  <2>1. at[c] = "queued"
    <3>1. pool \in Seq(Conns) /\ pool # <<>> /\ Head(pool) = c
      BY <1>8 DEF Pick, ServerTypeOK
    <3>2. pool[1] = c /\ 1 \in 1 .. Len(pool)
      BY <3>1, TailIs
    <3>3. QED
      BY <3>2 DEF HoldsOK
  <2>2. QED
    BY <1>1, <1>2, <1>3, <1>8, <2>1 DEF Pick
<1>9. ASSUME NEW c \in Conns, Handle(c) PROVE HandledOK'
  <2>1. CASE ReadNothing(c) \/ FailOpen(c)
    BY <1>1, <1>2, <1>3, <2>1 DEF ReadNothing, FailOpen, SendAnswer
  <2>2. CASE ReadMalformed(c) \/ CheckRaised(c)
    BY <1>1, <1>2, <1>3, <2>2 DEF ReadMalformed, CheckRaised, SendAnswer, Then
  <2>3. CASE ReadRequest(c) \/ CloseConn(c)
    BY <1>1, <1>2, <1>3, <2>3 DEF ReadRequest, CloseConn, replyVars
  <2>4. CASE Check(c)
    BY <1>1, <1>2, <1>3, <2>4 DEF Check, replyVars
  <2>5. CASE Late(c)
    BY <1>1, <1>2, <1>3, <2>5 DEF Late
  <2>6. CASE InTime(c)
    <3>1. /\ at' = [at EXCEPT ![c] = "count"] /\ verdict' = verdict
          /\ \E k \in {"blocked", "permitted", "errors"} : outcome' = [outcome EXCEPT ![c] = k]
          /\ \A d \in Conns : d # c => answer'[d] = answer[d]
      BY <1>3, <2>6 DEF InTime, Then
    <3>2. QED
      BY <1>1, <1>2, <1>3, <3>1
  <2>7. CASE AddOne(c)
    BY <1>1, <1>2, <1>3, <2>7 DEF AddOne
  <2>8. QED
    BY <1>9, <2>1, <2>2, <2>3, <2>4, <2>5, <2>6, <2>7 DEF Handle
<1>10. QED
  BY <1>4, <1>5, <1>6, <1>7, <1>8, <1>9, ServerSteps
-----------------------------------------------------------------------------
(* The statistics *)

\* A connection counted in total and not yet by how it ended.
Open == Handling \ {"reply", "release"}

\* What stats() says of how connections ended.
EndedAs(s, u) == s["blocked"] + s["permitted"] + s["errors"] + s["fail_open"] + u

LEMMA StatsNext ==
  ASSUME ServerTypeOK, HoldsOK, HandledOK, CountersAddUp, ServerNext
  PROVE  CountersAddUp'
<1> DEFINE N == Cardinality(In(Open))
<1>1. N \in Nat
  BY InIsFinite
<1>2. CountersAddUp <=> stats["total"] = EndedAs(stats, unread) + N
  BY DEF CountersAddUp, EndedAs, Open
<1>3. CountersAddUp' <=> stats'["total"] = EndedAs(stats', unread') + N'
  BY DEF CountersAddUp, EndedAs, Open
<1> HIDE DEF N
<1>4. /\ "total" \in Counters /\ "blocked" \in Counters /\ "permitted" \in Counters
      /\ "errors" \in Counters /\ "fail_open" \in Counters
  BY DEF Counters
<1>5. /\ at \in [Conns -> Labels] /\ stats \in [Counters -> Nat] /\ unread \in Nat
  BY DEF ServerTypeOK
<1>6. stats["total"] \in Nat /\ EndedAs(stats, unread) \in Nat
  BY <1>4, <1>5 DEF EndedAs
<1>7. ASSUME stats' = stats, unread' = unread, N' = N PROVE CountersAddUp'
  BY <1>2, <1>3, <1>7
<1>8. ASSUME NEW c \in Conns, NEW CONSTANT p \in Labels, at' = [at EXCEPT ![c] = p],
             at[c] \in Open <=> p \in Open, stats' = stats, unread' = unread
      PROVE  CountersAddUp'
  <2>1. GoesTo(c, p)
    BY <1>5, <1>8 DEF GoesTo
  <2>2. N' = N
    BY <1>8, <2>1, StaysIn DEF N
  <2>3. QED
    BY <1>7, <1>8, <2>2
<1>9. CASE Elsewhere
  <2>1. at' = at
    BY <1>9, ElsewhereIs
  <2>2. N' = N
    BY <2>1 DEF N, In
  <2>3. QED
    BY <1>7, <1>9, <2>2, ElsewhereIs
<1>10. CASE CloseSocket
  <2>1. In(Open)' = In(Open)
    BY <1>5, <1>10 DEF CloseSocket, In, Open, Handling
  <2>2. N' = N
    BY <2>1 DEF N
  <2>3. QED
    BY <1>7, <1>10, <2>2 DEF CloseSocket, replyVars
<1>11. ASSUME NEW c \in Conns, Accept(c) \/ Connect(c) PROVE CountersAddUp'
  <2>1. CASE Accept(c)
    BY <1>8, <2>1 DEF Accept, replyVars, Open, Handling, Labels
  <2>2. CASE Connect(c)
    BY <1>8, <2>2 DEF Connect, replyVars, Open, Handling, Labels
  <2>3. QED
    BY <1>11, <2>1, <2>2
<1>12. ASSUME NEW c \in Conns, Submit(c) PROVE CountersAddUp'
  <2>1. at[c] = "accepted" /\ stats' = stats /\ unread' = unread
    BY <1>12, PyServerAssumption DEF Submit, HoldsOK, replyVars
  <2>2. at' = [at EXCEPT ![c] = "closed"] \/ at' = [at EXCEPT ![c] = "queued"]
    BY <1>12 DEF Submit
  <2>3. QED
    BY <1>8, <2>1, <2>2 DEF Open, Handling, Labels
<1>13. ASSUME NEW c \in Conns, Pick(c) PROVE CountersAddUp'
  <2>1. at[c] = "queued"
    <3>1. pool \in Seq(Conns) /\ pool # <<>> /\ Head(pool) = c
      BY <1>13 DEF Pick, ServerTypeOK
    <3>2. pool[1] = c /\ 1 \in 1 .. Len(pool)
      BY <3>1, TailIs
    <3>3. QED
      BY <3>2 DEF HoldsOK
  <2>2. GoesTo(c, "read") /\ unread' = unread
    BY <1>5, <1>13 DEF Pick, GoesTo
  <2>3. N' = N + 1
    BY <2>1, <2>2, ComesIn DEF N, Open, Handling
  <2>4. stats' = [stats EXCEPT !["total"] = @ + 1]
    BY <1>13 DEF Pick, CountAs
  <2>5. stats'["total"] = stats["total"] + 1 /\ EndedAs(stats', unread') = EndedAs(stats, unread)
    BY <1>4, <1>5, <2>2, <2>4 DEF EndedAs
  <2>6. QED
    BY <1>1, <1>2, <1>3, <1>6, <2>3, <2>5
<1>14. ASSUME NEW c \in Conns, NEW CONSTANT p \in {"release", "reply"},
              at' = [at EXCEPT ![c] = p], at[c] \in Open,
              stats'["total"] = stats["total"],
              EndedAs(stats', unread') = EndedAs(stats, unread) + 1
       PROVE  CountersAddUp'
  <2>1. GoesTo(c, p) /\ p \notin Open
    BY <1>5, <1>14 DEF GoesTo, Open
  <2>2. N' = N - 1
    BY <1>14, <2>1, GoesOut DEF N
  <2>3. QED
    BY <1>1, <1>2, <1>3, <1>6, <1>14, <2>2
<1>15. ASSUME NEW c \in Conns, Handle(c) PROVE CountersAddUp'
  <2>1. CASE ReadNothing(c)
    <3>1. EndedAs(stats', unread') = EndedAs(stats, unread) + 1 /\ stats' = stats
      BY <1>4, <1>5, <2>1 DEF ReadNothing, EndedAs
    <3>2. at[c] \in Open /\ at' = [at EXCEPT ![c] = "release"]
      BY <2>1 DEF ReadNothing, Open, Handling
    <3>3. QED
      BY <1>14, <3>1, <3>2
  <2>2. CASE ReadMalformed(c) \/ CheckRaised(c)
    BY <1>8, <2>2 DEF ReadMalformed, CheckRaised, Then, Open, Handling, Labels
  <2>3. CASE ReadRequest(c) \/ CloseConn(c)
    BY <1>8, <2>3 DEF ReadRequest, CloseConn, replyVars, Open, Handling, Labels
  <2>4. CASE Check(c)
    BY <1>8, <2>4 DEF Check, replyVars, Open, Handling, Labels
  <2>5. CASE Late(c)
    <3>1. stats' = [stats EXCEPT !["fail_open"] = @ + 1] /\ unread' = unread
      BY <2>5 DEF Late, CountAs
    <3>2. stats'["total"] = stats["total"] /\ EndedAs(stats', unread') = EndedAs(stats, unread) + 1
      BY <1>4, <1>5, <3>1 DEF EndedAs
    <3>3. at[c] \in Open /\ at' = [at EXCEPT ![c] = "reply"]
      BY <2>5 DEF Late, Open, Handling
    <3>4. QED
      BY <1>14, <3>2, <3>3
  <2>6. CASE FailOpen(c)
    BY <1>8, <2>6 DEF FailOpen, Open, Handling, Labels
  <2>7. CASE InTime(c)
    BY <1>8, <2>7 DEF InTime, Then, Open, Handling, Labels
  <2>8. CASE AddOne(c)
    <3>1. outcome[c] \in {"blocked", "permitted", "errors"}
      BY <2>8 DEF AddOne, HandledOK
    <3>2. stats' = [stats EXCEPT ![outcome[c]] = @ + 1] /\ unread' = unread
      BY <2>8 DEF AddOne, CountAs
    <3>3. stats'["total"] = stats["total"]
      BY <1>4, <1>5, <3>1, <3>2
    <3>4. EndedAs(stats', unread') = EndedAs(stats, unread) + 1
      BY <1>4, <1>5, <3>1, <3>2 DEF EndedAs
    <3>5. at[c] \in Open /\ at' = [at EXCEPT ![c] = "release"]
      BY <2>8 DEF AddOne, Open, Handling
    <3>6. QED
      BY <1>14, <3>3, <3>4, <3>5
  <2>9. QED
    BY <1>15, <2>1, <2>2, <2>3, <2>4, <2>5, <2>6, <2>7, <2>8 DEF Handle
<1>16. QED
  BY <1>9, <1>10, <1>11, <1>12, <1>13, <1>15, ServerSteps
-----------------------------------------------------------------------------
(* The socket server's invariant *)

LEMMA InitServer ==
  ASSUME ServerInit
  PROVE  ServerInv
<1>1. /\ at = [c \in Conns |-> "new"] /\ start = "new" /\ stop = "new"
      /\ running = FALSE /\ poolShut = FALSE /\ path = FALSE
      /\ listener = "none" /\ held = "none" /\ pool = <<>>
      /\ stats = [k \in Counters |-> 0] /\ unread = 0
      /\ outcome = [c \in Conns |-> "none"] /\ verdict = [c \in Conns |-> "none"]
      /\ answer = [c \in Conns |-> "none"]
  BY DEF ServerInit
<1>2. pool \in Seq(Conns) /\ Len(pool) = 0
  BY <1>1, EmptySeq
<1>3. ServerTypeOK
  <2>1. at \in [Conns -> Labels]
    BY <1>1 DEF Labels
  <2>2. {running, poolShut, path} \subseteq BOOLEAN
    BY <1>1
  <2>3. stats \in [Counters -> Nat]
    BY <1>1
  <2>4. QED
    BY <1>1, <1>2, <2>1, <2>2, <2>3 DEF ServerTypeOK
<1>4. HoldsOK
  BY <1>1, <1>2 DEF HoldsOK, Inj
<1>5. StopOK
  BY <1>1 DEF StopOK, StopIsFinal
<1>6. HandledOK
  BY <1>1 DEF HandledOK
<1>7. CountersAddUp
  <2>1. In(Handling \ {"reply", "release"}) = {}
    BY <1>1 DEF In, Handling
  <2>2. \A k \in {"total", "blocked", "permitted", "errors", "fail_open"} : stats[k] = 0
    BY <1>1 DEF Counters
  <2>3. Cardinality(In(Handling \ {"reply", "release"})) = 0
    BY <2>1, FS_EmptySet
  <2>4. QED
    BY <1>1, <2>2, <2>3 DEF CountersAddUp
<1>8. QED
  BY <1>3, <1>4, <1>5, <1>6, <1>7 DEF ServerInv

LEMMA ServerStep ==
  ASSUME ServerInv, [ServerNext]_socketVars
  PROVE  ServerInv'
<1>1. ServerTypeOK /\ HoldsOK /\ StopOK /\ HandledOK /\ CountersAddUp
  BY DEF ServerInv
<1>2. CASE ServerNext
  BY <1>1, <1>2, ServerTypeNext, HoldsNext, StopNext, HandledNext, StatsNext DEF ServerInv
<1>3. CASE UNCHANGED socketVars
  <2>1. /\ at' = at /\ verdict' = verdict /\ start' = start /\ stop' = stop
        /\ running' = running /\ listener' = listener /\ path' = path /\ held' = held
        /\ pool' = pool /\ poolShut' = poolShut /\ stats' = stats /\ outcome' = outcome
        /\ answer' = answer /\ unread' = unread
    BY <1>3 DEF socketVars, serverVars, replyVars
  <2>2. ServerTypeOK' /\ HoldsOK' /\ HandledOK'
    BY <1>1, <2>1 DEF ServerTypeOK, HoldsOK, HandledOK
  <2>3. StopOK' /\ CountersAddUp'
    BY <1>1, <2>1 DEF StopOK, StopIsFinal, PoolEmpty, CountersAddUp, In
  <2>4. QED
    BY <2>2, <2>3 DEF ServerInv
<1>4. QED
  BY <1>2, <1>3

LEMMA ServerInvariance == ServerSpec => []ServerInv
<1>1. ServerInit => ServerInv
  BY InitServer
<1>2. ServerInv /\ [ServerNext]_socketVars => ServerInv'
  BY ServerStep
<1>3. QED
  BY <1>1, <1>2, PTL DEF ServerSpec

\* The variables of the socket server have their types.
THEOREM ServerTypeCorrect == ServerSpec => []ServerTypeOK
<1>1. ServerInv => ServerTypeOK
  BY DEF ServerInv
<1>2. QED
  BY <1>1, ServerInvariance, PTL

\* The counters of stats() account for every connection a worker has taken, whatever
\* raised on the way.
THEOREM StatsAddUp == ServerSpec => []CountersAddUp
<1>1. ServerInv => CountersAddUp
  BY DEF ServerInv
<1>2. QED
  BY <1>1, ServerInvariance, PTL

\* Once stop has returned no connection is in the pool or handled, whatever the accept
\* loop still holds.
THEOREM StoppedIsFinal == ServerSpec => []StopIsFinal
<1>1. ServerInv => StopIsFinal
  BY DEF ServerInv, StopOK
<1>2. QED
  BY <1>1, ServerInvariance, PTL
-----------------------------------------------------------------------------
(* The socket server is a VerdictService *)

\* The abstract state of the connections.
Seen == [c \in Conns |-> IF at[c] \in {"new", "closed"} THEN at[c] ELSE "open"]

LEMMA SeenIs ==
  ASSUME ServerTypeOK
  PROVE  /\ \A c \in Conns : at[c] \notin {"new", "closed"} => Seen[c] = "open"
         /\ \A c \in Conns : at[c] = "new" => Seen[c] = "new"
         /\ \A c \in Conns, p \in Labels \ {"new", "closed"} :
              at' = [at EXCEPT ![c] = p] => Seen' = [Seen EXCEPT ![c] = "open"]
         /\ \A c \in Conns, p \in Labels \ {"new", "closed"} :
              at' = [at EXCEPT ![c] = p] /\ at[c] \notin {"new", "closed"} => Seen' = Seen
         /\ \A c \in Conns : at' = [at EXCEPT ![c] = "closed"] =>
              Seen' = [d \in Conns |-> IF d \in {c} THEN "closed" ELSE Seen[d]]
BY DEF Seen, ServerTypeOK

LEMMA ServiceStep ==
  ASSUME ServerInv, ServerNext
  PROVE  Service!Next \/ UNCHANGED Service!vars
<1>1. ServerTypeOK /\ HoldsOK /\ HandledOK
  BY DEF ServerInv
<1>2. ASSUME Seen' = Seen, verdict' = verdict, answer' = answer
      PROVE  UNCHANGED Service!vars
  BY <1>2 DEF Seen, Service!vars
<1>3. ASSUME NEW c \in Conns, at[c] \notin {"new", "closed"}, answer[c] = "none",
             Seen' = Seen, verdict' = verdict,
             NEW a \in {"PERMIT", "BLOCK"}, a = "BLOCK" => verdict[c] = "BLOCK",
             answer' = [answer EXCEPT ![c] = a] \/ answer' = answer
      PROVE  Service!Reply(c) \/ UNCHANGED Service!vars
  <2>1. Seen[c] = "open"
    BY <1>1, <1>3, SeenIs
  <2>2. CASE answer' = [answer EXCEPT ![c] = a]
    BY <1>3, <2>1, <2>2 DEF Service!Reply, Seen
  <2>3. CASE answer' = answer
    BY <1>2, <1>3, <2>3
  <2>4. QED
    BY <1>3, <2>2, <2>3
<1>4. ASSUME NEW c \in Conns, at[c] \notin {"new", "closed"},
             at' = [at EXCEPT ![c] = "closed"], verdict' = verdict, answer' = answer
      PROVE  Service!Next
  <2>1. Seen[c] = "open" /\ Seen' = [d \in Conns |-> IF d \in {c} THEN "closed" ELSE Seen[d]]
    BY <1>1, <1>4, SeenIs
  <2>2. Service!Close({c})
    BY <1>4, <2>1 DEF Service!Close, Seen
  <2>3. QED
    BY <2>2 DEF Service!Next
<1>5. CASE Elsewhere
  BY <1>2, <1>5, ElsewhereIs DEF Seen
<1>6. CASE CloseSocket
  <2>1. verdict' = verdict /\ answer' = answer
    BY <1>6 DEF CloseSocket, replyVars
  <2>2. CASE listener = "open"
    <3>1. PICK S \in SUBSET Conns : S = {c \in Conns : at[c] = "backlog"}
      OBVIOUS
    <3>2. \A c \in S : Seen[c] = "open"
      BY <3>1 DEF Seen
    <3>3. Seen' = [c \in Conns |-> IF c \in S THEN "closed" ELSE Seen[c]]
      BY <1>1, <1>6, <2>2, <3>1 DEF CloseSocket, Seen, ServerTypeOK
    <3>4. Service!Close(S)
      BY <2>1, <3>2, <3>3 DEF Service!Close, Seen
    <3>5. QED
      BY <3>4 DEF Service!Next
  <2>3. CASE listener # "open"
    BY <1>2, <1>6, <2>1, <2>3 DEF CloseSocket, Seen
  <2>4. QED
    BY <2>2, <2>3
<1>7. ASSUME NEW c \in Conns, Accept(c) PROVE UNCHANGED Service!vars
  <2>1. Seen' = Seen
    BY <1>1, <1>7, SeenIs DEF Accept, Labels
  <2>2. QED
    BY <1>2, <1>7, <2>1 DEF Accept, replyVars
<1>8. ASSUME NEW c \in Conns, Submit(c) PROVE Service!Next \/ UNCHANGED Service!vars
  <2>1. at[c] = "accepted" /\ verdict' = verdict /\ answer' = answer
    BY <1>1, <1>8, PyServerAssumption DEF Submit, HoldsOK, replyVars
  <2>2. CASE at' = [at EXCEPT ![c] = "closed"]
    BY <1>4, <2>1, <2>2
  <2>3. CASE at' = [at EXCEPT ![c] = "queued"]
    BY <1>1, <1>2, <2>1, <2>3, SeenIs DEF Labels
  <2>4. QED
    BY <1>8, <2>2, <2>3 DEF Submit
<1>9. ASSUME NEW c \in Conns, Connect(c) PROVE Service!Connect(c)
  <2>1. Seen[c] = "new" /\ Seen' = [Seen EXCEPT ![c] = "open"]
    BY <1>1, <1>9, SeenIs DEF Connect, Labels
  <2>2. QED
    BY <1>9, <2>1 DEF Connect, replyVars, Service!Connect, Seen
<1>10. ASSUME NEW c \in Conns, Pick(c) PROVE UNCHANGED Service!vars
  <2>1. at[c] = "queued"
    <3>1. pool \in Seq(Conns) /\ pool # <<>> /\ Head(pool) = c
      BY <1>1, <1>10 DEF Pick, ServerTypeOK
    <3>2. pool[1] = c /\ 1 \in 1 .. Len(pool)
      BY <3>1, TailIs
    <3>3. QED
      BY <1>1, <3>2 DEF HoldsOK
  <2>2. Seen' = Seen
    BY <1>1, <1>10, <2>1, SeenIs DEF Pick, Labels, Handling
  <2>3. QED
    BY <1>2, <1>10, <2>2 DEF Pick
<1>11. ASSUME NEW c \in Conns, Handle(c)
       PROVE  Service!Next \/ Service!Decide(c) \/ Service!Reply(c) \/ UNCHANGED Service!vars
  <2>1. at[c] \in Handling /\ at[c] \notin {"new", "closed"}
    BY <1>1, <1>11, HandleTypes DEF Handling
  <2>2. \A p \in Handling : at' = [at EXCEPT ![c] = p] => Seen' = Seen
    BY <1>1, <2>1, SeenIs DEF Labels, Handling
  <2>3. CASE ReadNothing(c) \/ ReadMalformed(c) \/ CheckRaised(c) \/ FailOpen(c)
    <3>1. /\ answer[c] = "none" /\ verdict' = verdict
          /\ answer' = [answer EXCEPT ![c] = "PERMIT"] \/ answer' = answer
          /\ at' = [at EXCEPT ![c] = "release"] \/ at' = [at EXCEPT ![c] = "count"]
      BY <1>1, <2>3 DEF ReadNothing, ReadMalformed, CheckRaised, FailOpen, Then, SendAnswer,
                        HandledOK
    <3>2. Seen' = Seen
      BY <2>2, <3>1 DEF Handling
    <3>3. QED
      BY <1>3, <2>1, <3>1, <3>2
  <2>4. CASE ReadRequest(c) \/ Late(c) \/ AddOne(c)
    <3>1. /\ verdict' = verdict /\ answer' = answer
          /\ \E p \in Handling : at' = [at EXCEPT ![c] = p]
      BY <2>4 DEF ReadRequest, Late, AddOne, replyVars, Handling
    <3>2. QED
      BY <1>2, <2>2, <3>1
  <2>5. CASE Check(c)
    <3>1. /\ answer' = answer /\ verdict[c] = "none" /\ answer[c] = "none"
          /\ at' = [at EXCEPT ![c] = "decided"] \/ at' = [at EXCEPT ![c] = "raised"]
          /\ \/ \E v \in {"PERMIT", "BLOCK"} : verdict' = [verdict EXCEPT ![c] = v]
             \/ verdict' = verdict
      BY <1>1, <2>5 DEF Check, replyVars, HandledOK
    <3>2. Seen' = Seen /\ Seen[c] = "open"
      BY <1>1, <2>1, <2>2, <3>1, SeenIs DEF Handling
    <3>3. CASE \E v \in {"PERMIT", "BLOCK"} : verdict' = [verdict EXCEPT ![c] = v]
      BY <3>1, <3>2, <3>3 DEF Service!Decide, Seen
    <3>4. CASE verdict' = verdict
      BY <1>2, <3>1, <3>2, <3>4
    <3>5. QED
      BY <3>1, <3>3, <3>4
  <2>6. CASE InTime(c)
    <3>1. /\ answer[c] = "none" /\ verdict' = verdict /\ verdict[c] \in {"PERMIT", "BLOCK"}
          /\ answer' = [answer EXCEPT ![c] = verdict[c]] \/ answer' = answer
          /\ at' = [at EXCEPT ![c] = "count"]
      BY <1>1, <2>6 DEF InTime, Then, HandledOK
    <3>2. Seen' = Seen
      BY <2>2, <3>1 DEF Handling
    <3>3. QED
      BY <1>3, <2>1, <3>1, <3>2
  <2>7. CASE CloseConn(c)
    BY <1>4, <2>1, <2>7 DEF CloseConn, replyVars
  <2>8. QED
    BY <1>11, <2>3, <2>4, <2>5, <2>6, <2>7 DEF Handle
<1>12. QED
  BY <1>5, <1>6, <1>7, <1>8, <1>9, <1>10, <1>11, ServerSteps DEF Service!Next

\* The Python agent keeps the promise to the web server modules as the Go agent does: one
\* answer per connection, BLOCK only when check said so.
THEOREM ServesVerdicts == ServerSpec => ImplementsVerdictService
<1>1. ServerInit => Service!Init
  BY DEF ServerInit, Service!Init
<1>2. ServerInv /\ [ServerNext]_socketVars => [Service!Next]_Service!vars
  <2>1. ASSUME UNCHANGED socketVars PROVE UNCHANGED Service!vars
    BY <2>1 DEF socketVars, replyVars, Service!vars
  <2>2. QED
    BY <2>1, ServiceStep
<1>3. QED
  BY <1>1, <1>2, ServerInvariance, PTL DEF ServerSpec, ImplementsVerdictService, Service!Spec
=============================================================================
