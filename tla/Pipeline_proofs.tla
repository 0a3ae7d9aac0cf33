--------------------------- MODULE Pipeline_proofs ---------------------------
(***************************************************************************)
(* For every set of keys, values, workers, requests, addresses and         *)
(* patterns, every queue capacity and batch size. The store: its types,    *)
(* the order of what is pending, that no row is replaced by an older       *)
(* write. The pipeline: every step of it is a step of the store, its       *)
(* types, shadow mode never blocks, a hot reload leaves no gap in the      *)
(* scan, closing flushes what was accepted, a block by address holds.      *)
(*                                                                         *)
(* The argument about the store follows the sequence Pending == ops \o     *)
(* writeCh. Queueing appends a newer write to it, taking a batch leaves it *)
(* as it is, and a transaction or a drained write removes a prefix and     *)
(* gives each row its old number or that of a write of that prefix.        *)
(***************************************************************************)
EXTENDS Pipeline, SequenceTheorems, WellFoundedInduction, TLAPS
-----------------------------------------------------------------------------
(* The store *)

\* The batch is only in use during a transaction: without this a drained write would
\* overtake what is left in ops.
BatchInUse == writer # "tx" => ops = <<>>

StoreInv == StoreTypeOK /\ PendingInOrder /\ BatchInUse

\* A set of positions has a greatest one: the last statement for a key exists.
LEMMA HasGreatest ==
  ASSUME NEW n \in Nat, NEW I \in SUBSET (1 .. n), I # {}
  PROVE  \E i \in I : \A j \in I : j <= i
<1> DEFINE T == {n - i : i \in I}
<1>1. T \subseteq Nat
  OBVIOUS
<1>2. PICK e \in I : TRUE
  OBVIOUS
<1>3. n - e \in T
  OBVIOUS
<1>4. PICK x \in T : \A y \in T : ~(<<y, x>> \in OpToRel(<, Nat))
  <2> HIDE DEF T
  <2> QED
    BY <1>1, <1>3, WFMin, NatLessThanWellFounded
<1>5. \A y \in T : ~(y < x)
  BY <1>1, <1>4 DEF OpToRel
<1>6. PICK i \in I : x = n - i
  BY <1>4
<1>7. ASSUME NEW j \in I PROVE j <= i
  <2>1. n - j \in T
    OBVIOUS
  <2>2. ~(n - j < n - i)
    BY <1>5, <1>6, <2>1
  <2>3. QED
    BY <2>2
<1>8. QED
  BY <1>7

\* Executing statements of a batch leaves a row as it is or gives it one of theirs.
LEMMA ExecutedRow ==
  ASSUME NEW batch \in Seq(Ops), NEW done \in SUBSET DOMAIN batch, NEW k \in Keys
  PROVE  \/ Executed(batch, done, k) = row[k]
         \/ \E i \in done : /\ batch[i].key = k
                            /\ Executed(batch, done, k) = [val |-> batch[i].val, n |-> batch[i].n]
<1> DEFINE I == {i \in done : batch[i].key = k}
<1>1. CASE I = {}
  BY <1>1 DEF Executed
<1>2. CASE I # {}
  <2>1. Len(batch) \in Nat /\ I \in SUBSET (1 .. Len(batch))
    BY LenProperties
  <2>2. \E i \in I : \A j \in I : j <= i
    <3> HIDE DEF I
    <3> QED
      BY <1>2, <2>1, HasGreatest
  <2> DEFINE i == CHOOSE i \in I : \A j \in I : j <= i
  <2>3. i \in I
    <3> HIDE DEF I
    <3> QED
      BY <2>2
  <2>4. Executed(batch, done, k) = [val |-> batch[i].val, n |-> batch[i].n]
    BY <1>2 DEF Executed
  <2>5. QED
    BY <2>3, <2>4
<1>3. QED
  BY <1>1, <1>2

\* What a batch does to the rows: types, and where the numbers come from.
LEMMA ExecutedRows ==
  ASSUME NEW batch \in Seq(Ops), NEW done \in SUBSET DOMAIN batch, row \in [Keys -> Rows],
         row' = [k \in Keys |-> Executed(batch, done, k)]
  PROVE  /\ row' \in [Keys -> Rows]
         /\ \A k \in Keys : \/ row'[k] = row[k]
                            \/ \E i \in done : /\ batch[i].key = k
                                               /\ row'[k].val = batch[i].val
                                               /\ row'[k].n = batch[i].n
<1>1. ASSUME NEW i \in done PROVE batch[i] \in Ops
  BY LenProperties, ElementOfSeq
<1>2. ASSUME NEW k \in Keys
      PROVE  /\ row'[k] \in Rows
             /\ \/ row'[k] = row[k]
                \/ \E i \in done : /\ batch[i].key = k
                                   /\ row'[k].val = batch[i].val
                                   /\ row'[k].n = batch[i].n
  <2>1. row'[k] = Executed(batch, done, k)
    OBVIOUS
  <2>2. CASE Executed(batch, done, k) = row[k]
    BY <2>1, <2>2
  <2>3. ASSUME NEW i \in done, batch[i].key = k,
               Executed(batch, done, k) = [val |-> batch[i].val, n |-> batch[i].n]
        PROVE  /\ row'[k] \in Rows
               /\ row'[k].val = batch[i].val /\ row'[k].n = batch[i].n
    BY <1>1, <2>1, <2>3 DEF Ops, Rows
  <2>4. QED
    BY <2>1, <2>2, <2>3, ExecutedRow
<1>3. QED
  BY <1>2
-----------------------------------------------------------------------------
LEMMA PendingType ==
  ASSUME StoreTypeOK
  PROVE  /\ ops \in Seq(Ops) /\ writeCh \in Seq(Ops) /\ Pending \in Seq(Ops)
         /\ Len(ops) \in Nat /\ Len(writeCh) \in Nat
         /\ Len(Pending) = Len(ops) + Len(writeCh)
         /\ DOMAIN Pending = 1 .. Len(Pending)
         /\ DOMAIN ops = 1 .. Len(ops) /\ DOMAIN writeCh = 1 .. Len(writeCh)
         /\ \A i \in 1 .. Len(Pending) : /\ Pending[i] \in Ops /\ Pending[i].n \in Nat
                                         /\ Pending[i] = IF i <= Len(ops) THEN ops[i]
                                                         ELSE writeCh[i - Len(ops)]
<1>1. ops \in Seq(Ops) /\ writeCh \in Seq(Ops)
  BY DEF StoreTypeOK
<1>2. /\ Pending \in Seq(Ops) /\ Len(Pending) = Len(ops) + Len(writeCh)
      /\ \A i \in 1 .. Len(ops) + Len(writeCh) :
           Pending[i] = IF i <= Len(ops) THEN ops[i] ELSE writeCh[i - Len(ops)]
  BY <1>1, ConcatProperties DEF Pending
<1>3. /\ Len(ops) \in Nat /\ Len(writeCh) \in Nat /\ DOMAIN Pending = 1 .. Len(Pending)
      /\ DOMAIN ops = 1 .. Len(ops) /\ DOMAIN writeCh = 1 .. Len(writeCh)
  BY <1>1, <1>2, LenProperties
<1>4. ASSUME NEW i \in 1 .. Len(Pending) PROVE Pending[i] \in Ops
  BY <1>2, ElementOfSeq
<1>5. \A i \in 1 .. Len(Pending) : Pending[i].n \in Nat
  BY <1>4 DEF Ops
<1>6. QED
  BY <1>1, <1>2, <1>3, <1>4, <1>5

\* A step that removes the first d pending writes and numbers each row with its old
\* number or that of a removed write keeps the order, and no number goes down.
LEMMA RemovePrefix ==
  ASSUME StoreTypeOK, PendingInOrder, seq' = seq,
         NEW d \in 0 .. Len(Pending),
         Pending' \in Seq(Ops), Len(Pending') = Len(Pending) - d,
         \A i \in 1 .. Len(Pending) - d : Pending'[i] = Pending[i + d],
         \A k \in Keys : \/ row'[k].n = row[k].n
                         \/ \E i \in 1 .. d : row'[k].n = Pending[i].n
  PROVE  PendingInOrder' /\ \A k \in Keys : row[k].n <= row'[k].n
<1>1. /\ DOMAIN Pending = 1 .. Len(Pending) /\ Len(Pending) \in Nat
      /\ \A i \in 1 .. Len(Pending) : Pending[i].n \in Nat
  BY PendingType, LenProperties
<1>2. DOMAIN Pending' = 1 .. Len(Pending) - d
  BY LenProperties
<1>3. seq \in Nat /\ \A k \in Keys : row[k].n \in Nat
  BY DEF StoreTypeOK, Rows
<1>4. \A i, j \in DOMAIN Pending' : i < j => Pending'[i].n < Pending'[j].n
  <2> SUFFICES ASSUME NEW i \in DOMAIN Pending', NEW j \in DOMAIN Pending', i < j
               PROVE  Pending'[i].n < Pending'[j].n
    OBVIOUS
  <2>1. i + d \in DOMAIN Pending /\ j + d \in DOMAIN Pending /\ i + d < j + d
    BY <1>1, <1>2
  <2>2. Pending'[i] = Pending[i + d] /\ Pending'[j] = Pending[j + d]
    BY <1>2
  <2>3. QED
    BY <2>1, <2>2 DEF PendingInOrder
<1>5. ASSUME NEW i \in DOMAIN Pending'
      PROVE  /\ i + d \in DOMAIN Pending /\ Pending'[i] = Pending[i + d]
             /\ Pending'[i].n <= seq'
  BY <1>1, <1>2 DEF PendingInOrder
<1>6. ASSUME NEW k \in Keys
      PROVE  /\ row[k].n <= row'[k].n /\ row'[k].n <= seq'
             /\ \A i \in DOMAIN Pending' : row'[k].n < Pending'[i].n
  <2>1. CASE row'[k].n = row[k].n
    BY <1>3, <1>5, <2>1 DEF PendingInOrder
  <2>2. CASE \E i \in 1 .. d : row'[k].n = Pending[i].n
    <3>1. PICK i \in 1 .. d : row'[k].n = Pending[i].n
      BY <2>2
    <3>2. i \in DOMAIN Pending /\ Pending[i].n \in Nat
      BY <1>1
    <3>3. row[k].n <= row'[k].n /\ row'[k].n <= seq'
      BY <1>3, <3>1, <3>2 DEF PendingInOrder
    <3>4. ASSUME NEW j \in DOMAIN Pending' PROVE row'[k].n < Pending'[j].n
      <4>1. /\ j + d \in DOMAIN Pending /\ Pending'[j] = Pending[j + d]
            /\ i < j + d
        BY <1>2, <1>5
      <4>2. QED
        BY <3>1, <3>2, <4>1 DEF PendingInOrder
    <3>5. QED
      BY <3>3, <3>4
  <2>3. QED
    BY <2>1, <2>2
<1>7. QED
  BY <1>4, <1>5, <1>6 DEF PendingInOrder

\* The instance of RemovePrefix where nothing is removed and no number changes.
LEMMA SameOrder ==
  ASSUME StoreTypeOK, PendingInOrder, seq' = seq, Pending' = Pending,
         \A k \in Keys : row'[k].n = row[k].n
  PROVE  PendingInOrder' /\ \A k \in Keys : row[k].n <= row'[k].n
<1>1. Len(Pending) \in Nat /\ Pending \in Seq(Ops)
  BY PendingType, LenProperties
<1>2. /\ 0 \in 0 .. Len(Pending) /\ Pending' \in Seq(Ops) /\ Len(Pending') = Len(Pending) - 0
      /\ \A i \in 1 .. Len(Pending) - 0 : Pending'[i] = Pending[i + 0]
  BY <1>1
<1>3. QED
  BY <1>2, RemovePrefix
-----------------------------------------------------------------------------
(* One lemma per action: it keeps StoreInv and lowers no number. *)

RowsGrow == \A k \in Keys : row[k].n <= row'[k].n

\* A step that queues nothing: what stays pending was pending, and a row keeps its value,
\* loses it, or takes that of a pending write of its key.
Executes ==
  /\ \A j \in DOMAIN Pending' : \E i \in DOMAIN Pending : Pending'[j] = Pending[i]
  /\ \A k \in Keys :
       \/ row'[k].val \in {row[k].val, None}
       \/ \E i \in DOMAIN Pending : Pending[i].key = k /\ row'[k].val = Pending[i].val

\* Queueing a write appends it to what is pending.
LEMMA QueuedLast ==
  ASSUME StoreTypeOK, NEW op \in Ops, ops' = ops, writeCh' = Append(writeCh, op)
  PROVE  /\ DOMAIN Pending = 1 .. Len(Pending) /\ DOMAIN Pending' = 1 .. Len(Pending) + 1
         /\ Len(Pending) \in Nat
         /\ \A i \in 1 .. Len(Pending) : Pending'[i] = Pending[i] /\ Pending[i].n \in Nat
         /\ Pending'[Len(Pending) + 1] = op
<1>1. Pending' = Append(Pending, op)
  <2>1. ops \in Seq(Ops) /\ writeCh \in Seq(Ops)
    BY DEF StoreTypeOK
  <2>2. /\ ops \o writeCh \in Seq(Ops) /\ <<op>> \in Seq(Ops)
        /\ ops \o (writeCh \o <<op>>) = (ops \o writeCh) \o <<op>>
    BY <2>1, ConcatProperties, ConcatAssociative
  <2>3. ops \o Append(writeCh, op) = Append(ops \o writeCh, op)
    BY <2>1, <2>2, AppendIsConcat
  <2>4. QED
    BY <2>3 DEF Pending
<1>2. /\ Pending \in Seq(Ops) /\ Len(Pending) \in Nat
      /\ DOMAIN Pending = 1 .. Len(Pending)
      /\ \A i \in 1 .. Len(Pending) : Pending[i].n \in Nat
  BY PendingType, LenProperties
<1>3. /\ Append(Pending, op) \in Seq(Ops)
      /\ Len(Append(Pending, op)) = Len(Pending) + 1
      /\ \A i \in 1 .. Len(Pending) : Append(Pending, op)[i] = Pending[i]
      /\ Append(Pending, op)[Len(Pending) + 1] = op
  BY <1>2, AppendProperties
<1>4. DOMAIN Append(Pending, op) = 1 .. Len(Pending) + 1
  BY <1>3, LenProperties
<1>5. QED
  BY <1>1, <1>2, <1>3, <1>4

LEMMA StoreInitInv == StoreInit => StoreInv
<1> SUFFICES ASSUME StoreInit PROVE StoreInv
  OBVIOUS
<1>1. /\ ops \in Seq(Ops) /\ writeCh \in Seq(Ops) /\ Len(ops) = 0 /\ Len(writeCh) = 0
      /\ writer = "select" /\ quit = FALSE /\ seq = 0
  BY EmptySeq DEF StoreInit
<1>2. row \in [Keys -> Rows] /\ \A k \in Keys : row[k].n = 0
  BY DEF StoreInit, Rows
<1>3. StoreTypeOK
  <2>1. Len(ops) <= BatchMax /\ Len(writeCh) <= QueueCap
    BY <1>1, StoreAssumption
  <2>2. QED
    BY <1>1, <1>2, <2>1 DEF StoreTypeOK
<1>4. DOMAIN Pending = {}
  BY <1>1, <1>3, PendingType
<1>5. PendingInOrder
  BY <1>1, <1>2, <1>4 DEF PendingInOrder
<1>6. QED
  BY <1>3, <1>5 DEF StoreInit, StoreInv, BatchInUse

LEMMA AsyncWriteInv ==
  ASSUME StoreInv, NEW k \in Keys, NEW v \in Values, AsyncWrite(k, v)
  PROVE  StoreInv' /\ RowsGrow
<1>1. StoreTypeOK /\ PendingInOrder /\ BatchInUse /\ UNCHANGED <<row, ops, writer, quit>>
  BY DEF StoreInv, AsyncWrite
<1>2. /\ seq \in Nat /\ \A j \in Keys : row[j].n \in Nat
      /\ Len(writeCh) \in Nat /\ QueueCap \in Nat /\ Len(writeCh) <= QueueCap
  BY <1>1, LenProperties, StoreAssumption DEF StoreTypeOK, Rows
<1>3. CASE QueueFull
  <2>1. writeCh' = writeCh /\ seq' = seq
    BY <1>3 DEF AsyncWrite
  <2>2. StoreTypeOK' /\ Pending' = Pending
    BY <1>1, <2>1 DEF StoreTypeOK, Pending
  <2>3. QED
    BY <1>1, <2>1, <2>2, SameOrder DEF StoreInv, BatchInUse, RowsGrow
<1>4. CASE ~QueueFull
  <2> DEFINE op == [key |-> k, val |-> v, n |-> seq + 1]
  <2>1. seq' = seq + 1 /\ writeCh' = Append(writeCh, op)
    BY <1>4 DEF AsyncWrite
  <2>2. op \in Ops /\ op.n = seq + 1
    BY <1>2 DEF Ops
  <2> HIDE DEF op
  <2>3. /\ writeCh' \in Seq(Ops) /\ Len(writeCh') = Len(writeCh) + 1
        /\ \A i \in 1 .. Len(writeCh) : writeCh'[i] = writeCh[i]
        /\ writeCh'[Len(writeCh) + 1] = op
    BY <1>1, <2>1, <2>2, AppendProperties DEF StoreTypeOK
  <2>4. StoreTypeOK'
    BY <1>1, <1>2, <1>4, <2>1, <2>3 DEF StoreTypeOK, QueueFull
  <2>5. /\ DOMAIN Pending = 1 .. Len(Pending) /\ DOMAIN Pending' = 1 .. Len(Pending) + 1
        /\ Len(Pending) \in Nat
        /\ \A i \in 1 .. Len(Pending) : Pending'[i] = Pending[i] /\ Pending[i].n \in Nat
        /\ Pending'[Len(Pending) + 1] = op
    BY <1>1, <2>1, <2>2, QueuedLast
  <2>6. PendingInOrder'
    <3>1. \A i, j \in DOMAIN Pending' : i < j => Pending'[i].n < Pending'[j].n
      BY <1>1, <1>2, <2>2, <2>5 DEF PendingInOrder
    <3>2. \A i \in DOMAIN Pending' : Pending'[i].n <= seq'
      BY <1>1, <1>2, <2>1, <2>2, <2>5 DEF PendingInOrder
    <3>3. \A j \in Keys : /\ row'[j].n <= seq'
                          /\ \A i \in DOMAIN Pending' : row'[j].n < Pending'[i].n
      BY <1>1, <1>2, <2>1, <2>2, <2>5 DEF PendingInOrder
    <3>4. QED
      BY <3>1, <3>2, <3>3 DEF PendingInOrder
  <2>7. QED
    BY <1>1, <1>2, <2>4, <2>6 DEF StoreInv, BatchInUse, RowsGrow
<1>5. QED
  BY <1>3, <1>4

LEMMA ExpireInv ==
  ASSUME StoreInv, NEW k \in Keys, Expire(k)
  PROVE  StoreInv' /\ RowsGrow /\ Executes
<1>1. StoreTypeOK /\ PendingInOrder /\ BatchInUse /\ UNCHANGED <<writeCh, ops, writer, quit, seq>>
  BY DEF StoreInv, Expire
<1>2. /\ row' \in [Keys -> Rows]
      /\ \A j \in Keys : row'[j].n = row[j].n /\ row'[j].val \in {row[j].val, None}
  BY DEF StoreInv, StoreTypeOK, Rows, Expire
<1>3. StoreTypeOK' /\ Pending' = Pending
  BY <1>1, <1>2 DEF StoreTypeOK, Pending
<1>4. QED
  BY <1>1, <1>2, <1>3, SameOrder DEF StoreInv, BatchInUse, RowsGrow, Executes

\* Close, the writer's changes of place, and the steps of others.
LEMMA PlaceInv ==
  ASSUME StoreInv, UNCHANGED <<row, writeCh, ops, seq>>, quit' \in BOOLEAN,
         \/ writer' = writer
         \/ writer' \in {"drain", "done"} /\ writer \in {"select", "drain"}
  PROVE  StoreInv' /\ RowsGrow /\ Executes
<1>1. StoreTypeOK' /\ BatchInUse' /\ Pending' = Pending
  BY DEF StoreInv, StoreTypeOK, BatchInUse, Pending
<1>2. QED
  BY <1>1, SameOrder DEF StoreInv, RowsGrow, Executes

LEMMA TakeBatchInv ==
  ASSUME StoreInv, TakeBatch
  PROVE  StoreInv' /\ RowsGrow /\ Executes
<1> DEFINE m == Least(Len(writeCh), BatchMax)
<1>1. /\ writer = "select" /\ writer' = "tx" /\ UNCHANGED <<row, quit, seq>>
      /\ ops' = SubSeq(writeCh, 1, m) /\ writeCh' = SubSeq(writeCh, m + 1, Len(writeCh))
      /\ ops = <<>> /\ writeCh # <<>> /\ writeCh \in Seq(Ops)
      /\ StoreTypeOK /\ PendingInOrder
  BY DEF StoreInv, StoreTypeOK, BatchInUse, TakeBatch
<1>2. Len(writeCh) \in Nat /\ m \in 1 .. Len(writeCh) /\ m <= BatchMax
  BY <1>1, EmptySeq, StoreAssumption DEF Least
<1> HIDE DEF m
<1>3. ops' \in Seq(Ops) /\ Len(ops') = m
  <2>1. \A i \in 1 .. m : writeCh[i] \in Ops
    BY <1>1, <1>2, ElementOfSeq
  <2>2. QED
    BY <1>1, <1>2, <2>1, SubSeqProperties
<1>4. writeCh' \in Seq(Ops) /\ Len(writeCh') <= QueueCap
  <2>1. \A i \in m + 1 .. Len(writeCh) : writeCh[i] \in Ops
    BY <1>1, <1>2, ElementOfSeq
  <2>2. /\ writeCh' \in Seq(Ops)
        /\ Len(writeCh') = IF m + 1 <= Len(writeCh) THEN Len(writeCh) - (m + 1) + 1 ELSE 0
    BY <1>1, <1>2, <2>1, SubSeqProperties
  <2>3. QED
    BY <1>1, <1>2, <2>2, StoreAssumption DEF StoreTypeOK
<1>5. Pending' = Pending
  <2>1. SubSeq(writeCh, 1, m) \o SubSeq(writeCh, m + 1, Len(writeCh))
          = SubSeq(writeCh, 1, Len(writeCh))
    BY <1>1, <1>2, ConcatAdjacentSubSeq
  <2>2. SubSeq(writeCh, 1, Len(writeCh)) = writeCh /\ <<>> \o writeCh = writeCh
    BY <1>1, SubSeqFull, ConcatEmptySeq
  <2>3. QED
    BY <1>1, <2>1, <2>2 DEF Pending
<1>6. StoreTypeOK'
  BY <1>1, <1>2, <1>3, <1>4 DEF StoreTypeOK
<1>7. QED
  BY <1>1, <1>5, <1>6, SameOrder DEF StoreInv, BatchInUse, RowsGrow, Executes

LEMMA WriteBatchInv ==
  ASSUME StoreInv, WriteBatch
  PROVE  StoreInv' /\ RowsGrow /\ Executes
<1>1. /\ ops' = <<>> /\ writer' = "select" /\ UNCHANGED <<writeCh, quit, seq>>
      /\ StoreTypeOK /\ PendingInOrder
      /\ ops \in Seq(Ops) /\ writeCh \in Seq(Ops) /\ row \in [Keys -> Rows]
  BY DEF StoreInv, StoreTypeOK, WriteBatch
<1>2. PICK done \in SUBSET DOMAIN ops : row' = [k \in Keys |-> Executed(ops, done, k)]
  BY DEF WriteBatch
<1>3. /\ row' \in [Keys -> Rows]
      /\ \A k \in Keys : \/ row'[k] = row[k]
                         \/ \E i \in done : /\ row'[k].n = ops[i].n
                                            /\ ops[i].key = k /\ row'[k].val = ops[i].val
  BY <1>1, <1>2, ExecutedRows
<1>4. Pending' \in Seq(Ops) /\ Pending' = writeCh /\ ops' \in Seq(Ops) /\ Len(ops') = 0
  BY <1>1, ConcatEmptySeq, EmptySeq DEF Pending
<1>5. StoreTypeOK'
  BY <1>1, <1>3, <1>4, StoreAssumption DEF StoreTypeOK
<1>6. /\ Len(ops) \in 0 .. Len(Pending) /\ Len(Pending') = Len(Pending) - Len(ops)
      /\ \A i \in 1 .. Len(Pending) - Len(ops) : Pending'[i] = Pending[i + Len(ops)]
      /\ \A i \in done : i \in 1 .. Len(ops) /\ ops[i] = Pending[i]
  <2>1. /\ Len(ops) \in Nat /\ Len(writeCh) \in Nat
        /\ Len(Pending) = Len(ops) + Len(writeCh)
        /\ DOMAIN ops = 1 .. Len(ops)
        /\ \A i \in 1 .. Len(Pending) : Pending[i] = IF i <= Len(ops) THEN ops[i]
                                                     ELSE writeCh[i - Len(ops)]
    BY <1>1, PendingType
  <2>2. QED
    BY <1>4, <2>1
<1>7. \A k \in Keys : \/ row'[k].n = row[k].n
                      \/ \E i \in 1 .. Len(ops) : row'[k].n = Pending[i].n
  BY <1>3, <1>6
<1>8. PendingInOrder' /\ RowsGrow
  BY <1>1, <1>4, <1>6, <1>7, RemovePrefix DEF RowsGrow
<1>9. Executes
  <2>1. /\ DOMAIN Pending = 1 .. Len(Pending) /\ DOMAIN Pending' = 1 .. Len(Pending')
        /\ Len(Pending) \in Nat
    BY <1>1, <1>4, PendingType, LenProperties
  <2>2. \A j \in DOMAIN Pending' : /\ j + Len(ops) \in DOMAIN Pending
                                   /\ Pending'[j] = Pending[j + Len(ops)]
    BY <1>6, <2>1
  <2>3. \A i \in done : i \in DOMAIN Pending /\ Pending[i] = ops[i]
    BY <1>6, <2>1
  <2>4. ASSUME NEW k \in Keys, row'[k] # row[k]
        PROVE  \E i \in DOMAIN Pending : Pending[i].key = k /\ row'[k].val = Pending[i].val
    BY <1>3, <2>3, <2>4
  <2>5. QED
    BY <2>2, <2>4 DEF Executes
<1>10. QED
  BY <1>1, <1>5, <1>8, <1>9 DEF StoreInv, BatchInUse

LEMMA DrainOneInv ==
  ASSUME StoreInv, DrainOne
  PROVE  StoreInv' /\ RowsGrow /\ Executes
<1>1. /\ writeCh # <<>> /\ writeCh' = Tail(writeCh) /\ UNCHANGED <<ops, writer, quit, seq>>
      /\ writer = "drain" /\ ops = <<>> /\ StoreTypeOK /\ PendingInOrder /\ BatchInUse
      /\ writeCh \in Seq(Ops) /\ row \in [Keys -> Rows]
  BY DEF StoreInv, StoreTypeOK, BatchInUse, DrainOne
<1>2. PICK done \in SUBSET {1} : row' = [k \in Keys |-> Executed(writeCh, done, k)]
  BY DEF DrainOne
<1>3. Len(writeCh) \in Nat \ {0} /\ DOMAIN writeCh = 1 .. Len(writeCh)
  BY <1>1, EmptySeq, LenProperties
<1>4. /\ row' \in [Keys -> Rows]
      /\ \A k \in Keys : \/ row'[k] = row[k]
                         \/ \E i \in done : /\ row'[k].n = writeCh[i].n
                                            /\ writeCh[i].key = k /\ row'[k].val = writeCh[i].val
  <2>1. done \in SUBSET DOMAIN writeCh
    BY <1>3
  <2>2. QED
    BY <1>1, <1>2, <2>1, ExecutedRows
<1>5. /\ writeCh' \in Seq(Ops) /\ Len(writeCh') = Len(writeCh) - 1
      /\ \A i \in 1 .. Len(writeCh) - 1 : writeCh'[i] = writeCh[i + 1]
  BY <1>1, HeadTailProperties
<1>6. Pending = writeCh /\ Pending' = writeCh'
  BY <1>1, <1>5, ConcatEmptySeq DEF Pending
<1>7. StoreTypeOK'
  BY <1>1, <1>3, <1>4, <1>5, StoreAssumption DEF StoreTypeOK
<1>8. \A k \in Keys : \/ row'[k].n = row[k].n
                      \/ \E i \in 1 .. 1 : row'[k].n = Pending[i].n
  BY <1>4, <1>6
<1>9. /\ 1 \in 0 .. Len(Pending) /\ Pending' \in Seq(Ops) /\ Len(Pending') = Len(Pending) - 1
      /\ \A i \in 1 .. Len(Pending) - 1 : Pending'[i] = Pending[i + 1]
  <2>1. 1 \in 0 .. Len(Pending)
    BY <1>3, <1>6
  <2>2. Pending' \in Seq(Ops) /\ Len(Pending') = Len(Pending) - 1
    BY <1>5, <1>6
  <2>3. \A i \in 1 .. Len(Pending) - 1 : Pending'[i] = Pending[i + 1]
    BY <1>5, <1>6
  <2>4. QED
    BY <2>1, <2>2, <2>3
<1>10. PendingInOrder' /\ RowsGrow
  BY <1>1, <1>8, <1>9, RemovePrefix DEF RowsGrow
<1>11. Executes
  <2>1. DOMAIN Pending = 1 .. Len(Pending) /\ DOMAIN Pending' = 1 .. Len(Pending')
    BY <1>3, <1>5, <1>6, LenProperties
  <2>2. \A j \in DOMAIN Pending' : j + 1 \in DOMAIN Pending /\ Pending'[j] = Pending[j + 1]
    BY <1>3, <1>6, <1>9, <2>1
  <2>3. \A i \in done : i \in DOMAIN Pending
    BY <1>3, <1>6
  <2>4. QED
    BY <1>4, <1>6, <2>2, <2>3 DEF Executes
<1>12. QED
  BY <1>1, <1>7, <1>10, <1>11 DEF StoreInv, BatchInUse
-----------------------------------------------------------------------------
LEMMA StoreNextInv ==
  ASSUME StoreInv, [StoreNext]_storeVars
  PROVE  StoreInv' /\ RowsGrow
<1>1. ASSUME NEW k \in Keys, NEW v \in Values, AsyncWrite(k, v) PROVE StoreInv' /\ RowsGrow
  BY <1>1, AsyncWriteInv
<1>2. ASSUME NEW k \in Keys, Expire(k) PROVE StoreInv' /\ RowsGrow
  BY <1>2, ExpireInv
<1>3. CASE Close
  BY <1>3, PlaceInv DEF Close
<1>4. CASE TakeBatch
  BY <1>4, TakeBatchInv
<1>5. CASE WriteBatch
  BY <1>5, WriteBatchInv
<1>6. CASE Quit
  BY <1>6, PlaceInv DEF Quit, StoreInv, StoreTypeOK
<1>7. CASE DrainOne
  BY <1>7, DrainOneInv
<1>8. CASE DrainEnd
  BY <1>8, PlaceInv DEF DrainEnd, StoreInv, StoreTypeOK
<1>9. CASE UNCHANGED storeVars
  BY <1>9, PlaceInv DEF storeVars, StoreInv, StoreTypeOK
<1>10. QED
  BY <1>1, <1>2, <1>3, <1>4, <1>5, <1>6, <1>7, <1>8, <1>9 DEF StoreNext, Writer

\* Every step but the queueing of a write executes pending writes, or none.
LEMMA StoreExecutes ==
  ASSUME StoreInv, \/ Close \/ Writer \/ UNCHANGED storeVars
                   \/ \E k \in Keys : Expire(k)
  PROVE  Executes
<1>1. ASSUME NEW k \in Keys, Expire(k) PROVE Executes
  BY <1>1, ExpireInv
<1>2. CASE Close
  BY <1>2, PlaceInv DEF Close
<1>3. CASE TakeBatch \/ WriteBatch \/ DrainOne
  BY <1>3, TakeBatchInv, WriteBatchInv, DrainOneInv
<1>4. CASE Quit \/ DrainEnd \/ UNCHANGED storeVars
  BY <1>4, PlaceInv DEF Quit, DrainEnd, storeVars, StoreInv, StoreTypeOK
<1>5. QED
  BY <1>1, <1>2, <1>3, <1>4 DEF Writer

LEMMA StoreInvariance == StoreSpec => []StoreInv
<1>1. StoreInv /\ [StoreNext]_storeVars => StoreInv'
  BY StoreNextInv
<1>2. QED
  BY <1>1, StoreInitInv, PTL DEF StoreSpec

\* The queue and the batch stay within their sizes, and rows and writes keep their form
\* (asyncWrite, writeLoop and flush of store.go).
THEOREM StoreTypeCorrect == StoreSpec => []StoreTypeOK
<1>1. StoreInv => StoreTypeOK
  BY DEF StoreInv
<1>2. QED
  BY <1>1, StoreInvariance, PTL

\* Writes wait in the order they were queued and are newer than every row.
THEOREM PendingOrdered == StoreSpec => []PendingInOrder
<1>1. StoreInv => PendingInOrder
  BY DEF StoreInv
<1>2. QED
  BY <1>1, StoreInvariance, PTL

\* Whatever writes are dropped, fail or are drained at shutdown, a row is never replaced
\* by an older write of its key.
THEOREM StoreWritesInOrder == StoreSpec => WritesApplyInOrder
<1>1. StoreInv /\ [StoreNext]_storeVars => [\A k \in Keys : row[k].n <= row'[k].n]_row
  BY StoreNextInv DEF RowsGrow
<1>2. QED
  BY <1>1, StoreInvariance, PTL DEF StoreSpec, WritesApplyInOrder
-----------------------------------------------------------------------------
(* The pipeline *)

\* After tier 1 the request matches no pattern that stayed loaded: the set of those only
\* shrinks, and it was loaded when tier 1 scanned.
Scanned == \A w \in Workers :
             /\ must[w] \subseteq patterns
             /\ pc[w] \in {"hash", "yara", "malicious", "clean", "ml"} =>
                  req[w].sigs \cap must[w] = {}

\* A worker has a reply only while it writes it.
Replying == \A w \in Workers : pc[w] # "reply" => reply[w] = NoReply

PipelineInv == TypeOK /\ StoreInv /\ Scanned /\ Replying /\ ShadowNeverBlocks /\ NoScanGap

Labels == {"idle", "lookup", "tier1", "cve", "hash", "yara", "malicious", "clean", "ml", "reply"}

LEMMA RequestFields ==
  ASSUME NEW r \in Requests
  PROVE  /\ r.ip \in IPs /\ r.ip \in Keys /\ r.sigs \subseteq Sigs /\ r.static \in BOOLEAN
         /\ r.targets \in Seq(Contents) /\ Len(r.targets) \in Nat
         /\ r.targets # <<>> => Len(r.targets) >= 1
         /\ \A i \in 1 .. Len(r.targets) : r.targets[i] \in Contents /\ r.targets[i] \in Keys
<1>1. r \in RequestType
  BY PipelineAssumption
<1>2. /\ r.ip \in IPs /\ r.sigs \subseteq Sigs /\ r.static \in BOOLEAN
      /\ r.targets \in Seq(Contents)
  BY <1>1 DEF RequestType
<1>3. /\ Len(r.targets) \in Nat
      /\ r.targets # <<>> => Len(r.targets) >= 1
  BY <1>2, EmptySeq, LenProperties
<1>4. \A i \in 1 .. Len(r.targets) : r.targets[i] \in Contents
  BY <1>2, ElementOfSeq
<1>5. IPs \subseteq Keys /\ Contents \subseteq Keys
  BY PipelineAssumption
<1>6. QED
  BY <1>2, <1>3, <1>4, <1>5

-----------------------------------------------------------------------------
\* The pipeline uses the store as the store allows: an abstract step, or none.
LEMMA StoreSteps == TypeOK /\ [Next]_vars => [StoreNext]_storeVars
<1> SUFFICES ASSUME TypeOK, [Next]_vars PROVE [StoreNext]_storeVars
  OBVIOUS
<1>1. /\ {"BLOCK", "PERMIT", "MALICIOUS", "CLEAN"} \subseteq Values
  BY PipelineAssumption
<1>2. ASSUME NEW w \in Workers
      PROVE  /\ IP(w) \in Keys
             /\ pc[w] \in {"malicious", "clean"} => Content(w) \in Keys
  <2>1. req[w] \in Requests /\ target[w] \in Nat \ {0}
    BY DEF TypeOK
  <2>2. pc[w] \in {"malicious", "clean"} => target[w] \in 1 .. Len(req[w].targets)
    BY <2>1, RequestFields DEF TypeOK
  <2>3. QED
    BY <2>1, <2>2, RequestFields DEF IP, Content
<1>3. ASSUME NEW w \in Workers, NEW r \in Requests, Begin(w, r) PROVE UNCHANGED storeVars
  BY <1>3 DEF Begin
<1>4. ASSUME NEW w \in Workers, Check(w) PROVE [StoreNext]_storeVars
  <2>1. CASE Lookup(w) \/ Tier1(w) \/ Hash(w) \/ Yara(w)
    BY <2>1 DEF Lookup, Tier1, Hash, Yara, Unshared
  <2>2. CASE CVEMatch(w)
    BY <1>1, <1>2, <2>2 DEF CVEMatch, StoreNext
  <2>3. CASE Malicious(w)
    BY <1>1, <1>2, <2>3 DEF Malicious, StoreNext
  <2>4. CASE Clean(w)
    BY <1>1, <1>2, <2>4 DEF Clean, StoreNext
  <2>5. CASE ML(w)
    BY <1>1, <1>2, <2>5 DEF ML, StoreNext
  <2>6. CASE Respond(w)
    BY <2>6 DEF Respond
  <2>7. QED
    BY <1>4, <2>1, <2>2, <2>3, <2>4, <2>5, <2>6 DEF Check
<1>5. CASE ReloadPatterns \/ ReloadYara
  BY <1>5 DEF ReloadPatterns, ReloadYara
<1>6. CASE Shutdown
  BY <1>6 DEF Shutdown, StoreNext
<1>7. CASE StoreStep(Writer)
  BY <1>7 DEF StoreStep, StoreNext
<1>8. ASSUME NEW k \in Keys, StoreStep(Expire(k)) PROVE [StoreNext]_storeVars
  BY <1>8 DEF StoreStep, StoreNext
<1>9. CASE UNCHANGED vars
  BY <1>9 DEF vars
<1>10. QED
  BY <1>3, <1>4, <1>5, <1>6, <1>7, <1>8, <1>9 DEF Next
-----------------------------------------------------------------------------
(* What PipelineInv says of the pipeline's own variables. *)

RulesOK == /\ mode \in {"enforce", "shadow"}
           /\ patterns \subseteq Sigs /\ rules \subseteq Marks
           /\ reload \in {"idle", "rules"}
           /\ checks \in 0 .. MaxChecks /\ reloads \in 0 .. MaxReloads
           /\ must \in [Workers -> SUBSET Sigs]

WorkersOK == /\ req \in [Workers -> Requests]
             /\ pc \in [Workers -> Labels]
             /\ target \in [Workers -> Nat \ {0}]
             /\ reply \in [Workers -> Replies \cup {NoReply}]

\* The invariant of worker w, but for the types.
WorkerOK(w) ==
  /\ pc[w] \in {"hash", "yara", "malicious", "clean"} => target[w] <= Len(req[w].targets)
  /\ must[w] \subseteq patterns
  /\ pc[w] \in {"hash", "yara", "malicious", "clean", "ml"} => req[w].sigs \cap must[w] = {}
  /\ pc[w] # "reply" => reply[w] = NoReply
  /\ mode = "shadow" => reply[w].action # "BLOCK"
  /\ reply[w].why = "passed" => req[w].sigs \cap must[w] = {}

LEMMA InvParts ==
  PipelineInv <=> StoreInv /\ RulesOK /\ WorkersOK /\ \A w \in Workers : WorkerOK(w)
BY DEF PipelineInv, TypeOK, StoreInv, Scanned, Replying, ShadowNeverBlocks, NoScanGap,
       RulesOK, WorkersOK, WorkerOK, Labels

LEMMA InvPartsNext ==
  (StoreInv /\ RulesOK /\ WorkersOK /\ \A w \in Workers : WorkerOK(w))' => PipelineInv'
BY DEF PipelineInv, TypeOK, StoreInv, Scanned, Replying, ShadowNeverBlocks, NoScanGap,
       RulesOK, WorkersOK, WorkerOK, Labels

LEMMA InitInv == Init => PipelineInv
<1> SUFFICES ASSUME Init PROVE PipelineInv
  OBVIOUS
<1>1. StoreInv
  BY StoreInitInv DEF Init
<1>2. RulesOK
  BY PipelineAssumption DEF Init, RulesOK
<1>3. SomeRequest \in Requests
  BY PipelineAssumption DEF SomeRequest
<1>4. WorkersOK
  BY <1>3 DEF Init, WorkersOK, Labels
<1>5. ASSUME NEW w \in Workers PROVE WorkerOK(w)
  BY DEF Init, WorkerOK, NoReply
<1>6. QED
  BY <1>1, <1>2, <1>4, <1>5, InvParts

\* A step of worker w that leaves the others, the rules and the mode alone.
LEMMA WorkerStep ==
  ASSUME PipelineInv, StoreInv', NEW w \in Workers,
         UNCHANGED <<mode, ruleVars>>, checks' \in 0 .. MaxChecks,
         NEW q \in Requests, NEW label \in Labels, NEW t \in Nat \ {0},
         NEW a \in Replies \cup {NoReply}, NEW m \in SUBSET Sigs,
         req' = [req EXCEPT ![w] = q], pc' = [pc EXCEPT ![w] = label],
         target' = [target EXCEPT ![w] = t], reply' = [reply EXCEPT ![w] = a],
         must' = [must EXCEPT ![w] = m],
         label \in {"hash", "yara", "malicious", "clean"} => t <= Len(q.targets),
         m \subseteq patterns,
         label \in {"hash", "yara", "malicious", "clean", "ml"} => q.sigs \cap m = {},
         label # "reply" => a = NoReply,
         mode = "shadow" => a.action # "BLOCK",
         a.why = "passed" => q.sigs \cap m = {}
  PROVE  PipelineInv'
<1>1. RulesOK /\ WorkersOK /\ \A v \in Workers : WorkerOK(v)
  BY InvParts
<1>2. RulesOK'
  BY <1>1 DEF RulesOK, ruleVars
<1>3. WorkersOK'
  BY <1>1 DEF WorkersOK
<1>4. /\ req'[w] = q /\ pc'[w] = label /\ target'[w] = t /\ reply'[w] = a /\ must'[w] = m
      /\ \A v \in Workers \ {w} :
           /\ req'[v] = req[v] /\ pc'[v] = pc[v] /\ target'[v] = target[v]
           /\ reply'[v] = reply[v] /\ must'[v] = must[v]
  BY <1>1 DEF WorkersOK, RulesOK
<1>5. mode' = mode /\ patterns' = patterns
  BY DEF ruleVars
<1>6. ASSUME NEW v \in Workers PROVE WorkerOK(v)'
  BY <1>1, <1>4, <1>5 DEF WorkerOK
<1>7. (\A v \in Workers : WorkerOK(v))'
  BY <1>6
<1>8. QED
  BY <1>2, <1>3, <1>7, InvPartsNext

\* Check goes on at label, with the scan target t.
LEMMA GotoInv ==
  ASSUME PipelineInv, StoreInv', NEW w \in Workers, pc[w] # "reply",
         UNCHANGED <<mode, ruleVars, checks, must>>,
         NEW label \in Labels \ {"reply"}, NEW t \in Nat \ {0},
         Goto(w, label), target' = [target EXCEPT ![w] = t],
         label \in {"hash", "yara", "malicious", "clean"} => t <= Len(req[w].targets),
         label \in {"hash", "yara", "malicious", "clean", "ml"} => req[w].sigs \cap must[w] = {}
  PROVE  PipelineInv'
<1>1. RulesOK /\ WorkersOK /\ WorkerOK(w)
  BY InvParts
<1>2. /\ req' = [req EXCEPT ![w] = req[w]] /\ reply' = [reply EXCEPT ![w] = reply[w]]
      /\ must' = [must EXCEPT ![w] = must[w]] /\ pc' = [pc EXCEPT ![w] = label]
  BY <1>1 DEF WorkersOK, RulesOK, Goto
<1>3. /\ req[w] \in Requests /\ reply[w] = NoReply /\ must[w] \in SUBSET Sigs
      /\ must[w] \subseteq patterns /\ NoReply \in Replies \cup {NoReply}
      /\ NoReply.action # "BLOCK" /\ NoReply.why # "passed"
      /\ checks' \in 0 .. MaxChecks
  BY <1>1 DEF WorkersOK, RulesOK, WorkerOK, NoReply
<1>4. QED
  BY <1>2, <1>3, WorkerStep

LEMMA GotoSameTargetInv ==
  ASSUME PipelineInv, StoreInv', NEW w \in Workers, pc[w] # "reply",
         UNCHANGED <<mode, ruleVars, checks, must>>, UNCHANGED target,
         NEW label \in Labels \ {"reply"}, Goto(w, label),
         label \in {"hash", "yara", "malicious", "clean"} => target[w] <= Len(req[w].targets),
         label \in {"hash", "yara", "malicious", "clean", "ml"} => req[w].sigs \cap must[w] = {}
  PROVE  PipelineInv'
<1>1. WorkersOK
  BY InvParts
<1>2. target[w] \in Nat \ {0} /\ target' = [target EXCEPT ![w] = target[w]]
  BY <1>1 DEF WorkersOK
<1>3. QED
  BY <1>2, GotoInv

\* Check returns r.
LEMMA AnswerInv ==
  ASSUME PipelineInv, StoreInv', NEW w \in Workers,
         UNCHANGED <<mode, ruleVars, checks, must>>,
         NEW r \in Replies, Answer(w, r),
         mode = "shadow" => r.action # "BLOCK",
         r.why = "passed" => req[w].sigs \cap must[w] = {}
  PROVE  PipelineInv'
<1>1. RulesOK /\ WorkersOK /\ WorkerOK(w)
  BY InvParts
<1>2. /\ req' = [req EXCEPT ![w] = req[w]] /\ target' = [target EXCEPT ![w] = target[w]]
      /\ must' = [must EXCEPT ![w] = must[w]] /\ pc' = [pc EXCEPT ![w] = "reply"]
      /\ reply' = [reply EXCEPT ![w] = r]
  BY <1>1 DEF WorkersOK, RulesOK, Answer
<1>3. /\ req[w] \in Requests /\ target[w] \in Nat \ {0} /\ must[w] \in SUBSET Sigs
      /\ must[w] \subseteq patterns /\ "reply" \in Labels /\ r \in Replies \cup {NoReply}
      /\ checks' \in 0 .. MaxChecks
  BY <1>1 DEF WorkersOK, RulesOK, WorkerOK, Labels
<1>4. QED
  BY <1>2, <1>3, WorkerStep

\* block() and the PERMIT returns that are not the last one.
LEMMA BlockInv ==
  ASSUME PipelineInv, StoreInv', NEW w \in Workers,
         UNCHANGED <<mode, ruleVars, checks, must>>,
         NEW why \in {"cached", "cve", "injection", "content", "ml"}, Block(w, why)
  PROVE  PipelineInv'
<1> DEFINE r == [action   |-> IF mode = "shadow" THEN "PERMIT" ELSE "BLOCK",
                 why |-> why, reported |-> TRUE]
<1>1. /\ r \in Replies /\ r.why # "passed"
      /\ mode = "shadow" => r.action # "BLOCK"
  BY DEF Replies
<1>2. Answer(w, r)
  BY DEF Block
<1> HIDE DEF r
<1>3. QED
  BY <1>1, <1>2, AnswerInv

LEMMA PermitInv ==
  ASSUME PipelineInv, StoreInv', NEW w \in Workers,
         UNCHANGED <<mode, ruleVars, checks, must>>,
         NEW why \in {"cached", "passed"}, NEW b \in BOOLEAN, Permit(w, why, b),
         why = "passed" => req[w].sigs \cap must[w] = {}
  PROVE  PipelineInv'
<1> DEFINE r == [action |-> "PERMIT", why |-> why, reported |-> b]
<1>1. r \in Replies /\ r.action # "BLOCK" /\ r.why = why
  BY DEF Replies
<1>2. Answer(w, r)
  BY DEF Permit
<1> HIDE DEF r
<1>3. QED
  BY <1>1, <1>2, AnswerInv

LEMMA BeginInv ==
  ASSUME PipelineInv, StoreInv', NEW w \in Workers, NEW q \in Requests, Begin(w, q)
  PROVE  PipelineInv'
<1> DEFINE label == IF q.static THEN "reply" ELSE "lookup"
           a == IF q.static THEN [action |-> "PERMIT", why |-> "static", reported |-> FALSE]
                ELSE NoReply
<1>1. RulesOK /\ WorkersOK /\ WorkerOK(w)
  BY InvParts
<1>2. /\ req' = [req EXCEPT ![w] = q] /\ must' = [must EXCEPT ![w] = patterns]
      /\ UNCHANGED <<mode, ruleVars, target>> /\ checks' = checks + 1 /\ checks < MaxChecks
      /\ pc[w] = "idle"
  BY DEF Begin
<1>3. pc' = [pc EXCEPT ![w] = label] /\ reply' = [reply EXCEPT ![w] = a]
  <2>1. CASE q.static
    BY <2>1 DEF Begin
  <2>2. CASE ~q.static
    <3>1. reply[w] = NoReply /\ reply = [reply EXCEPT ![w] = reply[w]]
      BY <1>1, <1>2 DEF WorkersOK, WorkerOK
    <3>2. QED
      BY <2>2, <3>1 DEF Begin
  <2>3. QED
    BY <2>1, <2>2
<1>4. target[w] \in Nat \ {0} /\ target' = [target EXCEPT ![w] = target[w]]
  BY <1>1, <1>2 DEF WorkersOK
<1>5. /\ label \in Labels /\ label \notin {"hash", "yara", "malicious", "clean", "ml"}
      /\ a \in Replies \cup {NoReply} /\ a.action # "BLOCK" /\ a.why # "passed"
      /\ label # "reply" => a = NoReply
  BY DEF Labels, Replies, NoReply
<1>6. checks' \in 0 .. MaxChecks /\ patterns \in SUBSET Sigs
  BY <1>1, <1>2, PipelineAssumption DEF RulesOK
<1> HIDE DEF label, a
<1>7. QED
  BY <1>2, <1>3, <1>4, <1>5, <1>6, WorkerStep

LEMMA RespondInv ==
  ASSUME PipelineInv, StoreInv', NEW w \in Workers, Respond(w)
  PROVE  PipelineInv'
<1>1. RulesOK
  BY InvParts
<1>2. /\ req' = [req EXCEPT ![w] = SomeRequest] /\ pc' = [pc EXCEPT ![w] = "idle"]
      /\ target' = [target EXCEPT ![w] = 1] /\ reply' = [reply EXCEPT ![w] = NoReply]
      /\ must' = [must EXCEPT ![w] = {}] /\ UNCHANGED <<mode, ruleVars, checks>>
  BY DEF Respond
<1>3. /\ SomeRequest \in Requests /\ "idle" \in Labels /\ 1 \in Nat \ {0}
      /\ NoReply \in Replies \cup {NoReply} /\ {} \in SUBSET Sigs /\ {} \subseteq patterns
      /\ NoReply.action # "BLOCK" /\ NoReply.why # "passed" /\ checks' \in 0 .. MaxChecks
  BY <1>1, <1>2, PipelineAssumption DEF SomeRequest, Labels, NoReply, RulesOK
<1>4. QED
  BY <1>2, <1>3, WorkerStep

LEMMA CheckInv ==
  ASSUME PipelineInv, StoreInv', NEW w \in Workers, Check(w)
  PROVE  PipelineInv'
<1>1. RulesOK /\ WorkersOK /\ WorkerOK(w)
  BY InvParts
<1>2. /\ req[w] \in Requests /\ target[w] \in Nat \ {0}
      /\ Len(req[w].targets) \in Nat
      /\ req[w].targets # <<>> => Len(req[w].targets) >= 1
  BY <1>1, RequestFields DEF WorkersOK
<1>3. {"tier1", "cve", "hash", "yara", "malicious", "clean", "ml"} \subseteq Labels \ {"reply"}
  BY DEF Labels
<1>4. CASE Lookup(w)
  <2>1. pc[w] = "lookup" /\ UNCHANGED <<mode, ruleVars, checks, must>>
    BY <1>4 DEF Lookup, Unshared
  <2>2. CASE Block(w, "cached")
    BY <2>1, <2>2, BlockInv
  <2>3. CASE Permit(w, "cached", FALSE)
    BY <2>1, <2>3, PermitInv
  <2>4. CASE Goto(w, "tier1") /\ UNCHANGED target
    BY <1>3, <2>1, <2>4, GotoSameTargetInv
  <2>5. QED
    BY <1>4, <2>2, <2>3, <2>4 DEF Lookup
<1>5. CASE Tier1(w)
  <2>1. pc[w] = "tier1" /\ UNCHANGED <<mode, ruleVars, checks, must>>
    BY <1>5 DEF Tier1, Unshared
  <2>2. CASE Goto(w, "cve") /\ UNCHANGED target
    BY <1>3, <2>1, <2>2, GotoSameTargetInv
  <2>3. CASE Block(w, "injection")
    BY <2>1, <2>3, BlockInv
  <2>4. CASE /\ req[w].sigs \cap patterns = {}
             /\ target' = [target EXCEPT ![w] = 1]
             /\ Goto(w, IF req[w].large \/ req[w].targets = <<>> THEN "ml" ELSE "hash")
    <3>1. req[w].sigs \cap must[w] = {}
      BY <1>1, <2>4 DEF WorkerOK
    <3> DEFINE label == IF req[w].large \/ req[w].targets = <<>> THEN "ml" ELSE "hash"
    <3>2. /\ label \in {"ml", "hash"}
          /\ label \in {"hash", "yara", "malicious", "clean"} => 1 <= Len(req[w].targets)
          /\ Goto(w, label) /\ 1 \in Nat \ {0}
      BY <1>2, <2>4
    <3> HIDE DEF label
    <3>3. label \in Labels \ {"reply"}
      BY <1>3, <3>2
    <3>4. QED
      BY <2>1, <2>4, <3>1, <3>2, <3>3, GotoInv
  <2>5. QED
    BY <1>5, <2>2, <2>3, <2>4 DEF Tier1
<1>6. CASE CVEMatch(w)
  BY <1>6, BlockInv DEF CVEMatch
<1>7. CASE Hash(w)
  <2>1. /\ pc[w] = "hash" /\ UNCHANGED <<mode, ruleVars, checks, must>>
        /\ target[w] <= Len(req[w].targets) /\ req[w].sigs \cap must[w] = {}
    BY <1>1, <1>7 DEF Hash, Unshared, WorkerOK
  <2>2. CASE Block(w, "content")
    BY <2>1, <2>2, BlockInv
  <2>3. ASSUME NEW label \in {"ml", "malicious", "yara"}, Goto(w, label), UNCHANGED target
        PROVE  PipelineInv'
    BY <1>3, <2>1, <2>3, GotoSameTargetInv
  <2>4. QED
    BY <1>7, <2>2, <2>3 DEF Hash
<1>8. CASE Yara(w)
  <2>1. /\ pc[w] = "yara" /\ UNCHANGED <<mode, ruleVars, checks, must>>
        /\ target[w] <= Len(req[w].targets) /\ req[w].sigs \cap must[w] = {}
    BY <1>1, <1>8 DEF Yara, Unshared, WorkerOK
  <2>2. ASSUME NEW label \in {"malicious", "clean"}, Goto(w, label), UNCHANGED target
        PROVE  PipelineInv'
    BY <1>3, <2>1, <2>2, GotoSameTargetInv
  <2>3. QED
    BY <1>8, <2>2 DEF Yara
<1>9. CASE Malicious(w)
  BY <1>9, BlockInv DEF Malicious
<1>10. CASE Clean(w)
  <2>1. /\ pc[w] = "clean" /\ UNCHANGED <<mode, ruleVars, checks, must>>
        /\ target[w] <= Len(req[w].targets) /\ req[w].sigs \cap must[w] = {}
    BY <1>1, <1>10 DEF Clean, WorkerOK
  <2>2. CASE target[w] = Len(req[w].targets)
    BY <1>3, <1>10, <2>1, <2>2, GotoSameTargetInv DEF Clean
  <2>3. CASE target[w] # Len(req[w].targets)
    <3>1. /\ Goto(w, "hash") /\ target' = [target EXCEPT ![w] = target[w] + 1]
          /\ target[w] + 1 \in Nat \ {0} /\ target[w] + 1 <= Len(req[w].targets)
      BY <1>2, <1>10, <2>1, <2>3 DEF Clean
    <3>2. QED
      BY <1>3, <2>1, <3>1, GotoInv
  <2>4. QED
    BY <2>2, <2>3
<1>11. CASE ML(w)
  <2>1. /\ UNCHANGED <<mode, ruleVars, checks, must>> /\ req[w].sigs \cap must[w] = {}
    BY <1>1, <1>11 DEF ML, WorkerOK
  <2>2. Block(w, "ml") \/ Permit(w, "passed", TRUE)
    BY <1>11 DEF ML
  <2>3. QED
    BY <2>1, <2>2, BlockInv, PermitInv
<1>12. CASE Respond(w)
  BY <1>12, RespondInv
<1>13. QED
  BY <1>4, <1>5, <1>6, <1>7, <1>8, <1>9, <1>10, <1>11, <1>12 DEF Check

\* Steps that move no worker: a reload, the shutdown, the writer, the clock.
LEMMA RulesInv ==
  ASSUME PipelineInv, StoreInv', RulesOK', UNCHANGED <<mode, workerVars>>,
         \A w \in Workers : must'[w] \subseteq must[w] /\ must'[w] \subseteq patterns'
  PROVE  PipelineInv'
<1>1. WorkersOK /\ \A w \in Workers : WorkerOK(w)
  BY InvParts
<1>2. WorkersOK' /\ UNCHANGED <<mode, req, pc, target, reply>>
  BY <1>1 DEF WorkersOK, workerVars
<1>3. ASSUME NEW w \in Workers PROVE WorkerOK(w)'
  BY <1>1, <1>2 DEF WorkerOK
<1>4. (\A w \in Workers : WorkerOK(w))'
  BY <1>3
<1>5. QED
  BY <1>2, <1>4, InvPartsNext

LEMMA NextInv ==
  ASSUME PipelineInv, [Next]_vars
  PROVE  PipelineInv' /\ RowsGrow
<1>1. /\ TypeOK /\ StoreInv /\ RulesOK /\ \A w \in Workers : WorkerOK(w)
  BY InvParts DEF PipelineInv
<1>2. StoreInv' /\ RowsGrow
  BY <1>1, StoreSteps, StoreNextInv
<1>3. ASSUME NEW w \in Workers, NEW r \in Requests, Begin(w, r) PROVE PipelineInv'
  BY <1>2, <1>3, BeginInv
<1>4. ASSUME NEW w \in Workers, Check(w) PROVE PipelineInv'
  BY <1>2, <1>4, CheckInv
<1>5. CASE ReloadPatterns
  <2>1. PICK loaded \in SUBSET Sigs : /\ patterns' = loaded
                                      /\ must' = [w \in Workers |-> must[w] \cap loaded]
    BY <1>5 DEF ReloadPatterns
  <2>2. /\ UNCHANGED <<mode, rules, workerVars, checks>> /\ reload' = "rules"
        /\ reloads' = reloads + 1 /\ reloads < MaxReloads
    BY <1>5 DEF ReloadPatterns
  <2>3. RulesOK'
    BY <1>1, <2>1, <2>2, PipelineAssumption DEF RulesOK
  <2>4. QED
    BY <1>1, <1>2, <2>1, <2>2, <2>3, RulesInv
<1>6. CASE ReloadYara
  <2>1. RulesOK' /\ UNCHANGED <<mode, patterns, must, workerVars>>
    BY <1>1, <1>6 DEF ReloadYara, RulesOK
  <2>2. QED
    BY <1>1, <1>2, <2>1, RulesInv DEF WorkerOK
<1>7. ASSUME UNCHANGED <<mode, ruleVars, workerVars, checks, must>> PROVE PipelineInv'
  <2>1. RulesOK' /\ UNCHANGED <<mode, patterns, must, workerVars>>
    BY <1>1, <1>7 DEF ruleVars, RulesOK
  <2>2. QED
    BY <1>1, <1>2, <2>1, RulesInv DEF WorkerOK
<1>8. CASE Shutdown
  BY <1>2, <1>7, <1>8 DEF Shutdown
<1>9. CASE StoreStep(Writer) \/ \E k \in Keys : StoreStep(Expire(k))
  BY <1>2, <1>7, <1>9 DEF StoreStep
<1>10. CASE UNCHANGED vars
  BY <1>2, <1>7, <1>10 DEF vars
<1>11. QED
  BY <1>2, <1>3, <1>4, <1>5, <1>6, <1>8, <1>9, <1>10 DEF Next

LEMMA Invariance == Spec => []PipelineInv
<1>1. PipelineInv /\ [Next]_vars => PipelineInv'
  BY NextInv
<1>2. QED
  BY <1>1, InitInv, PTL DEF Spec
-----------------------------------------------------------------------------
(* The shutdown and the verdict cache *)

\* Once main closes the store nobody checks, reloads or writes, and the writer only ends
\* with an empty queue.
Quiet == /\ writer \in {"drain", "done"} => quit
         /\ quit => reload = "idle" /\ \A w \in Workers : pc[w] = "idle"
         /\ writer = "done" => writeCh = <<>>

\* What is written for an address is a verdict (hashes are other keys).
VerdictsFit == \A j \in DOMAIN Pending :
                 Pending[j].key \in IPs => Pending[j].val \in {"BLOCK", "PERMIT"}

CacheInv == PipelineInv /\ Quiet /\ VerdictsFit

\* The write w makes on behalf of its address: BLOCK on a tier 1 match, PERMIT at the end.
VerdictOf(w, k, v) == k \in IPs => /\ k = IP(w)
                                   /\ \/ v = "BLOCK" /\ pc[w] = "cve"
                                      \/ v = "PERMIT" /\ pc[w] = "ml"

LEMMA CheckWrites ==
  ASSUME PipelineInv, NEW w \in Workers, Check(w)
  PROVE  \/ UNCHANGED storeVars
         \/ \E k \in Keys, v \in Values : AsyncWrite(k, v) /\ VerdictOf(w, k, v)
<1>1. {"BLOCK", "PERMIT", "MALICIOUS", "CLEAN"} \subseteq Values
  BY PipelineAssumption
<1>2. /\ IP(w) \in Keys
      /\ pc[w] \in {"malicious", "clean"} => Content(w) \in Keys /\ Content(w) \notin IPs
  <2>1. req[w] \in Requests /\ target[w] \in Nat \ {0}
    BY DEF PipelineInv, TypeOK
  <2>2. pc[w] \in {"malicious", "clean"} => target[w] \in 1 .. Len(req[w].targets)
    BY <2>1, RequestFields DEF PipelineInv, TypeOK
  <2>3. IPs \cap Contents = {}
    BY PipelineAssumption
  <2>4. QED
    BY <2>1, <2>2, <2>3, RequestFields DEF IP, Content
<1>3. CASE Lookup(w) \/ Tier1(w) \/ Hash(w) \/ Yara(w) \/ Respond(w)
  BY <1>3 DEF Lookup, Tier1, Hash, Yara, Respond, Unshared
<1>4. CASE CVEMatch(w)
  BY <1>1, <1>2, <1>4 DEF CVEMatch, VerdictOf
<1>5. CASE Malicious(w)
  BY <1>1, <1>2, <1>5 DEF Malicious, VerdictOf
<1>6. CASE Clean(w)
  BY <1>1, <1>2, <1>6 DEF Clean, VerdictOf
<1>7. CASE ML(w)
  BY <1>1, <1>2, <1>7 DEF ML, VerdictOf
<1>8. QED
  BY <1>3, <1>4, <1>5, <1>6, <1>7 DEF Check

\* Only Check queues writes.
LEMMA OthersExecute ==
  ASSUME PipelineInv, [Next]_vars, ~ \E w \in Workers : Check(w)
  PROVE  Executes
<1>1. StoreInv
  BY DEF PipelineInv
<1>2. CASE (\E w \in Workers, r \in Requests : Begin(w, r)) \/ ReloadPatterns \/ ReloadYara
           \/ UNCHANGED vars
  BY <1>1, <1>2, StoreExecutes DEF Begin, ReloadPatterns, ReloadYara, vars
<1>3. CASE Shutdown \/ StoreStep(Writer) \/ \E k \in Keys : StoreStep(Expire(k))
  BY <1>1, <1>3, StoreExecutes DEF Shutdown, StoreStep
<1>4. QED
  BY <1>2, <1>3 DEF Next

\* Only a worker that is in the middle of a check takes one of its steps.
LEMMA CheckIsBusy ==
  ASSUME NEW w \in Workers, Check(w)
  PROVE  pc[w] # "idle"
BY DEF Check, Lookup, Tier1, CVEMatch, Hash, Yara, Malicious, Clean, ML, Respond

LEMMA CacheInitInv == Init => CacheInv
<1> SUFFICES ASSUME Init PROVE CacheInv
  OBVIOUS
<1>1. PipelineInv
  BY InitInv
<1>2. Quiet
  BY DEF Init, StoreInit, Quiet
<1>3. DOMAIN Pending = {}
  <2>1. Pending = <<>>
    BY EmptySeq, ConcatEmptySeq DEF Init, StoreInit, Pending
  <2>2. QED
    BY <2>1
<1>4. QED
  BY <1>1, <1>2, <1>3 DEF CacheInv, VerdictsFit

LEMMA QuietStep ==
  ASSUME PipelineInv, Quiet, [Next]_vars
  PROVE  Quiet'
<1>1. CASE \E w \in Workers : Check(w)
  <2>1. PICK w \in Workers : Check(w)
    BY <1>1
  <2>2. ~quit /\ writer \notin {"drain", "done"}
    BY <2>1, CheckIsBusy DEF Quiet
  <2>3. UNCHANGED <<quit, writer>>
    BY <2>1, CheckWrites DEF AsyncWrite, storeVars
  <2>4. QED
    BY <2>2, <2>3 DEF Quiet
<1>2. CASE (\E w \in Workers, r \in Requests : Begin(w, r)) \/ ReloadPatterns \/ ReloadYara
  <2>1. ~quit /\ writer \notin {"drain", "done"}
    BY <1>2 DEF Begin, ReloadPatterns, ReloadYara, Quiet
  <2>2. UNCHANGED <<quit, writer>>
    BY <1>2 DEF Begin, ReloadPatterns, ReloadYara, storeVars
  <2>3. QED
    BY <2>1, <2>2 DEF Quiet
<1>3. CASE Shutdown
  BY <1>3 DEF Shutdown, Close, Quiet, ruleVars, workerVars
<1>4. CASE StoreStep(Writer)
  <2>1. UNCHANGED <<quit, reload, pc>>
    BY <1>4 DEF StoreStep, Writer, TakeBatch, WriteBatch, Quit, DrainOne, DrainEnd,
                ruleVars, workerVars
  <2>2. /\ writer' \in {"drain", "done"} => quit
        /\ writer' = "done" => writeCh' = <<>>
    BY <1>4 DEF StoreStep, Writer, TakeBatch, WriteBatch, Quit, DrainOne, DrainEnd, Quiet
  <2>3. QED
    BY <2>1, <2>2 DEF Quiet
<1>5. CASE UNCHANGED vars \/ \E k \in Keys : StoreStep(Expire(k))
  <2>1. UNCHANGED <<writer, writeCh, quit, reload, pc>>
    BY <1>5 DEF vars, storeVars, ruleVars, workerVars, StoreStep, Expire
  <2>2. QED
    BY <2>1 DEF Quiet
<1>6. QED
  BY <1>1, <1>2, <1>3, <1>4, <1>5 DEF Next

\* What is pending after a write was queued: what was, and the write.
LEMMA QueuedOrPending ==
  ASSUME StoreInv, NEW k \in Keys, NEW v \in Values, AsyncWrite(k, v)
  PROVE  /\ row' = row
         /\ \A j \in DOMAIN Pending' :
              \/ \E i \in DOMAIN Pending : Pending'[j] = Pending[i]
              \/ Pending'[j].key = k /\ Pending'[j].val = v
<1>1. StoreTypeOK /\ row' = row /\ ops' = ops
  BY DEF StoreInv, AsyncWrite
<1>2. CASE QueueFull
  BY <1>1, <1>2 DEF AsyncWrite, Pending
<1>3. CASE ~QueueFull
  <2> DEFINE op == [key |-> k, val |-> v, n |-> seq + 1]
  <2>1. writeCh' = Append(writeCh, op) /\ op \in Ops /\ op.key = k /\ op.val = v
    BY <1>1, <1>3 DEF AsyncWrite, StoreTypeOK, Ops
  <2> HIDE DEF op
  <2>2. /\ DOMAIN Pending = 1 .. Len(Pending) /\ DOMAIN Pending' = 1 .. Len(Pending) + 1
        /\ Len(Pending) \in Nat
        /\ \A i \in 1 .. Len(Pending) : Pending'[i] = Pending[i]
        /\ Pending'[Len(Pending) + 1] = op
    BY <1>1, <2>1, QueuedLast
  <2>3. QED
    BY <1>1, <2>1, <2>2
<1>4. QED
  BY <1>2, <1>3

LEMMA VerdictsStep ==
  ASSUME PipelineInv, VerdictsFit, [Next]_vars
  PROVE  VerdictsFit'
<1>1. CASE Executes
  BY <1>1 DEF Executes, VerdictsFit
<1>2. CASE \E w \in Workers : Check(w)
  <2>1. PICK w \in Workers : Check(w)
    BY <1>2
  <2>2. CASE UNCHANGED storeVars
    BY <1>1, <2>2, StoreExecutes DEF PipelineInv
  <2>3. ASSUME NEW k \in Keys, NEW v \in Values, AsyncWrite(k, v), VerdictOf(w, k, v)
        PROVE  VerdictsFit'
    BY <2>3, QueuedOrPending DEF PipelineInv, VerdictsFit, VerdictOf
  <2>4. QED
    BY <2>1, <2>2, <2>3, CheckWrites
<1>3. QED
  BY <1>1, <1>2, OthersExecute

LEMMA CacheInvariance == Spec => []CacheInv
<1>1. CacheInv /\ [Next]_vars => CacheInv'
  BY NextInv, QuietStep, VerdictsStep DEF CacheInv
<1>2. QED
  BY <1>1, CacheInitInv, PTL DEF Spec

\* A check of address i that is not about to cache PERMIT does not get there while the
\* cache says BLOCK: Lookup answers from the cache, or its read has failed.
Harmless == {"idle", "lookup", "cve", "malicious", "reply"}

LEMMA StaysHarmless ==
  ASSUME PipelineInv, [Next]_vars, NEW i \in IPs, ~PassesCache(i),
         \A w \in Workers : IP(w) = i => pc[w] \in Harmless
  PROVE  \A w \in Workers : IP(w)' = i => pc'[w] \in Harmless
<1>1. pc \in [Workers -> Labels] /\ req \in [Workers -> Requests]
  BY DEF PipelineInv, TypeOK, Labels
<1>2. ASSUME NEW w \in Workers, Check(w)
      PROVE  /\ \A v \in Workers \ {w} : pc'[v] = pc[v] /\ req'[v] = req[v]
             /\ IP(w)' = i => pc'[w] \in Harmless
  <2>1. CASE Respond(w)
    BY <1>1, <2>1 DEF Respond, Harmless
  <2>2. CASE ~Respond(w)
    <3>1. req' = req /\ \E label \in Labels : pc' = [pc EXCEPT ![w] = label]
      BY <1>2, <2>2 DEF Check, Lookup, Tier1, CVEMatch, Hash, Yara, Malicious, Clean, ML,
                        Block, Permit, Answer, Goto, Labels
    <3>2. CASE IP(w) = i /\ pc[w] = "lookup"
      <4>1. pc'[w] # "tier1"
        BY <3>2 DEF PassesCache
      <4>2. Lookup(w)
        BY <1>2, <3>2 DEF Check, Lookup, Tier1, CVEMatch, Hash, Yara, Malicious, Clean, ML,
                          Respond
      <4>3. pc' = [pc EXCEPT ![w] = "reply"]
        BY <1>1, <4>1, <4>2 DEF Lookup, Block, Permit, Answer, Goto, Labels
      <4>4. QED
        BY <1>1, <3>1, <4>3 DEF Harmless
    <3>3. CASE IP(w) = i /\ pc[w] \in {"cve", "malicious"}
      <4>1. CVEMatch(w) \/ Malicious(w)
        BY <1>2, <3>3 DEF Check, Lookup, Tier1, CVEMatch, Hash, Yara, Malicious, Clean, ML,
                          Respond
      <4>2. pc' = [pc EXCEPT ![w] = "reply"]
        BY <4>1 DEF CVEMatch, Malicious, Block, Answer
      <4>3. QED
        BY <1>1, <3>1, <4>2 DEF Harmless
    <3>4. CASE IP(w) # i
      BY <1>1, <3>1, <3>4 DEF IP
    <3>5. pc[w] \notin {"idle", "reply"}
      BY <1>2, <2>2 DEF Check, Lookup, Tier1, CVEMatch, Hash, Yara, Malicious, Clean, ML
    <3>6. QED
      BY <3>2, <3>3, <3>4, <3>5 DEF Harmless
  <2>3. QED
    BY <2>1, <2>2
<1>3. ASSUME NEW w \in Workers, NEW r \in Requests, Begin(w, r)
      PROVE  \A v \in Workers : IP(v)' = i => pc'[v] \in Harmless
  <2>1. /\ \A v \in Workers \ {w} : pc'[v] = pc[v] /\ req'[v] = req[v]
        /\ pc'[w] \in Harmless
    BY <1>1, <1>3 DEF Begin, Harmless
  <2>2. QED
    BY <2>1 DEF IP
<1>4. CASE UNCHANGED workerVars
  BY <1>4 DEF workerVars, IP
<1>5. QED
  BY <1>2, <1>3, <1>4
  DEF Next, ReloadPatterns, ReloadYara, Shutdown, StoreStep, vars, IP

LEMMA BlockStep ==
  ASSUME CacheInv, [Next]_vars, NEW i \in IPs, row[i].val = "BLOCK", NoPermitComing(i)
  PROVE  /\ row'[i].val \in {"BLOCK", None}
         /\ (row'[i].val = "BLOCK" /\ ~PassesCache(i)) => NoPermitComing(i)'
<1>1. /\ PipelineInv /\ StoreInv /\ VerdictsFit /\ i \in Keys
      /\ \A w \in Workers : IP(w) = i => pc[w] \in Harmless
      /\ \A j \in DOMAIN Pending : Pending[j].key = i => Pending[j].val = "BLOCK"
  BY PipelineAssumption DEF CacheInv, PipelineInv, NoPermitComing, Harmless, VerdictsFit
<1>2. ~PassesCache(i) => \A w \in Workers : IP(w)' = i => pc'[w] \in Harmless
  BY <1>1, StaysHarmless
<1>3. /\ row'[i].val \in {"BLOCK", None}
      /\ \A j \in DOMAIN Pending' : Pending'[j].key = i => Pending'[j].val = "BLOCK"
  <2>1. CASE Executes
    BY <1>1, <2>1 DEF Executes
  <2>2. CASE \E w \in Workers : Check(w)
    <3>1. PICK w \in Workers : Check(w)
      BY <2>2
    <3>2. CASE UNCHANGED storeVars
      BY <1>1, <2>1, <3>2, StoreExecutes
    <3>3. ASSUME NEW k \in Keys, NEW v \in Values, AsyncWrite(k, v), VerdictOf(w, k, v)
          PROVE  /\ row'[i].val \in {"BLOCK", None}
                 /\ \A j \in DOMAIN Pending' :
                      Pending'[j].key = i => Pending'[j].val = "BLOCK"
      <4>1. k = i => v = "BLOCK"
        BY <1>1, <3>3 DEF VerdictOf, Harmless
      <4>2. QED
        BY <1>1, <3>3, <4>1, QueuedOrPending
    <3>4. QED
      BY <1>1, <3>1, <3>2, <3>3, CheckWrites
  <2>3. QED
    BY <1>1, <2>1, <2>2, OthersExecute
<1>4. QED
  BY <1>2, <1>3 DEF NoPermitComing, Harmless
-----------------------------------------------------------------------------
(* Theorems *)

\* The values of the pipeline's variables; a worker is never past its last scan target.
THEOREM TypeCorrect == Spec => []TypeOK
<1>1. PipelineInv => TypeOK
  BY DEF PipelineInv
<1>2. QED
  BY <1>1, Invariance, PTL

\* Shadow mode never answers BLOCK (block() in pipeline.go), cached verdicts included.
THEOREM ShadowCorrect == Spec => []ShadowNeverBlocks
<1>1. PipelineInv => ShadowNeverBlocks
  BY DEF PipelineInv
<1>2. QED
  BY <1>1, Invariance, PTL

\* However reloads interleave with checks, no request passes against a pattern that was
\* loaded from the beginning of its check to the end (ReloadRules, tier1 Load).
THEOREM ReloadLeavesNoGap == Spec => []NoScanGap
<1>1. PipelineInv => NoScanGap
  BY DEF PipelineInv
<1>2. QED
  BY <1>1, Invariance, PTL

\* The pipeline implements the store's interface: each of its steps is a step of
\* StoreSpec or leaves the store alone.
THEOREM UsesStore == Spec => StoreSpec
<1>1. Init => StoreInit
  BY DEF Init
<1>2. PipelineInv /\ [Next]_vars => [StoreNext]_storeVars
  BY StoreSteps DEF PipelineInv
<1>3. QED
  BY <1>1, <1>2, Invariance, PTL DEF Spec, StoreSpec

\* So the store's promise holds of the verdicts and hashes the pipeline caches.
THEOREM PipelineWritesInOrder == Spec => WritesApplyInOrder
BY UsesStore, StoreWritesInOrder, PTL

\* When the writer has ended nothing that was queued is left behind: main closes the store
\* when the workers are done (Close and writeLoop's quit branch in store.go, main.go).
THEOREM CloseFlushesAll == Spec => []CloseFlushes
<1>1. CacheInv => CloseFlushes
  <2> SUFFICES ASSUME CacheInv, writer = "done" PROVE Pending = <<>>
    BY DEF CloseFlushes
  <2>1. ops = <<>> /\ writeCh = <<>>
    BY DEF CacheInv, PipelineInv, StoreInv, BatchInUse, Quiet
  <2>2. QED
    BY <2>1, EmptySeq, ConcatEmptySeq DEF Pending
<1>2. QED
  BY <1>1, CacheInvariance, PTL

\* A cached BLOCK holds until it expires once no earlier check of the address is left,
\* whatever the other workers, the writer and the clock do (SetIPVerdict, GetIPVerdict):
\* only a check whose read of the cache failed may replace it.
THEOREM BlocksHold == Spec => BlockHolds
<1>1. CacheInv /\ [Next]_vars =>
        [\A i \in IPs :
           (row[i].val = "BLOCK" /\ NoPermitComing(i)) =>
             /\ row'[i].val \in {"BLOCK", None}
             /\ (row'[i].val = "BLOCK" /\ ~PassesCache(i)) => NoPermitComing(i)']_vars
  BY BlockStep
<1>2. QED
  BY <1>1, CacheInvariance, PTL DEF Spec, BlockHolds
=============================================================================
