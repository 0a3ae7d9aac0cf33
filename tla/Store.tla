-------------------------------- MODULE Store --------------------------------
(***************************************************************************)
(* The Go agent's local database, internal/db/store.go, as its callers see *)
(* it: writes are queued (asyncWrite) and dropped when the queue is full;  *)
(* one writer goroutine (writeLoop) takes them in batches and executes     *)
(* each batch in a transaction; reads go straight to the table. Close      *)
(* makes the writer execute what is queued and end.                        *)
(*                                                                         *)
(* The tables the agent uses (ip_reputation, file_hashes, cve_signatures,  *)
(* agent_config) are one function from keys to rows, for every statement   *)
(* is an INSERT OR REPLACE of one row. Readers and the writer share one    *)
(* connection (SetMaxOpenConns(1)), so a read never sees half a batch: a   *)
(* transaction is one step.                                                *)
(***************************************************************************)
EXTENDS Integers, Sequences

CONSTANTS
  Keys,      \* primary keys of the tables
  Values,    \* what a row says
  None,      \* no (unexpired) row
  Expiring,  \* the keys whose row has an expires_at (ip_reputation)
  QueueCap,  \* capacity of writeCh
  BatchMax   \* operations taken into one transaction

ASSUME StoreAssumption == /\ None \notin Values
                          /\ Expiring \subseteq Keys
                          /\ QueueCap \in Nat \ {0}
                          /\ BatchMax \in Nat \ {0}

VARIABLES
  row,      \* row[k]: the value, and the number of the write that put it there
  writeCh,  \* s.writeCh
  ops,      \* the batch writeLoop holds
  writer,   \* where writeLoop is
  quit,     \* s.quit is closed
  seq       \* history: how many writes were queued; numbers them

storeVars == <<row, writeCh, ops, writer, quit, seq>>

Rows == [val: Values \cup {None}, n: Nat]
Ops == [key: Keys, val: Values, n: Nat]

StoreInit == /\ row = [k \in Keys |-> [val |-> None, n |-> 0]]
             /\ writeCh = <<>> /\ ops = <<>>
             /\ writer = "select"
             /\ quit = FALSE
             /\ seq = 0
-----------------------------------------------------------------------------
(* Callers *)

\* What GetIPVerdict, GetFileHash or GetConfig may answer: the row, and None for a row
\* that is not there or has expired, or when the query or the Scan fails.
Get(k) == {row[k].val, None}

MutQueueFull == Len(writeCh) > QueueCap
QueueFull == Len(writeCh) = QueueCap

\* SetIPVerdict, StoreFileHash, SetConfig, UpsertSignature: never waits.
AsyncWrite(k, v) ==
  /\ IF QueueFull
     THEN UNCHANGED <<writeCh, seq>>
     ELSE /\ seq' = seq + 1
          /\ writeCh' = Append(writeCh, [key |-> k, val |-> v, n |-> seq'])
  /\ UNCHANGED <<row, ops, writer, quit>>

\* The clock passes the row's expires_at, or CleanExpiredIPs deletes it.
Expire(k) == /\ k \in Expiring /\ row[k].val # None
             /\ row' = [row EXCEPT ![k].val = None]
             /\ UNCHANGED <<writeCh, ops, writer, quit, seq>>

Close == /\ ~quit /\ quit' = TRUE
         /\ UNCHANGED <<row, writeCh, ops, writer, seq>>
-----------------------------------------------------------------------------
(* The writer goroutine *)

\* The row of k after the statements of batch at the positions in done.
Executed(batch, done, k) ==
  LET I == {i \in done : batch[i].key = k}
  IN  IF I = {} THEN row[k]
      ELSE LET i == CHOOSE i \in I : \A j \in I : j <= i
           IN  [val |-> batch[i].val, n |-> batch[i].n]

Least(a, b) == IF a < b THEN a ELSE b

\* Mutant: the newest writes first.
MutTakeBatch ==
  /\ writer = "select" /\ writeCh # <<>>
  /\ ops' = <<writeCh[Len(writeCh)]>>
  /\ writeCh' = SubSeq(writeCh, 1, Len(writeCh) - 1)
  /\ writer' = "tx"
  /\ UNCHANGED <<row, quit, seq>>
\* The first receive and the non-blocking drain up to BatchMax. Writes queued while
\* the drain runs come after the ones it has taken, so taking all at once is the same.
TakeBatch ==
  /\ writer = "select" /\ writeCh # <<>>
  /\ LET m == Least(Len(writeCh), BatchMax)
     IN  /\ ops' = SubSeq(writeCh, 1, m)
         /\ writeCh' = SubSeq(writeCh, m + 1, Len(writeCh))
  /\ writer' = "tx"
  /\ UNCHANGED <<row, quit, seq>>

\* Begin, Exec of each operation, Commit. Errors are only logged: a failed Exec loses
\* its operation, a failed Begin or Commit (done = {}) the whole batch.
WriteBatch ==
  /\ writer = "tx"
  /\ \E done \in SUBSET DOMAIN ops :
       row' = [k \in Keys |-> Executed(ops, done, k)]
  /\ ops' = <<>> /\ writer' = "select"
  /\ UNCHANGED <<writeCh, quit, seq>>

MutQuit == /\ writer = "select" /\ quit /\ writer' = "done"
           /\ UNCHANGED <<row, writeCh, ops, quit, seq>>
Quit == /\ writer = "select" /\ quit /\ writer' = "drain"
        /\ UNCHANGED <<row, writeCh, ops, quit, seq>>

\* The quit branch executes what is queued one by one, outside a transaction.
DrainOne ==
  /\ writer = "drain" /\ writeCh # <<>>
  /\ \E done \in SUBSET {1} :
       row' = [k \in Keys |-> Executed(writeCh, done, k)]
  /\ writeCh' = Tail(writeCh)
  /\ UNCHANGED <<ops, writer, quit, seq>>

DrainEnd == /\ writer = "drain" /\ writeCh = <<>> /\ writer' = "done"
            /\ UNCHANGED <<row, writeCh, ops, quit, seq>>

Writer == TakeBatch \/ WriteBatch \/ Quit \/ DrainOne \/ DrainEnd

StoreNext == \/ \E k \in Keys, v \in Values : AsyncWrite(k, v)
             \/ \E k \in Keys : Expire(k)
             \/ Close \/ Writer

StoreSpec == StoreInit /\ [][StoreNext]_storeVars
-----------------------------------------------------------------------------
(* Properties *)

StoreTypeOK == /\ row \in [Keys -> Rows]
               /\ writeCh \in Seq(Ops) /\ Len(writeCh) <= QueueCap
               /\ ops \in Seq(Ops) /\ Len(ops) <= BatchMax
               /\ writer \in {"select", "tx", "drain", "done"}
               /\ quit \in BOOLEAN
               /\ seq \in Nat

\* Queued and taken writes, oldest first.
Pending == ops \o writeCh

\* The writer executes nothing out of order: what waits is numbered in order, and is
\* newer than the row of every key.
PendingInOrder ==
  /\ \A i, j \in DOMAIN Pending : i < j => Pending[i].n < Pending[j].n
  /\ \A i \in DOMAIN Pending : Pending[i].n <= seq
  /\ \A k \in Keys : /\ row[k].n <= seq
                     /\ \A i \in DOMAIN Pending : row[k].n < Pending[i].n

\* A row is never replaced by an older write of its key, whichever writes were dropped,
\* batched, failed or drained at shutdown in between.
WritesApplyInOrder == [][\A k \in Keys : row[k].n <= row'[k].n]_row

\* When the writer has ended nothing that was queued is left behind ("Flush remaining
\* writes"): in the agent nobody writes after Close.
CloseFlushes == writer = "done" => Pending = <<>>
=============================================================================
