------------------------------- MODULE PyStore -------------------------------
(***************************************************************************)
(* The Python agent's local database, agent/db/duckdb_store.py.            *)
(*                                                                         *)
(* Any thread writes by putting one SQL statement in a bounded queue,      *)
(* which drops it when it is full. One writer thread takes up to WriteBatch*)
(* statements at a time and executes them one after the other; each        *)
(* commits by itself, so an error keeps those before it and loses those    *)
(* after it. Reads go straight to the tables under a lock of their own.    *)
(*                                                                         *)
(* A row is represented by the statement that wrote it.                    *)
(***************************************************************************)
EXTENDS Integers, Sequences

CONSTANTS
  Keys,        \* primary keys of all the tables
  Addresses,   \* those of ip_reputation, whose rows expire
  Values,      \* what a row may say
  QueueSize,   \* size of the write queue (10000)
  WriteBatch   \* statements taken at a time (200)

ASSUME PyStoreAssumption == /\ Addresses \subseteq Keys
                            /\ QueueSize \in Nat \ {0}
                            /\ WriteBatch \in Nat \ {0}

VARIABLES
  row,       \* the tables: for each key the statement that wrote its row
  expired,   \* addresses whose row is past its expires_at
  wq,        \* _write_queue
  wbatch,    \* the writer's local batch
  wpc,       \* where the writer thread is
  shut,      \* the store's _shutdown
  conn       \* the connections: "open" or "closed"

storeVars == <<row, expired, wq, wbatch, wpc, shut, conn>>

NoRow == [op |-> "none"]

Ops == {"replace", "update", "cleanup"}
Statements == [op : Ops, key : Keys, value : Values]

StoreInit == /\ row = [k \in Keys |-> NoRow]
             /\ expired = {}
             /\ wq = <<>> /\ wbatch = <<>>
             /\ wpc = "get"
             /\ shut = FALSE
             /\ conn = "open"
-----------------------------------------------------------------------------
(* Callers *)

Room == Len(wq) < QueueSize

\* _enqueue: the statement is queued, or logged and lost; the caller never waits.
Enqueue(op, k, v) ==
  /\ wq' = IF Room THEN Append(wq, [op |-> op, key |-> k, value |-> v]) ELSE wq
  /\ UNCHANGED <<row, expired, wbatch, wpc, shut, conn>>

\* set_ip_verdict, upsert_signature, store_file_hash, set_config; store_event
\* inserts under a fresh uuid.
Replace(k, v) == Enqueue("replace", k, v)

\* deactivate_signature: only a row that is there changes.
Deactivate(k, v) == k \notin Addresses /\ Enqueue("update", k, v)

\* cleanup_expired_ips: the key and the value play no part.
Cleanup == Enqueue("cleanup", CHOOSE k \in Keys : TRUE, CHOOSE v \in Values : TRUE)

\* get_file_hash, get_config, get_active_signatures: what the tables hold now. A
\* closed connection raises.
Found(k) == row[k] # NoRow

\* get_ip_verdict leaves out what has expired.
FoundAddress(k) == Found(k) /\ k \notin expired

\* The time_to_live of an address's row runs out.
Expire(k) == /\ Found(k) /\ k \in Addresses \ expired
             /\ expired' = expired \cup {k}
             /\ UNCHANGED <<row, wq, wbatch, wpc, shut, conn>>

\* close sets the flag, joins the writer for up to five seconds and closes both
\* connections, whether the writer has ended or not.
BeginClose == /\ ~shut /\ shut' = TRUE
              /\ UNCHANGED <<row, expired, wq, wbatch, wpc, conn>>

EndClose == /\ shut /\ conn = "open"
            /\ conn' = "closed"
            /\ UNCHANGED <<row, expired, wq, wbatch, wpc, shut>>
-----------------------------------------------------------------------------
(* The writer thread *)

\* while not _shutdown.is_set(): where the writer goes at the end of an iteration.
Again == wpc' = IF shut THEN "done" ELSE "get"

\* get(timeout=0.1) raises Empty.
GetTimeout == /\ wpc = "get" /\ wq = <<>>
              /\ Again
              /\ UNCHANGED <<row, expired, wq, wbatch, shut, conn>>

Upto(m, s) == IF Len(s) < m THEN Len(s) ELSE m

TakeBatch == /\ wpc = "get" /\ wq # <<>>
             /\ LET m == Upto(WriteBatch, wq) IN
                /\ wbatch' = SubSeq(wq, 1, m)
                /\ wq' = SubSeq(wq, m + 1, Len(wq))
             /\ wpc' = "execute"
             /\ UNCHANGED <<row, expired, shut, conn>>

\* The tables after statement s.
After(s) == CASE s.op = "replace" -> [row EXCEPT ![s.key] = s]
              [] s.op = "update"  -> IF Found(s.key) THEN [row EXCEPT ![s.key] = s] ELSE row
              [] s.op = "cleanup" -> [k \in Keys |-> IF k \in expired THEN NoRow ELSE row[k]]

Execute == /\ wpc = "execute" /\ wbatch # <<>> /\ conn = "open"
           /\ row' = After(Head(wbatch))
           /\ expired' = CASE Head(wbatch).op = "replace" -> expired \ {Head(wbatch).key}
                           [] Head(wbatch).op = "update"  -> expired
                           [] Head(wbatch).op = "cleanup" -> {}
           /\ wbatch' = Tail(wbatch)
           /\ UNCHANGED <<wq, wpc, shut, conn>>

MutAbandon == /\ wpc = "execute" /\ wbatch # <<>>
              /\ wbatch' = <<>>
              /\ wq' = wq \o wbatch
              /\ Again
              /\ UNCHANGED <<row, expired, shut, conn>>
\* A statement raises: the rest of the batch is not executed.
Abandon == /\ wpc = "execute" /\ wbatch # <<>>
           /\ wbatch' = <<>>
           /\ Again
           /\ UNCHANGED <<row, expired, wq, shut, conn>>

Commit == /\ wpc = "execute" /\ wbatch = <<>>
          /\ Again
          /\ UNCHANGED <<row, expired, wq, wbatch, shut, conn>>

Writer == GetTimeout \/ TakeBatch \/ Execute \/ Abandon \/ Commit
-----------------------------------------------------------------------------
(* Properties *)

StoreTypeOK == /\ row \in [Keys -> Statements \cup {NoRow}]
               /\ expired \subseteq Addresses
               /\ wq \in Seq(Statements) /\ Len(wq) <= QueueSize
               /\ wbatch \in Seq(Statements) /\ Len(wbatch) <= WriteBatch
               /\ wpc \in {"get", "execute", "done"}
               /\ shut \in BOOLEAN
               /\ conn \in {"open", "closed"}

=============================================================================
