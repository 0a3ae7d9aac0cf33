------------------------------ MODULE AuditChain ------------------------------
(***************************************************************************)
(* The server's audit chain: AuditLogMiddleware in                         *)
(* server/app/middleware/audit.py, and what the endpoints of               *)
(* server/app/routers/audit.py do to its table and its pointer.            *)
(*                                                                         *)
(* After a response, a job of the executor appends an entry: under         *)
(* _chain_lock it stamps the time, seals the entry to _last_hash, writes   *)
(* it under _db_lock (module database.py) and, if the write succeeded,     *)
(* moves _last_hash. A server restart loses the jobs and the pointer and   *)
(* reloads the pointer from the table.                                     *)
(*                                                                         *)
(* HMAC-SHA256 is taken to be injective: the seal of an entry is the       *)
(* sequence of the sealed fields of all the entries it depends on, and     *)
(* GENESIS is the empty sequence. Only those fields are modelled, as the   *)
(* request they record, and the primary key, which the seal leaves out.    *)
(***************************************************************************)
EXTENDS Integers, Sequences, FiniteSets

CONSTANTS
  Requests,     \* requests, each handled and then recorded once
  Ids,          \* values of X-Request-ID, the primary key of audit_logs
  IdOf,         \* IdOf[r]: the one request r carries
  Free,         \* no holder of a lock
  MaxRestarts   \* bound on the number of restarts

ASSUME ChainAssumption == /\ IdOf \in [Requests -> Ids]
                          /\ Free \notin Requests
                          /\ MaxRestarts \in Nat

VARIABLES
  rows,       \* the table audit_logs
  lastHash,   \* _last_hash
  clock,      \* the time of the latest stamp
  dbLock,     \* holder of _db_lock; a request and its job are the same holder
  chainLock,  \* holder of _chain_lock
  job,        \* job[r]: where _append_to_chain is for request r
  entry,      \* entry[r]: the entry that job has sealed
  restarts,   \* restarts so far
  excuses     \* history: "purge" and "unreadable", if they happened

chainVars == <<rows, lastHash, clock, dbLock, chainLock, job, entry, restarts, excuses>>
locks == <<dbLock, chainLock>>

GENESIS == <<>>
NoEntry == [id |-> "none", ts |-> 0, what |-> Free, prev |-> GENESIS, hash |-> GENESIS]

\* _compute_chain_hash
Seal(prev, ts, what) == Append(prev, <<ts, what>>)

ChainInit == /\ rows = {} /\ lastHash = GENESIS
             /\ clock = 0
             /\ dbLock = Free /\ chainLock = Free
             /\ job = [r \in Requests |-> "none"]
             /\ entry = [r \in Requests |-> NoEntry]
             /\ restarts = 0 /\ excuses = {}
-----------------------------------------------------------------------------
(* _append_to_chain, in a thread of the executor *)

SetJob(r, label) == job' = [job EXCEPT ![r] = label]

\* dispatch, after the response: the job is handed to the executor.
Submit(r) == /\ job[r] = "none"
             /\ SetJob(r, "queued")
             /\ UNCHANGED <<rows, lastHash, clock, locks, entry, restarts, excuses>>

MutStamp(r) ==
  /\ job[r] = "queued"
  /\ clock' = clock + 1
  /\ entry' = [entry EXCEPT ![r] = [id |-> IdOf[r], ts |-> clock', what |-> r,
                                    prev |-> lastHash, hash |-> Seal(lastHash, clock', r)]]
  /\ SetJob(r, "stamped")
  /\ UNCHANGED <<rows, lastHash, locks, restarts, excuses>>
\* The lock is taken, the time read and the entry sealed to the pointer.
Stamp(r) ==
  /\ job[r] = "queued" /\ chainLock = Free
  /\ chainLock' = r
  /\ clock' = clock + 1
  /\ entry' = [entry EXCEPT ![r] = [id |-> IdOf[r], ts |-> clock', what |-> r,
                                    prev |-> lastHash, hash |-> Seal(lastHash, clock', r)]]
  /\ SetJob(r, "stamped")
  /\ UNCHANGED <<rows, lastHash, dbLock, restarts, excuses>>

Duplicate(e) == \E f \in rows : f.id = e.id \/ f.hash = e.hash

\* _write_sync: the lock is taken, the row inserted and committed, the lock released. A
\* duplicate key, or any database error, rolls the row back.
Write(r) ==
  /\ job[r] = "stamped" /\ dbLock = Free
  /\ \/ /\ ~Duplicate(entry[r])
        /\ rows' = rows \cup {entry[r]}
        /\ SetJob(r, "written")
     \/ SetJob(r, "failed") /\ UNCHANGED rows
  /\ UNCHANGED <<lastHash, clock, locks, entry, restarts, excuses>>

MutFinish(r) ==
  /\ job[r] \in {"written", "failed"}
  /\ lastHash' = entry[r].hash
  /\ chainLock' = Free
  /\ SetJob(r, "done") /\ entry' = [entry EXCEPT ![r] = NoEntry]
  /\ UNCHANGED <<rows, clock, dbLock, restarts, excuses>>
MutKeepLock(r) ==
  /\ job[r] \in {"written", "failed"}
  /\ IF job[r] = "written" THEN lastHash' = entry[r].hash /\ chainLock' = Free
                           ELSE UNCHANGED <<lastHash, chainLock>>
  /\ SetJob(r, "done") /\ entry' = [entry EXCEPT ![r] = NoEntry]
  /\ UNCHANGED <<rows, clock, dbLock, restarts, excuses>>
\* The pointer moves only after a successful write.
Finish(r) ==
  /\ job[r] \in {"written", "failed"}
  /\ lastHash' = IF job[r] = "written" THEN entry[r].hash ELSE lastHash
  /\ chainLock' = Free
  /\ SetJob(r, "done") /\ entry' = [entry EXCEPT ![r] = NoEntry]
  /\ UNCHANGED <<rows, clock, dbLock, restarts, excuses>>

AppendToChain(r) == Stamp(r) \/ Write(r) \/ Finish(r)
-----------------------------------------------------------------------------
(* Endpoints of routers/audit.py; the caller holds _db_lock (get_db) *)

\* purge_old_entries: rows older than the cutoff go, the pointer stays.
Purge ==
  /\ \E cutoff \in 1 .. clock + 1 : rows' = {e \in rows : e.ts >= cutoff}
  /\ excuses' = excuses \cup {"purge"}
  /\ UNCHANGED <<lastHash, clock, locks, job, entry, restarts>>

\* reset_chain: the table is cleared and committed ...
ClearRows == /\ rows' = {}
             /\ UNCHANGED <<lastHash, clock, locks, job, entry, restarts, excuses>>

\* ... then the pointer is reset under _chain_lock.
ResetPointer == /\ chainLock = Free
                /\ lastHash' = GENESIS
                /\ UNCHANGED <<rows, clock, locks, job, entry, restarts, excuses>>
-----------------------------------------------------------------------------
(* Restart *)

\* The chain_hash of the newest row.
Latest == LET newest == {e \in rows : \A f \in rows : f.ts <= e.ts}
          IN  IF rows = {} THEN GENESIS ELSE (CHOOSE e \in newest : TRUE).hash

\* The process ends anywhere and starts again; _load_last_chain_hash takes the newest
\* row, or GENESIS when the database cannot be read.
RestartChain ==
  /\ restarts < MaxRestarts /\ restarts' = restarts + 1
  /\ \/ lastHash' = Latest /\ UNCHANGED excuses
     \/ lastHash' = GENESIS /\ excuses' = excuses \cup {"unreadable"}
  /\ dbLock' = Free /\ chainLock' = Free
  /\ job' = [r \in Requests |-> IF job[r] = "none" THEN "none" ELSE "done"]
  /\ entry' = [r \in Requests |-> NoEntry]
  /\ UNCHANGED <<rows, clock>>
-----------------------------------------------------------------------------
(* Properties *)

\* The rows in the order of verify_chain, by timestamp.
InOrder == CHOOSE s \in [1 .. Cardinality(rows) -> rows] :
             \A i, j \in 1 .. Cardinality(rows) : i < j => s[i].ts < s[j].ts

\* verify_chain: every seal is right and each entry is sealed to the one before it. It seals
\* again what the database returns for the stamp, which has to be the string that was sealed.
Verifies(s) ==
  \A i \in DOMAIN s :
    /\ s[i].hash = Seal(s[i].prev, s[i].ts, s[i].what)
    /\ s[i].prev = IF i = 1 THEN GENESIS ELSE s[i - 1].hash

ChainTypeOK ==
  /\ \A e \in rows : e.id \in Ids /\ e.ts \in 1 .. clock /\ e.what \in Requests
  /\ clock \in Nat
  /\ dbLock \in Requests \cup {Free} /\ chainLock \in Requests \cup {Free}
  /\ job \in [Requests -> {"none", "queued", "stamped", "written", "failed", "done"}]
  /\ restarts \in 0 .. MaxRestarts
  /\ excuses \subseteq {"purge", "unreadable"}
  /\ \A r \in Requests : job[r] \in {"stamped", "written", "failed"} => entry[r].what = r

\* GET /v1/audit/verify finds the chain intact, whatever jobs ran concurrently, writes
\* failed and restarts happened, unless rows were purged or the database could not be
\* read at a restart (the claims of the fixes 1 to 4 in middleware/audit.py).
ChainVerifies == excuses = {} => Verifies(InOrder)
=============================================================================
