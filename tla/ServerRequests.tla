---------------------------- MODULE ServerRequests ----------------------------
(***************************************************************************)
(* How the central server handles a request: the sync dependencies and     *)
(* endpoints of server/app/routers run in FastAPI's thread pool, get_db    *)
(* (server/app/database.py) holds _db_lock from before the endpoint until  *)
(* after it, the credentials are checked in between (server/app/auth.py),  *)
(* and every response is recorded in the audit chain (module AuditChain).  *)
(*                                                                         *)
(* A thread of the pool is taken for each sync function and given back     *)
(* when it returns, so a thread is held by a request that waits in one:    *)
(* for _db_lock in get_db, in _lookup_api_key or in the background task of *)
(* telemetry and inspect, for _chain_lock in reset_chain. The exit of      *)
(* get_db runs in a limiter of its own.                                    *)
(*                                                                         *)
(* Between its functions a request needs the event loop. CVESyncWorker     *)
(* (server/app/cve_sync.py) runs on that loop too, and waits for _db_lock  *)
(* there, once per CVE and without an await in between.                    *)
(***************************************************************************)
EXTENDS AuditChain

CONSTANTS
  Pool,      \* threads of FastAPI's pool
  MaxSyncs,  \* bound on the number of batches CVESyncWorker upserts
  KindOf,    \* KindOf[r]: the endpoint r calls, see Kinds
  CredOf     \* CredOf[r]: "jwt" (also the bootstrap key) or "key" (an API key)

\* Endpoints with get_db, which leave the audit log alone or purge it; the one that resets
\* it; and those which write events in a background task (telemetry, inspect).
Kinds == {"session", "reset", "events"}

ASSUME ServerAssumption == /\ Pool \in Nat \ {0} /\ MaxSyncs \in Nat
                           /\ KindOf \in [Requests -> Kinds]
                           /\ CredOf \in [Requests -> {"jwt", "key"}]

VARIABLES
  pc,    \* pc[r]: where request r is
  sync,  \* whether CVESyncWorker is in _upsert_patterns
  syncs  \* batches so far

syncVars == <<sync, syncs>>
vars == <<chainVars, pc, syncVars>>

Init == /\ ChainInit
        /\ pc = [r \in Requests |-> "new"]
        /\ sync = "idle" /\ syncs = 0

UsesDb(r) == KindOf[r] # "events"
Goto(r, label) == pc' = [pc EXCEPT ![r] = label]
Lock(r) == dbLock = Free /\ dbLock' = r
ChainButDbLock == <<rows, lastHash, clock, chainLock, job, entry, restarts, excuses>>

\* The requests that wait in a thread of the pool.
InThread == {r \in Requests : pc[r] \in {"getdb", "lookup", "reset", "persist"}}
Thread == Cardinality(InThread) < Pool

\* The event loop is not inside _upsert_patterns.
Loop == sync = "idle"
-----------------------------------------------------------------------------
\* The rate limiter let r pass; its dependencies are solved in the order they are declared.
Arrive(r) == /\ pc[r] = "new" /\ Loop
             /\ Goto(r, IF UsesDb(r) THEN "dep" ELSE "auth")
             /\ UNCHANGED chainVars

\* get_db starts in a thread, and waits there for the lock.
StartGetDb(r) == /\ pc[r] = "dep" /\ Loop /\ Thread
                 /\ Goto(r, "getdb")
                 /\ UNCHANGED chainVars

GetDb(r) == /\ pc[r] = "getdb" /\ Lock(r)
            /\ Goto(r, "auth")
            /\ UNCHANGED ChainButDbLock

\* After the credentials: 401 or 403 is an exception, which ends get_db with a rollback.
Allowed(r) == Goto(r, "handler")
MutDenied(r) == Goto(r, "respond")
Denied(r) == Goto(r, IF UsesDb(r) THEN "exit" ELSE "respond")

\* A JWT is checked at once, an API key in the database, under the lock.
Authenticate(r) ==
  /\ pc[r] = "auth" /\ Loop /\ Thread
  /\ IF CredOf[r] = "jwt" THEN Allowed(r) \/ Denied(r) ELSE Goto(r, "lookup")
  /\ UNCHANGED chainVars

MutLookup(r) == /\ pc[r] = "lookup"
                /\ Allowed(r) \/ Denied(r)
                /\ UNCHANGED chainVars
\* _lookup_api_key takes and releases the lock; nothing tells it that r holds it already.
Lookup(r) == /\ pc[r] = "lookup" /\ dbLock = Free
             /\ Allowed(r) \/ Denied(r)
             /\ UNCHANGED chainVars

\* The endpoint runs in a thread. One that takes events answers before they are written; a
\* batch that is too large, or a static asset, leaves nothing to write.
Handle(r) ==
  /\ pc[r] = "handler" /\ Loop /\ Thread
  /\ \/ /\ KindOf[r] = "events" /\ UNCHANGED chainVars
        /\ Goto(r, "respond") \/ Goto(r, "ack")
     \/ KindOf[r] = "session" /\ Goto(r, "exit") /\ (Purge \/ UNCHANGED chainVars)
     \/ KindOf[r] = "reset" /\ Goto(r, "reset") /\ ClearRows

Reset(r) == /\ pc[r] = "reset" /\ ResetPointer
            /\ Goto(r, "exit")

\* get_db commits or rolls back and releases the lock.
ExitDb(r) == /\ pc[r] = "exit" /\ Loop
             /\ dbLock' = Free
             /\ Goto(r, "respond")
             /\ UNCHANGED ChainButDbLock

\* The response leaves, and the audit job is submitted. An exception that is no HTTPException
\* passes the middleware: 500, and no job.
Respond(r) == /\ pc[r] \in {"respond", "ack"} /\ Loop
              /\ Goto(r, IF pc[r] = "ack" THEN "background" ELSE "done")
              /\ \/ Submit(r)
                 \/ pc[r] = "respond" /\ UNCHANGED chainVars

\* The background task: a thread waits for the lock, writes the events and releases it.
StartPersist(r) == /\ pc[r] = "background" /\ Loop /\ Thread
                   /\ Goto(r, "persist")
                   /\ UNCHANGED chainVars

Persist(r) == /\ pc[r] = "persist" /\ dbLock = Free
              /\ Goto(r, "done")
              /\ UNCHANGED chainVars

Serve(r) == \/ StartGetDb(r) \/ GetDb(r) \/ Authenticate(r) \/ Lookup(r) \/ Handle(r)
            \/ Reset(r) \/ ExitDb(r) \/ Respond(r) \/ StartPersist(r) \/ Persist(r)
Record(r) == AppendToChain(r) /\ UNCHANGED pc
-----------------------------------------------------------------------------
(* CVESyncWorker, on the event loop *)

StartSync == /\ Loop /\ syncs < MaxSyncs
             /\ sync' = "running" /\ syncs' = syncs + 1
             /\ UNCHANGED <<chainVars, pc>>

\* Each upsert waits for the lock, commits and releases it; the last one ends the batch.
EndSync == /\ sync = "running" /\ dbLock = Free
           /\ sync' = "idle"
           /\ UNCHANGED <<chainVars, pc, syncs>>
-----------------------------------------------------------------------------
\* A restart drops the requests and the background tasks that were under way.
Restart == /\ RestartChain
           /\ pc' = [r \in Requests |-> IF pc[r] = "new" THEN "new" ELSE "done"]
           /\ sync' = "idle" /\ UNCHANGED syncs

Next == \/ /\ \E r \in Requests : Arrive(r) \/ Serve(r) \/ Record(r)
           /\ UNCHANGED syncVars
        \/ StartSync \/ EndSync
        \/ Restart

Spec == Init /\ [][Next]_vars

\* The event loop and the threads run. Locks and threads of the pool are given to some
\* waiter, and there are finitely many requests and batches, so weak fairness is enough.
FairSpec == /\ Spec
            /\ \A r \in Requests : WF_vars(Serve(r) /\ UNCHANGED syncVars)
            /\ \A r \in Requests : WF_vars(Record(r) /\ UNCHANGED syncVars)
            /\ WF_vars(EndSync)
-----------------------------------------------------------------------------
(* Properties *)

Labels == {"new", "dep", "getdb", "auth", "lookup", "handler", "reset", "exit", "respond",
           "ack", "background", "persist", "done"}
\* The pool has no more than Pool threads.
TypeOK == /\ ChainTypeOK
          /\ pc \in [Requests -> Labels]
          /\ sync \in {"idle", "running"} /\ syncs \in 0 .. MaxSyncs
          /\ Cardinality(InThread) <= Pool

\* The four ways in which the server stops for good: a key looked up under the lock the
\* request itself holds, an append and a reset each holding the lock the other wants, a
\* pool whose threads all wait for the holder of the lock, which waits for a thread, and
\* an event loop that waits for the holder of the lock, which waits for the event loop.
SelfLookup == \E r \in Requests : pc[r] = "lookup" /\ dbLock = r
ResetCycle == \E r, q \in Requests : /\ pc[r] = "reset" /\ chainLock = q
                                     /\ job[q] = "stamped" /\ dbLock = r
PoolExhausted == /\ ~Thread
                 /\ dbLock # Free /\ pc[dbLock] \in {"auth", "handler"}
                 /\ \A r \in InThread : pc[r] \in {"getdb", "lookup", "persist"}
LoopBlocked == /\ sync = "running"
               /\ dbLock # Free /\ pc[dbLock] \in {"auth", "handler", "exit"}
Stalled == SelfLookup \/ ResetCycle \/ PoolExhausted \/ LoopBlocked

\* Nothing else stops it: every request is answered and its record dealt with, or the
\* server is in one of those four states.
ServedUnlessStalled ==
  \A r \in Requests : (pc[r] = "dep" \/ pc[r] = "auth") ~>
                        (pc[r] = "done" /\ job[r] \in {"none", "done"}) \/ Stalled

\* The guards of what the threads and the event loop do for r, and of what its job does.
CanServe(r) == \/ pc[r] \in {"dep", "auth", "handler", "background"} /\ Loop /\ Thread
               \/ pc[r] \in {"exit", "respond", "ack"} /\ Loop
               \/ pc[r] \in {"getdb", "lookup", "persist"} /\ dbLock = Free
               \/ pc[r] = "reset" /\ chainLock = Free
CanRecord(r) == \/ job[r] = "queued" /\ chainLock = Free
                \/ job[r] = "stamped" /\ dbLock = Free
                \/ job[r] \in {"written", "failed"}
Served(r) == pc[r] \in {"new", "done"} /\ job[r] \in {"none", "done"}

\* No waiting in a circle but those four: as long as a request is not served, or an upsert
\* not done, somebody has what it waits for. No lock is left behind by an exception.
NothingElseStops ==
  ~Stalled => \/ \E r \in Requests : CanServe(r) \/ CanRecord(r)
              \/ sync = "running" /\ dbLock = Free
              \/ sync = "idle" /\ \A r \in Requests : Served(r)

\* And those four are for good: whatever else goes on, only a restart ends one.
StallsLast ==
  [][\/ restarts' # restarts
     \/ /\ SelfLookup => SelfLookup'
        /\ ResetCycle => ResetCycle'
        /\ PoolExhausted => PoolExhausted'
        /\ LoopBlocked => LoopBlocked']_vars

\* The audit table implements the append-only log.
Log == INSTANCE AuditLog WITH
  Records <- Requests,
  log     <- [i \in DOMAIN InOrder |-> InOrder[i].what]
ImplementsAuditLog == Log!Spec
=============================================================================
