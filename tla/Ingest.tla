------------------------------- MODULE Ingest -------------------------------
(***************************************************************************)
(* How the central server takes security events: POST /v1/telemetry        *)
(* (server/app/routers/telemetry.py) and POST /v1/inspect (inspect.py)     *)
(* answer first and write in a background task; agents are rows that       *)
(* POST /v1/agents/register and inspect insert and DELETE removes          *)
(* (agents.py). An event refers to its agent by a foreign key              *)
(* (models.py). Identifiers of events are fresh UUIDs.                     *)
(*                                                                         *)
(* Each of these uses of the database is one session under _db_lock, and   *)
(* so one step; who waits for that lock is the subject of ServerRequests.  *)
(* The tables are in a file and survive a restart, the tasks do not.       *)
(***************************************************************************)
EXTENDS FiniteSets, Naturals

CONSTANTS
  Agents,      \* identifiers of agents, and the actors credentials stand for
  Ids,         \* identifiers of events
  MaxRestarts  \* bound on the restarts of the server and of its clients

ASSUME IngestAssumption == MaxRestarts \in Nat

Actions == {"PERMIT", "BLOCK"}

VARIABLES
  up,       \* the server accepts connections
  agents,   \* table agents: the agents registered
  rows,     \* table security_events
  tasks,    \* background tasks not yet run
  lost,     \* ids of acknowledged events that are gone: their task failed or never ran
  restarts

tables == <<agents, rows>>
ingestVars == <<up, agents, rows, tasks, lost, restarts>>

IngestTypeOK ==
  LET events == [id : Ids, action : Actions, agent : Agents]
  IN /\ up \in BOOLEAN /\ agents \subseteq Agents /\ restarts \in 0 .. MaxRestarts
     /\ rows \subseteq events /\ lost \subseteq Ids
     /\ tasks \subseteq [kind : {"telemetry", "inspect"}, event : events]

\* Compose starts the server together with its clients.
IngestInit == /\ up = FALSE /\ agents = {} /\ rows = {} /\ tasks = {}
              /\ lost = {} /\ restarts = 0
-----------------------------------------------------------------------------
\* The first synchronisation of the CVE feeds is over: the server starts to listen.
Started == /\ ~up /\ up' = TRUE
           /\ UNCHANGED <<tables, tasks, lost, restarts>>

CountRestart == restarts < MaxRestarts /\ restarts' = restarts + 1

Restart == /\ up /\ up' = FALSE /\ CountRestart
           /\ tasks' = {} /\ lost' = lost \cup {t.event.id : t \in tasks}
           /\ UNCHANGED tables

\* register_agent: 201, or 409 for an agent that is there.
Register(a) == /\ up /\ agents' = agents \cup {a}
               /\ UNCHANGED <<up, rows, tasks, lost, restarts>>

\* delete_agent: 404 without a row. The events of an agent would be left without one, which
\* their column does not allow: 500, and nothing is deleted.
Deregister(a) == /\ up /\ a \in agents /\ \A e \in rows : e.agent # a
                 /\ agents' = agents \ {a}
                 /\ UNCHANGED <<up, rows, tasks, lost, restarts>>

\* ingest_telemetry and inspect_request: the answer leaves, the task is left.
Acknowledge(kind, event) == /\ up /\ tasks' = tasks \cup {[kind |-> kind, event |-> event]}
                            /\ UNCHANGED <<up, tables, lost, restarts>>

\* The agents a task finds: inspect adds the one it needs, in the same transaction.
Found(t) == IF t.kind = "inspect" THEN agents \cup {t.event.agent} ELSE agents

Commit(t) == /\ t.event.agent \in Found(t)
             /\ rows' = rows \cup {t.event} /\ agents' = Found(t)
             /\ UNCHANGED lost

\* The foreign key is violated, or the database fails: nothing of the transaction stays.
Rollback(t) == lost' = lost \cup {t.event.id} /\ UNCHANGED tables

\* _persist_events and _persist_inspect_event
Persist(t) == /\ t \in tasks /\ tasks' = tasks \ {t}
              /\ Commit(t) \/ Rollback(t)
              /\ UNCHANGED <<up, restarts>>
=============================================================================
