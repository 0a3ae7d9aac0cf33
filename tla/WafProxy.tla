------------------------------ MODULE WafProxy ------------------------------
(***************************************************************************)
(* waf-proxy/main.py, an asyncio program: handle asks the agent for a      *)
(* verdict over its socket in a thread of the default executor, spawns a   *)
(* task that posts the event to the central server, and answers 403 or     *)
(* forwards the request. _register_agent runs beside it, once per start of *)
(* the proxy.                                                              *)
(*                                                                         *)
(* The server is module Ingest, with its other clients: an application     *)
(* that calls inspect with the same API key, and an operator who           *)
(* deregisters agents. The heartbeat writes nothing but last_seen and      *)
(* ignores every answer; it is left out.                                   *)
(***************************************************************************)
EXTENDS Ingest

CONSTANTS
  Proxied,   \* the requests the proxy handles; each is the id of its event
  Inspected, \* the requests the server inspects, likewise
  Proxy,     \* AGENT_ID of the proxy
  Actor,     \* the actor the server takes the API key for
  Threads,   \* threads of the default executor
  Attempts,  \* range(10) in _register_agent
  MaxFaults  \* bound on the attempts to register that fail although the server listens

ASSUME ProxyAssumption ==
  /\ Proxy \in Agents /\ Actor \in Agents
  /\ Ids = Proxied \cup Inspected /\ Proxied \cap Inspected = {}
  /\ Threads \in Nat \ {0} /\ Attempts \in Nat \ {0} /\ MaxFaults \in Nat

VARIABLES
  pc,       \* pc[r]: where the handler of r is
  verdict,  \* verdict[r]: what the agent decided, then what the proxy goes by
  post,     \* post[r]: the task that posts the event of r
  told,     \* told[i]: what the client of inspection i was told
  attempt,  \* attempts to register since the proxy started
  reg,      \* "trying", "registered" or "gave up"
  faults    \* attempts that failed although the server listened

handling == <<pc, verdict, post>>
registering == <<attempt, reg, faults>>
proxyVars == <<handling, registering>>
vars == <<ingestVars, proxyVars, told>>

Forwarded == {"backend", "done"}

TypeOK ==
  /\ IngestTypeOK
  /\ pc \in [Proxied -> {"new", "queued", "asked", "decided", "answered", "refused", "dropped"}
                        \cup Forwarded]
  /\ verdict \in [Proxied -> Actions \cup {"none"}]
  /\ post \in [Proxied -> {"none", "running", "over"}]
  /\ told \in [Inspected -> Actions \cup {"none"}]
  /\ attempt \in 0 .. Attempts /\ reg \in {"trying", "registered", "gave up"}
  /\ faults \in 0 .. MaxFaults

Init == /\ IngestInit
        /\ pc = [r \in Proxied |-> "new"]
        /\ verdict = [r \in Proxied |-> "none"]
        /\ post = [r \in Proxied |-> "none"]
        /\ told = [i \in Inspected |-> "none"]
        /\ attempt = 0 /\ reg = "trying" /\ faults = 0
-----------------------------------------------------------------------------
Goto(r, label) == pc' = [pc EXCEPT ![r] = label]
OnlyHandler == UNCHANGED <<ingestVars, registering, told>>

\* The threads that are in _consult_aiss.
InThread == {r \in Proxied : pc[r] \in {"asked", "decided"}}

\* The body was read; run_in_executor queues _consult_aiss.
Arrive(r) == /\ pc[r] = "new" /\ Goto(r, "queued")
             /\ UNCHANGED <<verdict, post>> /\ OnlyHandler

\* A thread takes the call, connects and sends.
Consult(r) == /\ pc[r] = "queued" /\ Cardinality(InThread) < Threads
              /\ Goto(r, "asked")
              /\ UNCHANGED <<verdict, post>> /\ OnlyHandler

\* The agent decides, in time for its answer to be read or not.
Decide(r) == /\ pc[r] = "asked" /\ Goto(r, "decided")
             /\ \E v \in Actions : verdict' = [verdict EXCEPT ![r] = v]
             /\ UNCHANGED post /\ OnlyHandler

\* The answer is read: what the agent decided, or the PERMIT it sends when it is late itself.
Answered(r) == /\ pc[r] = "decided" /\ Goto(r, "answered")
               /\ \E v \in {verdict[r], "PERMIT"} : verdict' = [verdict EXCEPT ![r] = v]
               /\ UNCHANGED post /\ OnlyHandler

\* No socket, an answer cut off, or none in five seconds: fail-open.
MutNoTimeout(r) == /\ pc[r] = "decided" /\ Goto(r, "answered")
                   /\ verdict' = [verdict EXCEPT ![r] = "PERMIT"]
                   /\ UNCHANGED post /\ OnlyHandler
FailOpen(r) == /\ r \in InThread /\ Goto(r, "answered")
               /\ verdict' = [verdict EXCEPT ![r] = "PERMIT"]
               /\ UNCHANGED post /\ OnlyHandler

\* The task that posts the event is spawned before the request is refused or forwarded.
Conclude(r) == /\ pc[r] = "answered"
               /\ Goto(r, IF verdict[r] = "BLOCK" THEN "refused" ELSE "backend")
               /\ post' = [post EXCEPT ![r] = "running"]
               /\ UNCHANGED verdict /\ OnlyHandler

\* The backend answers, or the client is told 502 within thirty seconds.
Backend(r) == /\ pc[r] = "backend" /\ Goto(r, "done")
              /\ UNCHANGED <<verdict, post>> /\ OnlyHandler
-----------------------------------------------------------------------------
MutDefaultAction(r) == [id |-> r, action |-> "PERMIT", agent |-> Actor]
EventOf(r) == [id |-> r, action |-> verdict[r], agent |-> Actor]

\* Mutant: a POST whose answer is lost is sent again.
MutPost(r) == /\ post[r] = "running"
              /\ \/ Acknowledge("telemetry", EventOf(r))
                 \/ UNCHANGED ingestVars /\ post' = [post EXCEPT ![r] = "over"]
              /\ post' \in {post, [post EXCEPT ![r] = "over"]}
              /\ UNCHANGED <<pc, verdict, registering, told>>
\* _send_telemetry: one POST, whose answer is ignored and whose failure is not retried.
Post(r) == /\ post[r] = "running" /\ post' = [post EXCEPT ![r] = "over"]
           /\ Acknowledge("telemetry", EventOf(r)) \/ UNCHANGED ingestVars
           /\ UNCHANGED <<pc, verdict, registering, told>>

Accepted == reg' = "registered" /\ UNCHANGED <<attempt, faults>>
Failed == attempt' = attempt + 1 /\ reg' = IF attempt' = Attempts THEN "gave up" ELSE reg

\* The server answers something else than 201 and 409, or too late, or the network loses
\* the request or the answer.
Fault == /\ up /\ faults < MaxFaults /\ faults' = faults + 1
         /\ Register(Proxy) \/ UNCHANGED ingestVars

\* The connection is refused by a server that does not listen.
Refused == ~up /\ UNCHANGED <<ingestVars, faults>>

\* _register_agent: one attempt.
TryRegister == /\ reg = "trying"
               /\ \/ Register(Proxy) /\ Accepted
                  \/ (Refused \/ Fault) /\ Failed
               /\ UNCHANGED <<handling, told>>

\* The proxy ends; its connections and tasks end with it.
RestartProxy ==
  /\ CountRestart /\ UNCHANGED <<up, tables, tasks, lost, told>>
  /\ pc' = [r \in Proxied |-> IF pc[r] \in {"new", "refused", "done"} THEN pc[r] ELSE "dropped"]
  /\ post' = [r \in Proxied |-> IF post[r] = "running" THEN "over" ELSE post[r]]
  /\ attempt' = 0 /\ reg' = "trying"
  /\ UNCHANGED <<verdict, faults>>
-----------------------------------------------------------------------------
\* inspect_request: a static asset or a failure is permitted and leaves no event.
Inspect(i) ==
  /\ up /\ told[i] = "none"
  /\ \/ told' = [told EXCEPT ![i] = "PERMIT"] /\ UNCHANGED ingestVars
     \/ \E a \in Actions :
          /\ told' = [told EXCEPT ![i] = a]
          /\ Acknowledge("inspect", [id |-> i, action |-> a, agent |-> Actor])
  /\ UNCHANGED proxyVars

Serve == /\ Started \/ Restart \/ \E a \in Agents : Deregister(a)
         /\ UNCHANGED <<proxyVars, told>>

RunTask == (\E t \in tasks : Persist(t)) /\ UNCHANGED <<proxyVars, told>>

Handle(r) == \/ Arrive(r) \/ Consult(r) \/ Decide(r) \/ Answered(r) \/ FailOpen(r)
             \/ Conclude(r) \/ Backend(r) \/ Post(r)

Next == \/ \E r \in Proxied : Handle(r)
        \/ \E i \in Inspected : Inspect(i)
        \/ TryRegister \/ RestartProxy \/ Serve \/ RunTask

Spec == Init /\ [][Next]_vars

\* The proxy's threads, timers and event loop go on. The agent owes no answer, and the
\* server's background tasks may stop for good (ServerRequests).
FairSpec == /\ Spec
            /\ \A r \in Proxied : WF_vars(Consult(r)) /\ WF_vars(FailOpen(r))
                                   /\ WF_vars(Conclude(r)) /\ WF_vars(Backend(r))
            /\ WF_vars(TryRegister)
-----------------------------------------------------------------------------
\* A row tells what was done with its request: BLOCK for one that was not forwarded, PERMIT
\* for one that was not refused, and for an inspection what its client was told. Decision,
\* fail-open, report and 403 are steps of three programs (waf-proxy/main.py:88-245), the row
\* is one more (telemetry.py:58, inspect.py:595).
RowsTellOutcome ==
  \A e \in rows :
    /\ e.id \in Proxied => pc[e.id] \notin (IF e.action = "BLOCK" THEN Forwarded ELSE {"refused"})
    /\ e.id \in Inspected => e.action = told[e.id]

\* No stored event is without its agent, whatever the order of tasks, of inspections that add
\* the agent in the transaction that stores the event, and of operators who remove it
\* (inspect.py:545-592, agents.py:145-168).
EventsHaveAgents == \A e \in rows : e.agent \in agents

\* Every request that was read ends, with a silent agent, a busy executor and a backend that
\* fails: each wait has a timeout (waf-proxy/main.py:92, 280).
RequestEnds == \A r \in Proxied : pc[r] = "queued" ~> pc[r] \in {"refused", "done", "dropped"}

\* Where event i is at the server: nowhere before it is acknowledged.
Places(i) == {p \in {"task", "row", "lost"} :
                \/ p = "task" /\ \E t \in tasks : t.event.id = i
                \/ p = "row" /\ \E e \in rows : e.id = i
                \/ p = "lost" /\ i \in lost}

\* An event is acknowledged at most once and settled at most once: it waits for its task,
\* then it is a row or lost, and neither a restart of the server or of the proxy, an answer
\* that does not arrive, another task nor the removal of its agent makes it vanish, be
\* written a second time or come back (waf-proxy/main.py:163-174, telemetry.py:47-92,
\* inspect.py:595-639, agents.py:145-168).
SettledOnce ==
  [][\A i \in Ids : \/ Places(i)' = Places(i)
                    \/ Places(i) = {} /\ Places(i)' = {"task"}
                    \/ Places(i) = {"task"} /\ Places(i)' \in {{"row"}, {"lost"}}]_vars

\* "Register this WAF proxy as an agent with the AISS server on startup."
\* (waf-proxy/main.py:120), once the server is there to stay.
ProxyRegisters == <>[]up => <>(reg = "registered")
=============================================================================
