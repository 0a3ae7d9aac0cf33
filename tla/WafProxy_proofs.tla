--------------------------- MODULE WafProxy_proofs ---------------------------
(***************************************************************************)
(* What the proxy does with a request and what the server stores about it  *)
(* agree, no stored event is without its agent, and the variables have     *)
(* their types, and an acknowledged event is settled once: for any number  *)
(* of requests, inspections, agents, threads, attempts and restarts.       *)
(*                                                                         *)
(* An event is made of the verdict the request was concluded with and of   *)
(* nothing that changes later; so the invariant follows it from the task   *)
(* in the proxy over the task in the server to the row.                    *)
(***************************************************************************)
EXTENDS WafProxy, TLAPS

Concluded == {"refused", "dropped"} \cup Forwarded

\* The events the server has been told of.
Sent == rows \cup {t.event : t \in tasks}

\* What the steps below need of the types.
Types == /\ pc \in [Proxied -> {"new", "queued", "asked", "decided", "answered", "refused",
                                "dropped"} \cup Forwarded]
         /\ DOMAIN verdict = Proxied
         /\ post \in [Proxied -> {"none", "running", "over"}]
         /\ DOMAIN told = Inspected

\* The report is spawned with the conclusion, which follows the verdict.
Concludes == \A r \in Proxied :
  /\ post[r] # "none" => pc[r] \in Concluded
  /\ pc[r] = "refused" => verdict[r] = "BLOCK"
  /\ pc[r] \in Forwarded => verdict[r] # "BLOCK"

\* An event tells the verdict or the answer that will not change any more.
Tells == \A e \in Sent :
  /\ e.id \in Proxied => pc[e.id] \in Concluded /\ e.action = verdict[e.id]
  /\ e.id \in Inspected => told[e.id] # "none" /\ e.action = told[e.id]

IInv == Types /\ Concludes /\ Tells /\ EventsHaveAgents
-----------------------------------------------------------------------------
LEMMA InitInv == Init => IInv
  BY DEF Init, IngestInit, IInv, Types, Concludes, Tells, Sent, EventsHaveAgents

LEMMA InvImplies == IInv => RowsTellOutcome
  BY DEF IInv, Concludes, Tells, Sent, RowsTellOutcome, Concluded, Forwarded

\* A step of the server that neither tells it of an event nor touches the proxy.
LEMMA ServerInv ==
  ASSUME IInv, UNCHANGED <<proxyVars, told>>, Sent' \subseteq Sent, EventsHaveAgents'
  PROVE  IInv'
  BY DEF IInv, Types, Concludes, Tells, proxyVars, handling, registering

\* Restarts, deregistration and background tasks.
LEMMA ServeInv ==
  ASSUME IInv, Serve PROVE IInv'
<1>1. UNCHANGED <<proxyVars, told>>
  BY DEF Serve
<1>2. Sent' \subseteq Sent /\ EventsHaveAgents'
  <2>1. CASE Started \/ Restart
    BY <2>1 DEF Started, Restart, tables, Sent, IInv, EventsHaveAgents
  <2>2. ASSUME NEW a \in Agents, Deregister(a) PROVE Sent' \subseteq Sent /\ EventsHaveAgents'
    BY <2>2 DEF Deregister, Sent, IInv, EventsHaveAgents
  <2>3. QED
    BY <2>1, <2>2 DEF Serve
<1>3. QED
  BY <1>1, <1>2, ServerInv

LEMMA RunTaskInv ==
  ASSUME IInv, RunTask PROVE IInv'
<1>1. PICK t \in tasks : Persist(t)
  BY DEF RunTask
<1>2. UNCHANGED <<proxyVars, told>>
  BY DEF RunTask
<1>3. Sent' \subseteq Sent /\ EventsHaveAgents'
  <2>1. CASE Commit(t)
    BY <1>1, <2>1 DEF Persist, Commit, Found, Sent, IInv, EventsHaveAgents
  <2>2. CASE Rollback(t)
    BY <1>1, <2>2 DEF Persist, Rollback, tables, Sent, IInv, EventsHaveAgents
  <2>3. QED
    BY <1>1, <2>1, <2>2 DEF Persist
<1>4. QED
  BY <1>2, <1>3, ServerInv
-----------------------------------------------------------------------------
\* The handler before its conclusion: nothing has been sent about the request yet.
LEMMA UndecidedInv ==
  ASSUME IInv, NEW r \in Proxied,
         Arrive(r) \/ Consult(r) \/ Decide(r) \/ Answered(r) \/ FailOpen(r)
  PROVE  IInv'
<1>1. /\ UNCHANGED <<rows, tasks, agents, post, told>>
      /\ pc[r] \notin Concluded
      /\ \E l \in {"queued", "asked", "decided", "answered"} : pc' = [pc EXCEPT ![r] = l]
      /\ \A q \in Proxied \ {r} : verdict'[q] = verdict[q]
      /\ DOMAIN verdict' = DOMAIN verdict
  BY DEF IInv, Types, Arrive, Consult, Decide, Answered, FailOpen, Goto, InThread, OnlyHandler,
     ingestVars, tables, Concluded, Forwarded
<1>2. Sent' = Sent
  BY <1>1 DEF Sent
<1>3. QED
  BY <1>1, <1>2 DEF IInv, Types, Concludes, Tells, EventsHaveAgents, Concluded, Forwarded

LEMMA ConclusionInv ==
  ASSUME IInv, NEW r \in Proxied, Conclude(r) \/ Backend(r)
  PROVE  IInv'
<1>1. UNCHANGED <<rows, tasks, agents, verdict, told>>
  BY DEF Conclude, Backend, OnlyHandler, ingestVars, tables
<1>2. Sent' = Sent
  BY <1>1 DEF Sent
<1>3. CASE Conclude(r)
  BY <1>1, <1>2, <1>3
  DEF IInv, Types, Concludes, Tells, EventsHaveAgents, Concluded, Forwarded, Conclude, Goto
<1>4. CASE Backend(r)
  BY <1>1, <1>2, <1>4
  DEF IInv, Types, Concludes, Tells, EventsHaveAgents, Concluded, Forwarded, Backend, Goto
<1>5. QED
  BY <1>3, <1>4

LEMMA PostInv ==
  ASSUME IInv, NEW r \in Proxied, Post(r)
  PROVE  IInv'
<1>1. /\ UNCHANGED <<rows, agents, pc, verdict, told>>
      /\ post[r] = "running" /\ post' = [post EXCEPT ![r] = "over"]
  BY DEF Post, Acknowledge, ingestVars, tables
<1>2. Sent' \subseteq Sent \cup {EventOf(r)}
  <2>1. tasks' = tasks \/ tasks' = tasks \cup {[kind |-> "telemetry", event |-> EventOf(r)]}
    BY DEF Post, Acknowledge, ingestVars
  <2>2. QED
    BY <1>1, <2>1 DEF Sent
<1>3. pc[r] \in Concluded /\ EventOf(r).id = r /\ EventOf(r).action = verdict[r]
  BY <1>1 DEF IInv, Concludes, EventOf
<1>4. Tells'
  BY <1>1, <1>2, <1>3, ProxyAssumption DEF IInv, Tells
<1>5. QED
  BY <1>1, <1>4 DEF IInv, Types, Concludes, EventsHaveAgents

LEMMA InspectInv ==
  ASSUME IInv, NEW i \in Inspected, Inspect(i)
  PROVE  IInv'
<1>1. UNCHANGED <<rows, agents, pc, verdict, post>> /\ told[i] = "none"
  BY DEF Inspect, Acknowledge, ingestVars, tables, proxyVars, handling
<1>2. PICK a \in Actions :
        /\ told' = [told EXCEPT ![i] = a]
        /\ \/ tasks' = tasks
           \/ tasks' = tasks \cup {[kind |-> "inspect",
                                    event |-> [id |-> i, action |-> a, agent |-> Actor]]}
  BY DEF Inspect, Acknowledge, ingestVars, Actions
<1>3. ASSUME NEW e \in Sent'
      PROVE  e \in Sent \/ (e.id = i /\ e.action = a)
  BY <1>1, <1>2 DEF Sent
<1>4. a # "none" /\ told'[i] = a /\ \A j \in Inspected \ {i} : told'[j] = told[j]
  BY <1>2 DEF Actions, IInv, Types
<1>5. Tells'
  BY <1>1, <1>3, <1>4, ProxyAssumption DEF IInv, Tells
<1>6. QED
  BY <1>1, <1>2, <1>5 DEF IInv, Types, Concludes, EventsHaveAgents

LEMMA RegisterInv ==
  ASSUME IInv, TryRegister
  PROVE  IInv'
<1>1. UNCHANGED <<handling, told, rows, tasks>> /\ agents \subseteq agents'
  BY DEF TryRegister, Register, Refused, Fault, ingestVars, tables
<1>2. Sent' = Sent
  BY <1>1 DEF Sent
<1>3. QED
  BY <1>1, <1>2 DEF IInv, Types, Concludes, Tells, EventsHaveAgents, handling

LEMMA RestartProxyInv ==
  ASSUME IInv, RestartProxy
  PROVE  IInv'
<1>1. UNCHANGED <<rows, tasks, agents, verdict, told>>
  BY DEF RestartProxy, tables
<1>2. Sent' = Sent
  BY <1>1 DEF Sent
<1>3. QED
  BY <1>1, <1>2
  DEF RestartProxy, IInv, Types, Concludes, Tells, EventsHaveAgents, Concluded, Forwarded

LEMMA Inductive == IInv /\ [Next]_vars => IInv'
<1> SUFFICES ASSUME IInv, [Next]_vars PROVE IInv'
  OBVIOUS
<1>1. ASSUME NEW r \in Proxied, Handle(r) PROVE IInv'
  BY <1>1, UndecidedInv, ConclusionInv, PostInv DEF Handle
<1>2. ASSUME NEW i \in Inspected, Inspect(i) PROVE IInv'
  BY <1>2, InspectInv
<1>3. CASE TryRegister
  BY <1>3, RegisterInv
<1>4. CASE RestartProxy
  BY <1>4, RestartProxyInv
<1>5. CASE Serve
  BY <1>5, ServeInv
<1>6. CASE RunTask
  BY <1>6, RunTaskInv
<1>7. CASE UNCHANGED vars
  BY <1>7, ServerInv DEF vars, ingestVars, Sent, IInv, EventsHaveAgents
<1>8. QED
  BY <1>1, <1>2, <1>3, <1>4, <1>5, <1>6, <1>7 DEF Next
-----------------------------------------------------------------------------
(* The type invariant. What is reported must be a decision: a handler has one from the   *)
(* agent's answer or fail-open on, and a report only runs after its conclusion.          *)

HandlerTypes ==
  /\ pc \in [Proxied -> {"new", "queued", "asked", "decided", "answered", "refused", "dropped"}
                        \cup Forwarded]
  /\ verdict \in [Proxied -> Actions \cup {"none"}]
  /\ post \in [Proxied -> {"none", "running", "over"}]

Decided == \A r \in Proxied :
  /\ pc[r] \in {"decided", "answered", "refused"} \cup Forwarded => verdict[r] \in Actions
  /\ post[r] = "running" => pc[r] \in {"refused"} \cup Forwarded

ToldTypes == told \in [Inspected -> Actions \cup {"none"}]

RegisterTypes == /\ attempt \in 0 .. Attempts /\ reg \in {"trying", "registered", "gave up"}
                 /\ reg = "trying" => attempt < Attempts
                 /\ faults \in 0 .. MaxFaults

TInv == IngestTypeOK /\ HandlerTypes /\ Decided /\ ToldTypes /\ RegisterTypes

LEMMA TInvImplies == TInv => TypeOK
  BY DEF TInv, HandlerTypes, ToldTypes, RegisterTypes, TypeOK

LEMMA TInit == Init => TInv
<1> SUFFICES ASSUME Init PROVE TInv
  OBVIOUS
<1>1. IngestTypeOK
  <2>1. 0 \in 0 .. MaxRestarts
    BY IngestAssumption
  <2>2. /\ up \in BOOLEAN /\ restarts = 0
        /\ agents = {} /\ rows = {} /\ tasks = {} /\ lost = {}
    BY DEF Init, IngestInit
  <2>3. QED
    BY <2>1, <2>2 DEF IngestTypeOK
<1>2. HandlerTypes /\ Decided /\ ToldTypes
  BY DEF Init, HandlerTypes, Decided, ToldTypes, Forwarded
<1>3. RegisterTypes
  <2>1. 0 \in 0 .. Attempts /\ 0 < Attempts /\ 0 \in 0 .. MaxFaults
    BY ProxyAssumption
  <2>2. attempt = 0 /\ reg = "trying" /\ faults = 0
    BY DEF Init
  <2>3. QED
    BY <2>1, <2>2 DEF RegisterTypes
<1>4. QED
  BY <1>1, <1>2, <1>3 DEF TInv

\* The server's own steps.
LEMMA IngestTypes ==
  ASSUME IngestTypeOK
  PROVE  /\ \A e \in [id : Ids, action : Actions, agent : Agents],
              kind \in {"telemetry", "inspect"} : Acknowledge(kind, e) => IngestTypeOK'
         /\ Started \/ Restart => IngestTypeOK'
         /\ \A a \in Agents : Register(a) \/ Deregister(a) => IngestTypeOK'
         /\ \A t \in tasks : Persist(t) => IngestTypeOK'
<1> DEFINE events == [id : Ids, action : Actions, agent : Agents]
<1>1. /\ up \in BOOLEAN /\ agents \subseteq Agents /\ restarts \in 0 .. MaxRestarts
      /\ rows \subseteq events /\ lost \subseteq Ids
      /\ tasks \subseteq [kind : {"telemetry", "inspect"}, event : events]
  BY DEF IngestTypeOK
<1>2. ASSUME NEW t \in tasks
      PROVE  t.event \in events /\ t.event.id \in Ids /\ t.event.agent \in Agents
  BY <1>1
<1>3. ASSUME NEW e \in events, NEW kind \in {"telemetry", "inspect"}, Acknowledge(kind, e)
      PROVE  IngestTypeOK'
  <2>1. [kind |-> kind, event |-> e] \in [kind : {"telemetry", "inspect"}, event : events]
    OBVIOUS
  <2>2. QED
    BY <1>1, <1>3, <2>1 DEF Acknowledge, tables, IngestTypeOK
<1>4. CASE Started
  BY <1>1, <1>4 DEF Started, tables, IngestTypeOK
<1>5. CASE Restart
  <2>1. lost' \subseteq Ids
    BY <1>1, <1>2, <1>5 DEF Restart
  <2>2. restarts' \in 0 .. MaxRestarts
    BY <1>1, <1>5, IngestAssumption DEF Restart, CountRestart
  <2>3. QED
    BY <1>1, <1>5, <2>1, <2>2 DEF Restart, tables, IngestTypeOK
<1>6. ASSUME NEW a \in Agents, Register(a) \/ Deregister(a) PROVE IngestTypeOK'
  BY <1>1, <1>6 DEF Register, Deregister, IngestTypeOK
<1>7. ASSUME NEW t \in tasks, Persist(t) PROVE IngestTypeOK'
  <2>1. /\ lost' \subseteq Ids /\ rows' \subseteq events /\ agents' \subseteq Agents
        /\ tasks' \subseteq tasks
    BY <1>1, <1>2, <1>7 DEF Persist, Commit, Rollback, Found, tables
  <2>2. QED
    BY <1>1, <1>7, <2>1 DEF Persist, IngestTypeOK
<1>8. QED
  BY <1>3, <1>4, <1>5, <1>6, <1>7

LEMMA HandleTypes ==
  ASSUME TInv, NEW r \in Proxied, Handle(r)
  PROVE  TInv'
<1>1. IngestTypeOK /\ HandlerTypes /\ Decided /\ ToldTypes /\ RegisterTypes
  BY DEF TInv
<1>2. ASSUME OnlyHandler PROVE IngestTypeOK' /\ ToldTypes' /\ RegisterTypes'
  BY <1>1, <1>2 DEF OnlyHandler, ingestVars, IngestTypeOK, ToldTypes, RegisterTypes, registering
<1>3. CASE Arrive(r) \/ Consult(r)
  <2>1. HandlerTypes' /\ Decided'
    BY <1>1, <1>3 DEF HandlerTypes, Decided, Arrive, Consult, Goto, Forwarded
  <2>2. QED
    BY <1>2, <1>3, <2>1 DEF TInv, Arrive, Consult
<1>4. CASE Decide(r) \/ Answered(r) \/ FailOpen(r)
  <2>1. PICK v \in Actions, label \in {"decided", "answered"} :
          /\ verdict' = [verdict EXCEPT ![r] = v] /\ pc' = [pc EXCEPT ![r] = label]
    BY <1>1, <1>4 DEF Decided, Decide, Answered, FailOpen, Goto, Actions
  <2>2. post' = post /\ pc[r] \in {"asked", "decided"}
    BY <1>4 DEF Decide, Answered, FailOpen, InThread
  <2>3. HandlerTypes' /\ Decided'
    BY <1>1, <2>1, <2>2 DEF HandlerTypes, Decided, Forwarded
  <2>4. QED
    BY <1>2, <1>4, <2>3 DEF TInv, Decide, Answered, FailOpen
<1>5. CASE Conclude(r)
  <2>1. HandlerTypes' /\ Decided'
    BY <1>1, <1>5 DEF HandlerTypes, Decided, Conclude, Goto, Forwarded
  <2>2. QED
    BY <1>2, <1>5, <2>1 DEF TInv, Conclude
<1>6. CASE Backend(r)
  <2>1. HandlerTypes' /\ Decided'
    BY <1>1, <1>6 DEF HandlerTypes, Decided, Backend, Goto, Forwarded
  <2>2. QED
    BY <1>2, <1>6, <2>1 DEF TInv, Backend
<1>7. CASE Post(r)
  <2>1. /\ UNCHANGED <<pc, verdict, registering, told>>
        /\ post[r] = "running" /\ post' = [post EXCEPT ![r] = "over"]
        /\ Acknowledge("telemetry", EventOf(r)) \/ UNCHANGED ingestVars
    BY <1>7 DEF Post
  <2>2. HandlerTypes' /\ Decided'
    BY <1>1, <2>1 DEF HandlerTypes, Decided
  <2>3. EventOf(r) \in [id : Ids, action : Actions, agent : Agents]
    <3>1. verdict[r] \in Actions /\ r \in Ids /\ Actor \in Agents
      BY <1>1, <2>1, ProxyAssumption DEF Decided
    <3>2. QED
      BY <3>1 DEF EventOf
  <2>4. IngestTypeOK'
    BY <1>1, <2>1, <2>3, IngestTypes DEF ingestVars, IngestTypeOK
  <2>5. ToldTypes' /\ RegisterTypes'
    BY <1>1, <2>1 DEF ToldTypes, RegisterTypes, registering
  <2>6. QED
    BY <2>2, <2>4, <2>5 DEF TInv
<1>8. QED
  BY <1>3, <1>4, <1>5, <1>6, <1>7 DEF Handle

LEMMA TNext == TInv /\ [Next]_vars => TInv'
<1> SUFFICES ASSUME TInv, [Next]_vars PROVE TInv'
  OBVIOUS
<1>1. IngestTypeOK /\ HandlerTypes /\ Decided /\ ToldTypes /\ RegisterTypes
  BY DEF TInv
<1>2. ASSUME UNCHANGED handling PROVE HandlerTypes' /\ Decided'
  BY <1>1, <1>2 DEF handling, HandlerTypes, Decided
<1>3. ASSUME UNCHANGED registering PROVE RegisterTypes'
  BY <1>1, <1>3 DEF registering, RegisterTypes
<1>4. ASSUME NEW r \in Proxied, Handle(r) PROVE TInv'
  BY <1>4, HandleTypes
<1>5. ASSUME NEW i \in Inspected, Inspect(i) PROVE TInv'
  <2>1. UNCHANGED <<handling, registering>>
    BY <1>5 DEF Inspect, proxyVars
  <2>2. ToldTypes'
    BY <1>1, <1>5 DEF Inspect, ToldTypes, Actions
  <2>3. ASSUME NEW a \in Actions
        PROVE  [id |-> i, action |-> a, agent |-> Actor]
                  \in [id : Ids, action : Actions, agent : Agents]
    BY ProxyAssumption
  <2>4. IngestTypeOK'
    BY <1>1, <1>5, <2>3, IngestTypes DEF Inspect, ingestVars, IngestTypeOK
  <2>5. QED
    BY <1>2, <1>3, <2>1, <2>2, <2>4 DEF TInv
<1>6. CASE TryRegister
  <2>1. UNCHANGED <<handling, told>>
    BY <1>6 DEF TryRegister
  <2>2. IngestTypeOK'
    <3>1. Register(Proxy) \/ UNCHANGED ingestVars
      BY <1>6 DEF TryRegister, Refused, Fault
    <3>2. QED
      BY <1>1, <3>1, IngestTypes, ProxyAssumption DEF ingestVars, IngestTypeOK
  <2>3. RegisterTypes'
    <3>1. /\ attempt \in 0 .. Attempts /\ attempt < Attempts /\ Attempts \in Nat
          /\ faults \in 0 .. MaxFaults /\ MaxFaults \in Nat
          /\ Accepted \/ Failed
      BY <1>1, <1>6, ProxyAssumption DEF TryRegister, RegisterTypes
    <3>2. CASE Accepted
      BY <3>1, <3>2 DEF Accepted, RegisterTypes
    <3>3. CASE Failed /\ ~Accepted
      <4>3. faults' \in 0 .. MaxFaults
        BY <1>6, <3>1, <3>3 DEF TryRegister, Refused, Fault
      <4> DEFINE n == attempt + 1
      <4>1. n \in 0 .. Attempts /\ (n # Attempts => n < Attempts)
        BY <3>1
      <4>2. /\ attempt' = n /\ reg' \in {"trying", "gave up"}
            /\ attempt' = Attempts => reg' = "gave up"
        BY <1>6, <3>3 DEF Failed, TryRegister
      <4>4. QED
        BY <4>1, <4>2, <4>3 DEF RegisterTypes
    <3>4. QED
      BY <3>1, <3>2, <3>3
  <2>4. QED
    BY <1>1, <1>2, <2>1, <2>2, <2>3 DEF TInv, ToldTypes
<1>7. CASE RestartProxy
  <2>1. HandlerTypes' /\ Decided'
    BY <1>1, <1>7 DEF RestartProxy, HandlerTypes, Decided, Forwarded
  <2>2. IngestTypeOK'
    BY <1>1, <1>7, IngestAssumption DEF RestartProxy, CountRestart, tables, IngestTypeOK
  <2>3. attempt' = 0 /\ reg' = "trying" /\ told' = told /\ faults' = faults
    BY <1>7 DEF RestartProxy
  <2>4. 0 \in 0 .. Attempts /\ 0 < Attempts
    BY ProxyAssumption
  <2>5. RegisterTypes' /\ ToldTypes'
    BY <1>1, <2>3, <2>4 DEF RegisterTypes, ToldTypes
  <2>6. QED
    BY <2>1, <2>2, <2>5 DEF TInv
<1>8. CASE Serve \/ RunTask
  <2>1. UNCHANGED <<handling, registering, told>>
    BY <1>8 DEF Serve, RunTask, proxyVars
  <2>2. IngestTypeOK'
    BY <1>1, <1>8, IngestTypes DEF Serve, RunTask
  <2>3. QED
    BY <1>1, <1>2, <1>3, <2>1, <2>2 DEF TInv, ToldTypes
<1>9. CASE UNCHANGED vars
  <2>1. UNCHANGED <<handling, registering, told, ingestVars>>
    BY <1>9 DEF vars, proxyVars
  <2>2. QED
    BY <1>1, <1>2, <1>3, <2>1 DEF TInv, ToldTypes, ingestVars, IngestTypeOK
<1>10. QED
  BY <1>4, <1>5, <1>6, <1>7, <1>8, <1>9 DEF Next
-----------------------------------------------------------------------------
(* Where an event is. Only its handler acknowledges it, and that only once: the post is  *)
(* over with it, or the inspection is answered. So no two tasks are about one event, and *)
(* an event with a task is nowhere else.                                                 *)

Waiting == {t.event.id : t \in tasks}
Written == {e.id : e \in rows}

\* The events that may still be acknowledged.
Open == {r \in Proxied : post[r] # "over"} \cup {i \in Inspected : told[i] = "none"}

Once == /\ \A t, u \in tasks : t.event.id = u.event.id => t = u
        /\ Waiting \cap Written = {} /\ Waiting \cap lost = {} /\ Written \cap lost = {}
        /\ Open \cap (Waiting \cup Written \cup lost) = {}
        /\ DOMAIN post = Proxied /\ DOMAIN told = Inspected

\* What a step does to the events.
Quiet == UNCHANGED <<tasks, rows, lost>>
Acked(i) == /\ i \in Open /\ i \notin Open'
            /\ UNCHANGED <<rows, lost>>
            /\ \E t : t.event.id = i /\ tasks' = tasks \cup {t}
Ran(t) == /\ t \in tasks /\ tasks' = tasks \ {t}
          /\ \/ rows' = rows \cup {t.event} /\ UNCHANGED lost
             \/ UNCHANGED rows /\ lost' = lost \cup {t.event.id}
Dropped == tasks' = {} /\ UNCHANGED rows /\ lost' = lost \cup Waiting

Moves == /\ Open' \subseteq Open
         /\ DOMAIN post' = DOMAIN post /\ DOMAIN told' = DOMAIN told
         /\ Quiet \/ Dropped \/ (\E i \in Ids : Acked(i)) \/ \E t \in tasks : Ran(t)

LEMMA PlacesIs ==
  ASSUME NEW i
  PROVE  /\ Places(i) = (IF i \in Waiting THEN {"task"} ELSE {})
                        \cup (IF i \in Written THEN {"row"} ELSE {})
                        \cup (IF i \in lost THEN {"lost"} ELSE {})
         /\ Places(i)' = (IF i \in Waiting' THEN {"task"} ELSE {})
                        \cup (IF i \in Written' THEN {"row"} ELSE {})
                        \cup (IF i \in lost' THEN {"lost"} ELSE {})
  BY DEF Places, Waiting, Written

\* Every step moves events in one of these ways.
LEMMA StepMoves ==
  ASSUME IInv, Once, [Next]_vars
  PROVE  Moves
<1>1. ASSUME UNCHANGED <<post, told>> PROVE Open' = Open
  BY <1>1 DEF Open
<1>2. ASSUME UNCHANGED <<post, told>>, Quiet PROVE Moves
  BY <1>1, <1>2 DEF Moves
<1>3. ASSUME NEW r \in Proxied, Handle(r) PROVE Moves
  <2>1. CASE Arrive(r) \/ Consult(r) \/ Decide(r) \/ Answered(r) \/ FailOpen(r) \/ Backend(r)
    BY <1>2, <2>1 DEF Arrive, Consult, Decide, Answered, FailOpen, Backend, OnlyHandler,
       ingestVars, tables, Quiet
  <2>2. CASE Conclude(r)
    <3>1. post' = [post EXCEPT ![r] = "running"] /\ told' = told /\ Quiet
      BY <2>2 DEF Conclude, OnlyHandler, ingestVars, tables, Quiet
    <3>2. pc[r] = "answered"
      BY <2>2 DEF Conclude
    <3>3. post[r] # "over"
      BY <3>2 DEF IInv, Concludes, Concluded, Forwarded
    <3>4. Open' \subseteq Open /\ DOMAIN post' = DOMAIN post
      BY <3>1, <3>3 DEF Once, Open
    <3>5. QED
      BY <3>1, <3>4 DEF Moves
  <2>3. CASE Post(r)
    <3>1. /\ post[r] = "running" /\ post' = [post EXCEPT ![r] = "over"] /\ told' = told
          /\ DOMAIN post' = DOMAIN post
      BY <2>3 DEF Post
    <3>2. Open' \subseteq Open /\ r \in Open /\ r \notin Open'
      BY <3>1, ProxyAssumption DEF Once, Open
    <3>3. CASE UNCHANGED ingestVars
      BY <3>1, <3>2, <3>3 DEF Moves, Quiet, ingestVars, tables
    <3>4. CASE Acknowledge("telemetry", EventOf(r))
      <4> DEFINE t == [kind |-> "telemetry", event |-> EventOf(r)]
      <4>1. t.event.id = r /\ tasks' = tasks \cup {t} /\ UNCHANGED <<rows, lost>>
        BY <3>4 DEF Acknowledge, EventOf, tables
      <4>2. Acked(r) /\ r \in Ids
        BY <3>2, <4>1, ProxyAssumption DEF Acked
      <4>3. QED
        BY <3>1, <3>2, <4>2 DEF Moves
    <3>5. QED
      BY <2>3, <3>3, <3>4 DEF Post
  <2>4. QED
    BY <1>3, <2>1, <2>2, <2>3 DEF Handle
<1>4. ASSUME NEW i \in Inspected, Inspect(i) PROVE Moves
  <2>1. PICK a \in Actions :
          /\ told' = [told EXCEPT ![i] = a]
          /\ \/ UNCHANGED ingestVars
             \/ Acknowledge("inspect", [id |-> i, action |-> a, agent |-> Actor])
    BY <1>4 DEF Inspect, Actions
  <2>2. told[i] = "none" /\ post' = post /\ a # "none"
    BY <1>4 DEF Inspect, proxyVars, handling, Actions
  <2>3. DOMAIN told' = DOMAIN told /\ Open' \subseteq Open /\ i \in Open /\ i \notin Open'
    BY <2>1, <2>2, ProxyAssumption DEF Once, Open
  <2>4. CASE UNCHANGED ingestVars
    BY <2>2, <2>3, <2>4 DEF Moves, Quiet, ingestVars, tables
  <2>5. CASE Acknowledge("inspect", [id |-> i, action |-> a, agent |-> Actor])
    <3> DEFINE t == [kind |-> "inspect", event |-> [id |-> i, action |-> a, agent |-> Actor]]
    <3>1. t.event.id = i /\ tasks' = tasks \cup {t} /\ UNCHANGED <<rows, lost>>
      BY <2>5 DEF Acknowledge, tables
    <3>2. Acked(i) /\ i \in Ids
      BY <2>3, <3>1, ProxyAssumption DEF Acked
    <3>3. QED
      BY <2>2, <2>3, <3>2 DEF Moves
  <2>6. QED
    BY <2>1, <2>4, <2>5
<1>5. CASE TryRegister
  BY <1>2, <1>5 DEF TryRegister, Register, Refused, Fault, ingestVars, tables, handling, Quiet
<1>6. CASE RestartProxy
  <2>1. /\ Quiet /\ told' = told
        /\ post' = [r \in Proxied |-> IF post[r] = "running" THEN "over" ELSE post[r]]
    BY <1>6 DEF RestartProxy, tables, Quiet
  <2>2. Open' \subseteq Open /\ DOMAIN post' = DOMAIN post
    BY <2>1 DEF Once, Open
  <2>3. QED
    BY <2>1, <2>2 DEF Moves
<1>7. CASE Serve
  <2>1. UNCHANGED <<post, told>>
    BY <1>7 DEF Serve, proxyVars, handling
  <2>2. Quiet \/ Dropped
    BY <1>7 DEF Serve, Started, Restart, Deregister, tables, Quiet, Dropped, Waiting
  <2>3. QED
    BY <1>1, <2>1, <2>2 DEF Moves
<1>8. CASE RunTask
  <2>1. UNCHANGED <<post, told>>
    BY <1>8 DEF RunTask, proxyVars, handling
  <2>2. PICK t \in tasks : Persist(t)
    BY <1>8 DEF RunTask
  <2>3. Ran(t)
    BY <2>2 DEF Persist, Commit, Rollback, tables, Ran
  <2>4. QED
    BY <1>1, <2>1, <2>3 DEF Moves
<1>9. CASE UNCHANGED vars
  BY <1>2, <1>9 DEF vars, ingestVars, tables, proxyVars, handling, Quiet
<1>10. QED
  BY <1>3, <1>4, <1>5, <1>6, <1>7, <1>8, <1>9 DEF Next

\* And each of them takes an event from one place to the next.
LEMMA MovesPlaces ==
  ASSUME Once, Moves
  PROVE  /\ Once'
         /\ \A i \in Ids : \/ Places(i)' = Places(i)
                           \/ Places(i) = {} /\ Places(i)' = {"task"}
                           \/ Places(i) = {"task"} /\ Places(i)' \in {{"row"}, {"lost"}}
<1> DEFINE B(i) == \/ Places(i)' = Places(i)
                   \/ Places(i) = {} /\ Places(i)' = {"task"}
                   \/ Places(i) = {"task"} /\ Places(i)' \in {{"row"}, {"lost"}}
<1>1. /\ Waiting \cap Written = {} /\ Waiting \cap lost = {} /\ Written \cap lost = {}
      /\ Open \cap (Waiting \cup Written \cup lost) = {} /\ Open' \subseteq Open
      /\ DOMAIN post' = Proxied /\ DOMAIN told' = Inspected
  BY DEF Once, Moves
<1>2. CASE Quiet
  <2>1. Waiting' = Waiting /\ Written' = Written /\ lost' = lost /\ tasks' = tasks
    BY <1>2 DEF Quiet, Waiting, Written
  <2>2. Once'
    BY <1>1, <2>1 DEF Once
  <2>3. \A i \in Ids : B(i)
    BY <2>1, PlacesIs
  <2>4. QED
    BY <2>2, <2>3
<1>3. CASE Dropped
  <2>1. Waiting' = {} /\ Written' = Written /\ lost' = lost \cup Waiting /\ tasks' = {}
    BY <1>3 DEF Dropped, Waiting, Written
  <2>2. Once'
    BY <1>1, <2>1 DEF Once
  <2>3. \A i \in Ids : B(i)
    BY <1>1, <2>1, PlacesIs
  <2>4. QED
    BY <2>2, <2>3
<1>4. ASSUME NEW j \in Ids, Acked(j)
      PROVE  Once' /\ \A i \in Ids : B(i)
  <2>1. PICK t : t.event.id = j /\ tasks' = tasks \cup {t}
    BY <1>4 DEF Acked
  <2>2. Waiting' = Waiting \cup {j} /\ Written' = Written /\ lost' = lost
    BY <1>4, <2>1 DEF Acked, Waiting, Written
  <2>3. j \in Open /\ j \notin Open' /\ j \notin Waiting /\ j \notin Written /\ j \notin lost
    BY <1>1, <1>4 DEF Acked
  <2>4. \A u, v \in tasks' : u.event.id = v.event.id => u = v
    BY <2>1, <2>3 DEF Once, Waiting
  <2>5. Once'
    BY <1>1, <2>2, <2>3, <2>4 DEF Once
  <2>6. \A i \in Ids : B(i)
    BY <1>1, <2>2, <2>3, PlacesIs
  <2>7. QED
    BY <2>5, <2>6
<1>5. ASSUME NEW t \in tasks, Ran(t)
      PROVE  Once' /\ \A i \in Ids : B(i)
  <2> DEFINE j == t.event.id
  <2>1. Waiting' = Waiting \ {j} /\ j \in Waiting
    BY <1>5 DEF Ran, Waiting, Once
  <2>2. \/ Written' = Written \cup {j} /\ lost' = lost
        \/ Written' = Written /\ lost' = lost \cup {j}
    BY <1>5 DEF Ran, Written
  <2>3. \A u, v \in tasks' : u.event.id = v.event.id => u = v
    BY <1>5 DEF Ran, Once
  <2> HIDE DEF j
  <2>4. Once'
    BY <1>1, <2>1, <2>2, <2>3 DEF Once
  <2>5. \A i \in Ids : B(i)
    BY <1>1, <2>1, <2>2, PlacesIs
  <2>6. QED
    BY <2>4, <2>5
<1>6. QED
  BY <1>2, <1>3, <1>4, <1>5 DEF Moves

LEMMA InitOnce == Init => Once
  BY DEF Init, IngestInit, Once, Waiting, Written, Open

-----------------------------------------------------------------------------
\* What is stored about a request is what was done with it (waf-proxy/main.py:186-300,
\* telemetry.py:58, inspect.py:595).
THEOREM OutcomeToldCorrectly == Spec => []RowsTellOutcome
<1>1. Spec => []IInv
  BY InitInv, Inductive, PTL DEF Spec
<1>2. QED
  BY <1>1, InvImplies, PTL

\* A stored event always has its agent (models.py:69, inspect.py:555-592, agents.py:145-168).
THEOREM AgentsStay == Spec => []EventsHaveAgents
<1>1. Spec => []IInv
  BY InitInv, Inductive, PTL DEF Spec
<1>2. IInv => EventsHaveAgents
  BY DEF IInv
<1>3. QED
  BY <1>1, <1>2, PTL

\* The types of the proxy and of the server's tables: every event that is posted or stored
\* carries a decision, and the proxy gives up registering after its ten attempts.
THEOREM TypeCorrect == Spec => []TypeOK
BY TInit, TNext, TInvImplies, PTL DEF Spec

\* An event is acknowledged once, and then written or lost for good: no restart, no other
\* task, no answer that is lost and no operator changes that (telemetry.py:47-92).
THEOREM EventsSettleOnce == Spec => SettledOnce
<1> DEFINE A == \A i \in Ids : \/ Places(i)' = Places(i)
                               \/ Places(i) = {} /\ Places(i)' = {"task"}
                               \/ Places(i) = {"task"} /\ Places(i)' \in {{"row"}, {"lost"}}
<1>1. IInv /\ Once /\ [Next]_vars => Once' /\ A
  BY StepMoves, MovesPlaces
<1>2. QED
  BY <1>1, InitInv, Inductive, InitOnce, PTL DEF Spec, SettledOnce
=============================================================================
