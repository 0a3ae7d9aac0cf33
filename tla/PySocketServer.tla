---------------------------- MODULE PySocketServer ----------------------------
(***************************************************************************)
(* The Python agent's socket server, agent/socket_server.py. What a worker *)
(* does in the pipeline is one step here: check decides or raises (module  *)
(* PyPipeline).                                                            *)
(*                                                                         *)
(* One thread runs start: it binds the socket and, while _running is set,  *)
(* accepts connections and submits them to a thread pool. Another calls    *)
(* stop, which clears _running, closes the socket, shuts the pool down and *)
(* waits for it. start ends by calling a method the class does not have,   *)
(* and submitting to a pool that was shut down raises: both escape start.  *)
(* Every connection is answered once, mostly fail-open, or closed.         *)
(*                                                                         *)
(* The kernel's backlog holds what connected and was not accepted. A send  *)
(* fails when the web server module has given up waiting and closed.       *)
(***************************************************************************)
EXTENDS Integers, Sequences, FiniteSets

CONSTANTS
  Conns,      \* connections of the web server modules
  MaxWorkers  \* threads of the pool (256)

ASSUME PyServerAssumption == /\ MaxWorkers \in Nat \ {0}
                             /\ IsFiniteSet(Conns) /\ "none" \notin Conns

VARIABLES
  at,        \* where each connection is
  verdict,   \* verdict[c]: what check returned
  start,     \* where the thread that called start is
  stop,      \* where the thread that called stop is
  running,   \* _running
  listener,  \* _server_sock: "none", "open" or "closed"
  path,      \* the socket's path is there
  held,      \* the connection start has accepted and not submitted
  pool,      \* the connections submitted to the pool, in order
  poolShut,  \* the pool takes no more
  stats,     \* _stats
  outcome,   \* outcome[c]: the counter a worker is about to add 1 to
  answer,    \* answer[c]: the action c was answered
  unread     \* history: connections that sent nothing in time

serverVars == <<start, stop, running, listener, path, held, pool, poolShut>>
replyVars == <<stats, outcome, answer, unread>>
socketVars == <<at, verdict, serverVars, replyVars>>

Counters == {"total", "blocked", "permitted", "errors", "fail_open"}

ServerInit == /\ at = [c \in Conns |-> "new"]
              /\ start = "new" /\ stop = "new"
              /\ running = FALSE /\ poolShut = FALSE /\ path = FALSE
              /\ listener = "none" /\ held = "none" /\ pool = <<>>
              /\ stats = [k \in Counters |-> 0]
              /\ outcome = [c \in Conns |-> "none"]
              /\ verdict = [c \in Conns |-> "none"]
              /\ answer = [c \in Conns |-> "none"]
              /\ unread = 0
-----------------------------------------------------------------------------
(* start *)

\* The stale path goes, and the socket is bound and listens.
Listen == /\ start = "new"
          /\ listener' = "open" /\ path' = TRUE
          /\ start' = "listening"
          /\ UNCHANGED <<at, verdict, replyVars, stop, running, held, pool, poolShut>>

\* _running.set(), even when stop has already cleared it.
SetRunning == /\ start = "listening"
              /\ running' = TRUE
              /\ start' = "accept"
              /\ UNCHANGED <<at, verdict, replyVars, stop, listener, path, held, pool,
                             poolShut>>

Accept(c) == /\ start = "accept" /\ running /\ listener = "open"
             /\ at[c] = "backlog"
             /\ at' = [at EXCEPT ![c] = "accepted"]
             /\ held' = c
             /\ start' = "submit"
             /\ UNCHANGED <<verdict, replyVars, stop, running, listener, path, pool,
                            poolShut>>

MutSubmit(c) == /\ start = "submit" /\ held = c
                /\ held' = "none"
                /\ pool' = Append(pool, c)
                /\ at' = [at EXCEPT ![c] = "queued"]
                /\ start' = "accept"
                /\ UNCHANGED <<verdict, replyVars, stop, running, listener, path, poolShut>>
\* submit raises once the pool is shut down: the connection is dropped and start ends.
Submit(c) == /\ start = "submit" /\ held = c
             /\ held' = "none"
             /\ IF poolShut
                THEN /\ at' = [at EXCEPT ![c] = "closed"]
                     /\ start' = "raised" /\ UNCHANGED pool
                ELSE /\ pool' = Append(pool, c)
                     /\ at' = [at EXCEPT ![c] = "queued"]
                     /\ start' = "accept"
             /\ UNCHANGED <<verdict, replyVars, stop, running, listener, path, poolShut>>

\* accept times out every second; then, or when the closed socket raises, the loop
\* ends, and the call of the missing _cleanup ends start with an AttributeError.
EndLoop == /\ start = "accept" /\ (~running \/ listener = "closed")
           /\ start' = "raised"
           /\ UNCHANGED <<at, verdict, replyVars, stop, running, listener, path, held,
                          pool, poolShut>>

Starter == \/ Listen \/ SetRunning \/ EndLoop
           \/ \E c \in Conns : Accept(c) \/ Submit(c)
-----------------------------------------------------------------------------
(* stop, called once *)

ClearRunning == /\ stop = "new"
                /\ running' = FALSE
                /\ stop' = "close"
                /\ UNCHANGED <<at, verdict, replyVars, start, listener, path, held,
                               pool, poolShut>>

\* Closing the socket resets what was not accepted.
CloseSocket ==
  /\ stop = "close"
  /\ IF listener = "open"
     THEN /\ listener' = "closed"
          /\ at' = [c \in Conns |-> IF at[c] = "backlog" THEN "closed" ELSE at[c]]
     ELSE UNCHANGED <<listener, at>>
  /\ stop' = "shutdown"
  /\ UNCHANGED <<verdict, replyVars, start, running, path, held, pool, poolShut>>

ShutPool == /\ stop = "shutdown"
            /\ poolShut' = TRUE
            /\ stop' = "wait"
            /\ UNCHANGED <<at, verdict, replyVars, start, running, listener, path,
                           held, pool>>

Handling == {"read", "check", "decided", "raised", "reply", "count", "release"}
In(S) == {c \in Conns : at[c] \in S}

PoolEmpty == pool = <<>> /\ In(Handling) = {}

\* shutdown(wait=True, cancel_futures=False): what was submitted is still handled.
PoolDone == PoolEmpty

StopReturns == /\ stop = "wait" /\ PoolDone
               /\ path' = FALSE
               /\ stop' = "returned"
               /\ UNCHANGED <<at, verdict, replyVars, start, running, listener, held,
                              pool, poolShut>>

StopThread == CloseSocket \/ ShutPool \/ StopReturns
-----------------------------------------------------------------------------
(* The web server module, and _handle_connection in a worker of the pool *)

Connect(c) == /\ at[c] = "new" /\ path /\ listener = "open"
              /\ at' = [at EXCEPT ![c] = "backlog"]
              /\ UNCHANGED <<verdict, serverVars, replyVars>>

CountAs(k) == stats' = [stats EXCEPT ![k] = @ + 1]

\* A worker takes the next connection and counts it.
Pick(c) == /\ pool # <<>> /\ Head(pool) = c
           /\ Cardinality(In(Handling)) < MaxWorkers
           /\ pool' = Tail(pool)
           /\ at' = [at EXCEPT ![c] = "read"]
           /\ CountAs("total")
           /\ UNCHANGED <<verdict, start, stop, running, listener, path, held,
                          poolShut, outcome, answer, unread>>

\* A send reaches the client or, the client gone, nobody.
SendAnswer(c, a) == answer' = [answer EXCEPT ![c] = a] \/ UNCHANGED answer

\* A worker goes on to add 1 to counter k.
Then(c, k) == /\ outcome' = [outcome EXCEPT ![c] = k]
              /\ at' = [at EXCEPT ![c] = "count"]

\* Nothing was read: fail-open, and no counter of its own.
ReadNothing(c) == /\ at[c] = "read"
                  /\ SendAnswer(c, "PERMIT")
                  /\ at' = [at EXCEPT ![c] = "release"]
                  /\ unread' = unread + 1
                  /\ UNCHANGED <<verdict, serverVars, stats, outcome>>

\* What was read is no JSON (a part of a line, after the timeout): fail-open, an error.
ReadMalformed(c) == /\ at[c] = "read"
                    /\ SendAnswer(c, "PERMIT")
                    /\ Then(c, "errors")
                    /\ UNCHANGED <<verdict, serverVars, stats, unread>>

ReadRequest(c) == /\ at[c] = "read"
                  /\ at' = [at EXCEPT ![c] = "check"]
                  /\ UNCHANGED <<verdict, serverVars, replyVars>>

\* pipeline.check returns a verdict or raises.
Check(c) == /\ at[c] = "check"
            /\ \/ /\ \E v \in {"PERMIT", "BLOCK"} : verdict' = [verdict EXCEPT ![c] = v]
                  /\ at' = [at EXCEPT ![c] = "decided"]
               \/ at' = [at EXCEPT ![c] = "raised"] /\ UNCHANGED verdict
            /\ UNCHANGED <<serverVars, replyVars>>

MutCheckRaised(c) == at[c] = "raised" /\ UNCHANGED socketVars
\* check raised: fail-open, an error.
CheckRaised(c) == /\ at[c] = "raised"
                  /\ SendAnswer(c, "PERMIT")
                  /\ Then(c, "errors")
                  /\ UNCHANGED <<verdict, serverVars, stats, unread>>

\* check took longer than the timeout: counted, then fail-open whatever it decided.
Late(c) == /\ at[c] = "decided"
           /\ CountAs("fail_open")
           /\ at' = [at EXCEPT ![c] = "reply"]
           /\ UNCHANGED <<verdict, serverVars, outcome, answer, unread>>

MutFailOpen(c) == /\ at[c] = "reply"
                  /\ SendAnswer(c, "BLOCK")
                  /\ at' = [at EXCEPT ![c] = "release"]
                  /\ UNCHANGED <<verdict, serverVars, stats, outcome, unread>>
FailOpen(c) == /\ at[c] = "reply"
               /\ SendAnswer(c, "PERMIT")
               /\ at' = [at EXCEPT ![c] = "release"]
               /\ UNCHANGED <<verdict, serverVars, stats, outcome, unread>>

MutInTime(c) ==
  /\ at[c] = "decided"
  /\ SendAnswer(c, verdict[c])
  /\ CountAs(IF verdict[c] = "BLOCK" THEN "blocked" ELSE "permitted")
  /\ IF answer'[c] = "none" THEN Then(c, "errors")
     ELSE at' = [at EXCEPT ![c] = "release"] /\ UNCHANGED outcome
  /\ UNCHANGED <<verdict, serverVars, unread>>
\* In time: the verdict is sent and counted. When sendall raises, the handler tries to
\* fail open on the same socket, in vain, and counts an error instead.
InTime(c) ==
  /\ at[c] = "decided"
  /\ \/ /\ answer' = [answer EXCEPT ![c] = verdict[c]]
        /\ Then(c, IF verdict[c] = "BLOCK" THEN "blocked" ELSE "permitted")
     \/ Then(c, "errors") /\ UNCHANGED answer
  /\ UNCHANGED <<verdict, serverVars, stats, unread>>

AddOne(c) == /\ at[c] = "count"
             /\ CountAs(outcome[c])
             /\ outcome' = [outcome EXCEPT ![c] = "none"]
             /\ at' = [at EXCEPT ![c] = "release"]
             /\ UNCHANGED <<verdict, serverVars, answer, unread>>

\* finally: conn.close()
CloseConn(c) == /\ at[c] = "release"
                /\ at' = [at EXCEPT ![c] = "closed"]
                /\ UNCHANGED <<verdict, serverVars, replyVars>>

Handle(c) == \/ ReadNothing(c) \/ ReadMalformed(c) \/ ReadRequest(c) \/ Check(c)
             \/ CheckRaised(c) \/ Late(c) \/ FailOpen(c) \/ InTime(c) \/ AddOne(c)
             \/ CloseConn(c)

Worker == \E c \in Conns : Pick(c) \/ Handle(c)
-----------------------------------------------------------------------------
ServerNext == \/ Starter \/ ClearRunning \/ StopThread \/ Worker
              \/ \E c \in Conns : Connect(c)

ServerSpec == ServerInit /\ [][ServerNext]_socketVars

\* The interpreter runs every thread that is ready; reads, checks and sends end.
FairServerSpec == /\ ServerSpec
                 /\ WF_socketVars(Starter) /\ WF_socketVars(StopThread)
                 /\ WF_socketVars(Worker)
-----------------------------------------------------------------------------
(* Properties *)

Labels == {"new", "backlog", "accepted", "queued", "closed"} \cup Handling

ServerTypeOK == /\ at \in [Conns -> Labels]
                /\ start \in {"new", "listening", "accept", "submit", "raised"}
                /\ stop \in {"new", "close", "shutdown", "wait", "returned"}
                /\ {running, poolShut, path} \subseteq BOOLEAN
                /\ listener \in {"none", "open", "closed"}
                /\ held \in Conns \cup {"none"} /\ (start = "submit" <=> held # "none")
                /\ pool \in Seq(Conns)
                /\ stats \in [Counters -> Nat]
                /\ outcome \in [Conns -> Counters \cup {"none"}]
                /\ verdict \in [Conns -> {"none", "PERMIT", "BLOCK"}]
                /\ answer \in [Conns -> {"none", "PERMIT", "BLOCK"}]
                /\ unread \in Nat

\* _stats: each connection counted in total is counted once more by how it ended, or is
\* still on its way there, except those that sent nothing: no exception counts twice.
CountersAddUp ==
  stats["total"] = stats["blocked"] + stats["permitted"] + stats["errors"]
                     + stats["fail_open"] + unread
                     + Cardinality(In(Handling \ {"reply", "release"}))

\* stop waits for the pool: once it has returned no connection is or ever will be
\* handled, though the accept loop may still be holding one, and what was submitted
\* before has been handled to its end.
StopIsFinal == stop = "returned" => PoolEmpty

\* Whatever the pool was given is handled to its end, stop or no stop, and stop returns:
\* it cannot wait for a connection that nobody picks up.
PoolDrains == []<>(PoolEmpty /\ stop \in {"new", "returned"})

\* The server implements the promise made to the web server modules, as the Go agent's.
Service == INSTANCE VerdictService WITH
  state <- [c \in Conns |-> IF at[c] \in {"new", "closed"} THEN at[c] ELSE "open"]
ImplementsVerdictService == Service!Spec
=============================================================================
