----------------------------- MODULE SocketServer -----------------------------
(***************************************************************************)
(* The Go agent's process: the Unix socket server of                       *)
(* internal/socket/server.go, started and stopped by cmd/agent/main.go.    *)
(*                                                                         *)
(* main runs Start: it listens, accepts connections, takes a slot of the   *)
(* worker semaphore for each and spawns handleConn. The signal goroutine   *)
(* runs Stop. When Start has returned, main runs its deferred calls: the   *)
(* CVE puller, the telemetry buffer and the store are stopped, in that     *)
(* order, and the process ends. handleConn answers what the pipeline       *)
(* decided, or PERMIT when the request cannot be read or the decision is   *)
(* late (Fail-Open), and counts how it went.                               *)
(***************************************************************************)
EXTENDS Integers, FiniteSets

CONSTANTS
  Conns,      \* connections of the web server modules, each made once
  MaxWorkers  \* slots of the semaphore

ASSUME SocketAssumption == /\ IsFiniteSet(Conns) /\ "none" \notin Conns
                           /\ MaxWorkers \in Nat \ {0}

VARIABLES
  main,      \* where Start and then main are
  sig,       \* where the signal goroutine is in Stop
  puller,    \* where the CVE puller goroutine is
  quit,      \* s.quit is closed
  kernel,    \* the listening socket: "none", "open" or "closed"
  listener,  \* s.listener is set
  path,      \* the socket file exists
  held,      \* the connection Start has accepted and not handed to a worker
  conn,      \* conn[c]: where connection c is
  slots,     \* slots taken in sem
  wg,        \* the wait group's counter
  verdict,   \* verdict[c]: what the handler returned
  answer,    \* answer[c]: what was written to c
  outcome,   \* outcome[c]: the counter c is about to increment
  stats      \* the counters

server == <<quit, kernel, listener, path, held, slots, wg>>
conns == <<conn, verdict, answer, outcome, stats>>
vars == <<main, sig, puller, server, conns>>

Counters == {"total", "blocked", "permitted", "errors", "failOpen"}

Init == /\ main = "listen" /\ sig = "idle" /\ puller = "pull"
        /\ quit = FALSE /\ kernel = "none" /\ listener = FALSE /\ path = FALSE
        /\ held = "none" /\ slots = 0 /\ wg = 0
        /\ conn = [c \in Conns |-> "new"]
        /\ verdict = [c \in Conns |-> "none"] /\ answer = [c \in Conns |-> "none"]
        /\ outcome = [c \in Conns |-> "none"]
        /\ stats = [k \in Counters |-> 0]
-----------------------------------------------------------------------------
(* Start *)

Listen == /\ main = "listen" /\ main' = "publish"
          /\ kernel' = "open" /\ path' = TRUE
          /\ UNCHANGED <<sig, puller, quit, listener, held, slots, wg, conns>>

\* s.listener = ln
Publish == /\ main = "publish" /\ main' = "accept"
           /\ listener' = TRUE
           /\ UNCHANGED <<sig, puller, quit, kernel, path, held, slots, wg, conns>>

\* The module connects; the kernel queues it.
Connect(c) == /\ conn[c] = "new" /\ kernel = "open" /\ path
              /\ conn' = [conn EXCEPT ![c] = "backlog"]
              /\ UNCHANGED <<main, sig, puller, server, verdict, answer, outcome, stats>>

Accept(c) == /\ main = "accept" /\ kernel = "open" /\ conn[c] = "backlog"
             /\ main' = "slot" /\ held' = c
             /\ conn' = [conn EXCEPT ![c] = "accepted"]
             /\ UNCHANGED <<sig, puller, quit, kernel, listener, path, slots, wg,
                            verdict, answer, outcome, stats>>

MutFree == TRUE
Free == slots < MaxWorkers

\* Start waits for a slot, adds to the wait group and spawns the worker.
Spawn == /\ main = "slot" /\ Free
         /\ slots' = slots + 1 /\ wg' = wg + 1
         /\ conn' = [conn EXCEPT ![held] = "begin"]
         /\ held' = "none" /\ main' = "accept"
         /\ UNCHANGED <<sig, puller, quit, kernel, listener, path,
                        verdict, answer, outcome, stats>>

\* Accept fails: after Stop, Start leaves the loop. (Other errors are only logged.)
MutAcceptFails == /\ main = "accept" /\ kernel = "closed" /\ quit
                  /\ main' = "puller"
                  /\ UNCHANGED <<sig, puller, server, conns>>
AcceptFails == /\ main = "accept" /\ kernel = "closed" /\ quit
               /\ main' = "wait"
               /\ UNCHANGED <<sig, puller, server, conns>>

StartReturns == /\ main = "wait" /\ wg = 0
                /\ main' = "puller"
                /\ UNCHANGED <<sig, puller, server, conns>>

\* main's deferred calls; tel.Stop and store.Close return by themselves.
StopPuller == /\ main = "puller" /\ puller = "done" /\ main' = "telemetry"
              /\ UNCHANGED <<sig, puller, server, conns>>
StopTelemetry == /\ main = "telemetry" /\ main' = "store"
                 /\ UNCHANGED <<sig, puller, server, conns>>
CloseStore == /\ main = "store" /\ main' = "exit"
              /\ UNCHANGED <<sig, puller, server, conns>>
Main == \/ Listen \/ Publish \/ Spawn \/ AcceptFails \/ StartReturns
        \/ StopPuller \/ StopTelemetry \/ CloseStore
        \/ \E c \in Conns : Accept(c)
-----------------------------------------------------------------------------
(* Stop, run by the signal goroutine *)

Signal == /\ sig = "idle" /\ sig' = "close"
          /\ quit' = TRUE
          /\ UNCHANGED <<main, puller, kernel, listener, path, held, slots, wg, conns>>

MutCloseListener == /\ sig = "close" /\ sig' = "wait"
                    /\ UNCHANGED <<main, puller, server, conns>>
\* A closed listener removes the socket file and drops what it has not accepted.
CloseListener ==
  /\ sig = "close" /\ sig' = "wait"
  /\ IF listener
     THEN /\ kernel' = "closed" /\ path' = FALSE
          /\ conn' = [c \in Conns |-> IF conn[c] = "backlog" THEN "reset" ELSE conn[c]]
     ELSE UNCHANGED <<kernel, path, conn>>
  /\ UNCHANGED <<main, puller, quit, listener, held, slots, wg,
                 verdict, answer, outcome, stats>>

StopReturns == /\ sig = "wait" /\ wg = 0 /\ sig' = "done"
               /\ path' = FALSE
               /\ UNCHANGED <<main, puller, quit, kernel, listener, held, slots, wg, conns>>

Stop == CloseListener \/ StopReturns
-----------------------------------------------------------------------------
(* The CVE puller: a pull ends by SetConfig or an error within 30 s *)

Pulled == /\ puller = "pull" /\ puller' = "select"
          /\ UNCHANGED <<main, sig, server, conns>>
Tick == /\ puller = "select" /\ puller' = "pull"
        /\ UNCHANGED <<main, sig, server, conns>>
PullerEnds == /\ puller = "select" /\ main = "puller" /\ puller' = "done"
              /\ UNCHANGED <<main, sig, server, conns>>
-----------------------------------------------------------------------------
(* handleConn *)

Step(c, from, to) == conn[c] = from /\ conn' = [conn EXCEPT ![c] = to]
Outside == UNCHANGED <<main, sig, puller, server>>
Count(k) == stats' = [stats EXCEPT ![k] = @ + 1]

Begin(c) == /\ Step(c, "begin", "read") /\ Count("total")
            /\ UNCHANGED <<verdict, answer, outcome>> /\ Outside

\* failOpen: PERMIT is written, if it can be, and then counter k incremented.
FailOpen(c, k) == /\ \/ answer' = [answer EXCEPT ![c] = "PERMIT"]
                     \/ UNCHANGED answer
                  /\ outcome' = [outcome EXCEPT ![c] = k]
                  /\ UNCHANGED <<verdict, stats>> /\ Outside

\* The request comes, or nothing, too late, or what is not JSON.
Read(c) == \/ Step(c, "read", "check") /\ UNCHANGED <<verdict, answer, outcome, stats>> /\ Outside
           \/ Step(c, "read", "count") /\ FailOpen(c, "errors")

\* The handler (Pipeline!Check) returns ...
Check(c) == /\ Step(c, "check", "checked")
            /\ \E v \in {"PERMIT", "BLOCK"} : verdict' = [verdict EXCEPT ![c] = v]
            /\ UNCHANGED <<answer, outcome, stats>> /\ Outside

\* Mutant: no return after the timeout's failOpen.
MutLate(c) == Step(c, "checked", "write") /\ FailOpen(c, "failOpen")
\* ... after the timeout,
Late(c) == Step(c, "checked", "count") /\ FailOpen(c, "failOpen")

\* ... with a reply that cannot be marshalled,
Unmarshalled(c) == Step(c, "checked", "count") /\ FailOpen(c, "errors")

\* ... or in time.
InTime(c) == /\ Step(c, "checked", "write")
             /\ UNCHANGED <<verdict, answer, outcome, stats>> /\ Outside

MutWrite(c) ==
  /\ conn[c] = "write"
  /\ \/ /\ answer' = [answer EXCEPT ![c] = verdict[c]]
        /\ outcome' = [outcome EXCEPT ![c] = IF verdict[c] = "BLOCK" THEN "blocked"
                                             ELSE "permitted"]
        /\ conn' = [conn EXCEPT ![c] = "count"]
     \/ conn' = [conn EXCEPT ![c] = "release"] /\ UNCHANGED <<answer, outcome>>
  /\ UNCHANGED <<verdict, stats>> /\ Outside
Write(c) ==
  /\ Step(c, "write", "count")
  /\ \/ /\ answer' = [answer EXCEPT ![c] = verdict[c]]
        /\ outcome' = [outcome EXCEPT ![c] = IF verdict[c] = "BLOCK" THEN "blocked"
                                             ELSE "permitted"]
     \/ outcome' = [outcome EXCEPT ![c] = "errors"] /\ UNCHANGED answer
  /\ UNCHANGED <<verdict, stats>> /\ Outside

CountOutcome(c) == /\ Step(c, "count", "release") /\ Count(outcome[c])
                   /\ UNCHANGED <<verdict, answer, outcome>> /\ Outside

MutRelease(c) == /\ Step(c, "release", "released")
                 /\ UNCHANGED <<main, sig, puller, server, verdict, answer, outcome, stats>>
\* The connection is closed and the slot released, then the wait group told.
Release(c) == /\ Step(c, "release", "released") /\ slots' = slots - 1
              /\ UNCHANGED <<main, sig, puller, quit, kernel, listener, path, held, wg,
                             verdict, answer, outcome, stats>>
Done(c) == /\ Step(c, "released", "done") /\ wg' = wg - 1
           /\ UNCHANGED <<main, sig, puller, quit, kernel, listener, path, held, slots,
                          verdict, answer, outcome, stats>>

HandleConn(c) == \/ Begin(c) \/ Read(c) \/ Check(c) \/ Late(c) \/ Unmarshalled(c) \/ InTime(c)
                 \/ Write(c) \/ CountOutcome(c) \/ Release(c) \/ Done(c)
-----------------------------------------------------------------------------
\* The process ends with main.
Running == main # "exit"
Next == /\ Running
        /\ \/ Main \/ Signal \/ Stop \/ Pulled \/ Tick \/ PullerEnds
           \/ \E c \in Conns : Connect(c) \/ HandleConn(c)

Spec == Init /\ [][Next]_vars

\* Goroutines run: reads, writes and pulls have deadlines, Check returns, and a select with
\* two ready cases takes each now and then.
FairSpec == /\ Spec
            /\ WF_vars(Running /\ Main) /\ WF_vars(Running /\ Stop)
            /\ WF_vars(Running /\ Pulled) /\ SF_vars(Running /\ PullerEnds)
            /\ \A c \in Conns : WF_vars(Running /\ HandleConn(c))
-----------------------------------------------------------------------------
(* Properties *)

Working == {"begin", "read", "check", "checked", "write", "count", "release"}
Waited == Working \cup {"released"}
In(S) == {c \in Conns : conn[c] \in S}

TypeOK == /\ main \in {"listen", "publish", "accept", "slot", "wait", "puller",
                       "telemetry", "store", "exit"}
          /\ sig \in {"idle", "close", "wait", "done"}
          /\ puller \in {"pull", "select", "done"}
          /\ quit \in BOOLEAN /\ listener \in BOOLEAN /\ path \in BOOLEAN
          /\ kernel \in {"none", "open", "closed"}
          /\ held \in Conns \cup {"none"} /\ (main = "slot" <=> held # "none")
          /\ conn \in [Conns -> Waited \cup {"new", "backlog", "accepted", "reset", "done"}]
          /\ slots \in 0 .. MaxWorkers /\ wg \in Nat
          /\ verdict \in [Conns -> {"none", "PERMIT", "BLOCK"}]
          /\ answer \in [Conns -> {"none", "PERMIT", "BLOCK"}]
          /\ outcome \in [Conns -> (Counters \ {"total"}) \cup {"none"}]
          /\ stats \in [Counters -> Nat]

\* "Bounded worker pool" (server.go:92), whatever ends a worker and while Stop runs.
WorkersBounded == Cardinality(In(Working)) <= MaxWorkers

\* Stats(): every connection counted in total is counted once more by how it ended, or
\* is still being handled; no early return forgets its counter or counts twice.
CountersAddUp ==
  stats["total"] = stats["blocked"] + stats["permitted"] + stats["errors"] + stats["failOpen"]
                     + Cardinality(In(Working \ {"begin", "release"}))

\* The order of main's shutdown: when the telemetry buffer and the store are closed, no
\* worker that would use them is left, and neither is the puller.
NothingUsesClosed == main \in {"telemetry", "store", "exit"} =>
                       In(Waited \cup {"accepted"}) = {} /\ puller = "done"

\* A Stop that finds the listener makes Start return and the process end.
StopEndsProcess == (sig = "close" /\ listener) ~> (main = "exit")

\* An accepted connection is handled and closed, before the process ends.
AcceptedIsHandled == \A c \in Conns : (conn[c] = "accepted") ~> (conn[c] = "done")

\* "Blocks until Stop() is called" (server.go:77).
StartEndsOnStop == quit ~> (main \in {"puller", "telemetry", "store", "exit"})

\* The server implements the promise made to the web server modules.
Service == INSTANCE VerdictService WITH
  state <- [c \in Conns |-> IF conn[c] = "new" THEN "new"
                            ELSE IF conn[c] \in {"reset", "released", "done"} THEN "closed"
                            ELSE "open"]
ImplementsVerdictService == Service!Spec
=============================================================================
