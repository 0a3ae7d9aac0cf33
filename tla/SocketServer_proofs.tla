-------------------------- MODULE SocketServer_proofs --------------------------
(***************************************************************************)
(* Theorems about SocketServer, for any connections and worker slots: the  *)
(* types, the counters, the bound on the workers, the order of the         *)
(* shutdown, and that the server implements VerdictService.                *)
(*                                                                         *)
(* The inductive invariant ties the counters of the code (semaphore, wait  *)
(* group, statistics) to the connections in the states they stand for.     *)
(***************************************************************************)
EXTENDS SocketServer, FiniteSetTheorems, TLAPS

\* The semaphore and the wait group count the workers.
Counted == /\ slots = Cardinality(In(Working))
           /\ wg = Cardinality(In(Waited))

\* held is the accepted connection.
HeldOK == \A c \in Conns : conn[c] = "accepted" <=> held = c

\* From StartReturns on no worker is left.
Ended == /\ main \in {"puller", "telemetry", "store", "exit"} =>
              In(Waited \cup {"accepted"}) = {}
         /\ main \in {"telemetry", "store", "exit"} => puller = "done"

\* How far the handling of a connection is.
Progress == \A c \in Conns :
  /\ conn[c] \in {"new", "backlog", "accepted", "begin", "read", "check"} => verdict[c] = "none"
  /\ conn[c] \in {"checked", "write"} => verdict[c] # "none"
  /\ conn[c] \in {"new", "backlog", "accepted", "begin", "read", "check", "checked", "write"} =>
       answer[c] = "none"
  /\ conn[c] = "count" => outcome[c] # "none"

Inv == TypeOK /\ Counted /\ HeldOK /\ Ended /\ Progress /\ CountersAddUp
-----------------------------------------------------------------------------
(* Counting connections *)

\* The connections in some states are finitely many, before and after a step.
LEMMA InFinite ==
  ASSUME NEW S
  PROVE  /\ IsFiniteSet(In(S)) /\ Cardinality(In(S)) \in Nat
         /\ (Cardinality(In(S)) = 0) <=> (In(S) = {})
  <1>1. IsFiniteSet(Conns) BY SocketAssumption
  <1>2. In(S) \subseteq Conns BY DEF In
  <1>3. IsFiniteSet(In(S)) BY <1>1, <1>2, FS_Subset
  <1>. QED BY <1>3, FS_CardinalityType, FS_EmptySet

\* One connection moves, the others stay.
Moved(c, to) == /\ conn \in [Conns -> Waited \cup {"new", "backlog", "accepted", "reset", "done"}]
                /\ conn' = [conn EXCEPT ![c] = to]

\* It moves within the states S, or outside of them.
LEMMA Stays ==
  ASSUME NEW CONSTANT S, NEW c \in Conns, NEW CONSTANT to, Moved(c, to), conn[c] \in S <=> to \in S
  PROVE  In(S)' = In(S) /\ Cardinality(In(S))' = Cardinality(In(S))
  <1>1. In(S)' = In(S) BY DEF Moved, In
  <1>. QED BY <1>1

\* It moves into S.
LEMMA Enters ==
  ASSUME NEW CONSTANT S, NEW c \in Conns, NEW CONSTANT to, Moved(c, to), conn[c] \notin S, to \in S
  PROVE  Cardinality(In(S))' = Cardinality(In(S)) + 1
  <1>1. In(S)' = In(S) \cup {c} BY DEF Moved, In
  <1>2. c \notin In(S) BY DEF In
  <1>3. Cardinality(In(S) \cup {c}) = Cardinality(In(S)) + 1 BY <1>2, InFinite, FS_AddElement
  <1>. QED BY <1>1, <1>3

\* It leaves S.
LEMMA Leaves ==
  ASSUME NEW CONSTANT S, NEW c \in Conns, NEW CONSTANT to, Moved(c, to), conn[c] \in S, to \notin S
  PROVE  Cardinality(In(S))' = Cardinality(In(S)) - 1
  <1>1. In(S)' = In(S) \ {c} BY DEF Moved, In
  <1>2. c \in In(S) BY DEF In
  <1>3. Cardinality(In(S) \ {c}) = Cardinality(In(S)) - 1 BY <1>2, InFinite, FS_RemoveElement
  <1>. QED BY <1>1, <1>3
-----------------------------------------------------------------------------
(* Type correctness *)

\* The steps that do not concern one connection, but for Start's and Stop's.
Elsewhere == \/ Listen \/ Publish \/ AcceptFails \/ StartReturns
             \/ StopPuller \/ StopTelemetry \/ CloseStore
             \/ Signal \/ StopReturns \/ Pulled \/ Tick \/ PullerEnds

\* The steps of a worker that move neither its slot nor the wait group.
Handling(c) == \/ Begin(c) \/ Read(c) \/ Check(c) \/ Late(c) \/ Unmarshalled(c) \/ InTime(c)
               \/ Write(c) \/ CountOutcome(c)

\* The ways to take a step, grouped.
LEMMA Steps ==
  ASSUME Next
  PROVE  \/ Elsewhere \/ Spawn \/ CloseListener
         \/ \E c \in Conns : Accept(c) \/ Connect(c) \/ Handling(c) \/ Release(c) \/ Done(c)
  BY DEF Next, Main, Stop, HandleConn, Elsewhere, Handling

\* A worker that can release its slot or tell the wait group is counted by it.
LEMMA WorkerCounted ==
  ASSUME TypeOK, Counted, NEW c \in Conns
  PROVE  /\ conn[c] \in Working => slots > 0
         /\ conn[c] \in Waited => wg > 0
  <1>1. conn[c] \in Working => In(Working) # {} BY DEF In
  <1>2. conn[c] \in Waited => In(Waited) # {} BY DEF In
  <1>. QED BY <1>1, <1>2, InFinite DEF Counted, TypeOK

LEMMA TypeNext ==
  ASSUME TypeOK, Counted, Progress, Next
  PROVE  TypeOK'
  <1>. USE SocketAssumption
  <1>1. CASE Elsewhere
    <2>1. CASE Listen \/ Publish
      BY <2>1 DEF TypeOK, Listen, Publish, conns
    <2>2. CASE AcceptFails \/ StartReturns
      BY <2>2 DEF TypeOK, AcceptFails, StartReturns, conns, server
    <2>3. CASE StopPuller \/ StopTelemetry \/ CloseStore
      BY <2>3 DEF TypeOK, StopPuller, StopTelemetry, CloseStore, conns, server
    <2>4. CASE Signal \/ StopReturns
      BY <2>4 DEF TypeOK, Signal, StopReturns, conns
    <2>5. CASE Pulled
      BY <2>5 DEF TypeOK, Pulled, conns, server
    <2>6. CASE Tick \/ PullerEnds
      BY <2>6 DEF TypeOK, Tick, PullerEnds, conns, server
    <2>. QED BY <1>1, <2>1, <2>2, <2>3, <2>4, <2>5, <2>6 DEF Elsewhere
  <1>2. CASE Spawn
    BY <1>2 DEF TypeOK, Spawn, Free, conns, Waited, Working
  <1>3. CASE CloseListener
    BY <1>3, ZenonT(30) DEF TypeOK, CloseListener
  <1>4. ASSUME NEW c \in Conns, Accept(c) \/ Connect(c)
        PROVE  TypeOK'
    BY <1>4 DEF TypeOK, Accept, Connect, server
  <1>5. ASSUME NEW c \in Conns, Handling(c)
        PROVE  TypeOK'
    <2>1. CASE Begin(c)
      BY <2>1 DEF TypeOK, Begin, Step, Count, Outside, server, Waited, Working, Counters
    <2>2. CASE Read(c) \/ Late(c) \/ Unmarshalled(c)
      BY <2>2 DEF TypeOK, Read, Late, Unmarshalled, FailOpen, Step, Outside, server, Waited,
         Working, Counters
    <2>3. CASE Check(c) \/ InTime(c)
      BY <2>3 DEF TypeOK, Check, InTime, Step, Outside, server, Waited, Working
    <2>4. CASE Write(c)
      BY <2>4 DEF TypeOK, Write, Step, Outside, server, Waited, Working, Counters
    <2>5. CASE CountOutcome(c)
      <3>1. outcome[c] \in Counters BY <2>5 DEF CountOutcome, Step, Progress, TypeOK
      <3>2. stats' \in [Counters -> Nat] BY <2>5, <3>1 DEF CountOutcome, Count, TypeOK
      <3>. QED BY <2>5, <3>2 DEF TypeOK, CountOutcome, Step, Outside, server, Waited, Working
    <2>. QED BY <1>5, <2>1, <2>2, <2>3, <2>4, <2>5 DEF Handling
  <1>6. ASSUME NEW c \in Conns, Release(c) \/ Done(c)
        PROVE  TypeOK'
    <2>1. Release(c) => slots > 0
      BY WorkerCounted DEF Release, Step, Working
    <2>2. Done(c) => wg > 0
      BY WorkerCounted DEF Done, Step, Waited
    <2>. QED BY <1>6, <2>1, <2>2 DEF TypeOK, Release, Done, Step, Waited, Working
  <1>. QED BY <1>1, <1>2, <1>3, <1>4, <1>5, <1>6, Steps
-----------------------------------------------------------------------------
(* The semaphore, the wait group and the accepted connection *)

\* Where a step of connection c leads, within the workers or outside of them.
LEMMA Moves ==
  ASSUME TypeOK, NEW c \in Conns, Accept(c) \/ Connect(c) \/ Handling(c)
  PROVE  \E to \in {"backlog", "accepted", "read", "check", "checked", "write", "count", "release"} :
           /\ Moved(c, to)
           /\ (conn[c] \in Working) <=> (to \in Working)
           /\ (conn[c] \in Waited) <=> (to \in Waited)
           /\ to = "accepted" => Accept(c)
           /\ to # "accepted" => conn[c] # "accepted"
  <1>1. CASE Accept(c) \/ Connect(c)
    BY <1>1 DEF Accept, Connect, Moved, TypeOK, Working, Waited
  <1>2. CASE Handling(c)
    BY <1>2 DEF Handling, Begin, Read, Check, Late, Unmarshalled, InTime, Write, CountOutcome,
       Step, Moved, TypeOK, Working, Waited
  <1>. QED BY <1>1, <1>2

LEMMA CountedNext ==
  ASSUME TypeOK, Counted, HeldOK, Next
  PROVE  Counted'
  <1>1. CASE Elsewhere
    BY <1>1 DEF Elsewhere, Counted, In, Listen, Publish, AcceptFails, StartReturns, StopPuller,
       StopTelemetry, CloseStore, Signal, StopReturns, Pulled, Tick, PullerEnds, conns, server
  <1>2. CASE Spawn
    <2>1. held \in Conns /\ conn[held] = "accepted" BY <1>2 DEF Spawn, TypeOK, HeldOK
    <2>2. Moved(held, "begin") BY <1>2 DEF Spawn, Moved, TypeOK
    <2>3. Cardinality(In(Working))' = Cardinality(In(Working)) + 1
      BY <2>1, <2>2, Enters DEF Working
    <2>4. Cardinality(In(Waited))' = Cardinality(In(Waited)) + 1
      BY <2>1, <2>2, Enters DEF Working, Waited
    <2>. QED BY <1>2, <2>3, <2>4 DEF Spawn, Counted
  <1>3. CASE CloseListener
    <2>1. In(Working)' = In(Working) /\ In(Waited)' = In(Waited)
      BY <1>3 DEF CloseListener, In, TypeOK, Working, Waited
    <2>. QED BY <1>3, <2>1 DEF CloseListener, Counted
  <1>4. ASSUME NEW c \in Conns, Accept(c) \/ Connect(c) \/ Handling(c)
        PROVE  Counted'
    <2>1. slots' = slots /\ wg' = wg
      BY <1>4 DEF Accept, Connect, Handling, Begin, Read, Check, Late, Unmarshalled, InTime,
         Write, CountOutcome, FailOpen, Outside, server
    <2>2. PICK to : /\ Moved(c, to)
                    /\ (conn[c] \in Working) <=> (to \in Working)
                    /\ (conn[c] \in Waited) <=> (to \in Waited)
      BY <1>4, Moves
    <2>3. Cardinality(In(Working))' = Cardinality(In(Working)) BY <2>2, Stays
    <2>4. Cardinality(In(Waited))' = Cardinality(In(Waited)) BY <2>2, Stays
    <2>. QED BY <2>1, <2>3, <2>4 DEF Counted
  <1>5. ASSUME NEW c \in Conns, Release(c)
        PROVE  Counted'
    <2>1. Moved(c, "released") /\ conn[c] = "release"
      BY <1>5 DEF Release, Step, Moved, TypeOK
    <2>2. Cardinality(In(Working))' = Cardinality(In(Working)) - 1
      BY <2>1, Leaves DEF Working
    <2>3. Cardinality(In(Waited))' = Cardinality(In(Waited))
      BY <2>1, Stays DEF Working, Waited
    <2>. QED BY <1>5, <2>2, <2>3 DEF Release, Counted
  <1>6. ASSUME NEW c \in Conns, Done(c)
        PROVE  Counted'
    <2>1. Moved(c, "done") /\ conn[c] = "released"
      BY <1>6 DEF Done, Step, Moved, TypeOK
    <2>2. Cardinality(In(Working))' = Cardinality(In(Working))
      BY <2>1, Stays DEF Working
    <2>3. Cardinality(In(Waited))' = Cardinality(In(Waited)) - 1
      BY <2>1, Leaves DEF Working, Waited
    <2>. QED BY <1>6, <2>2, <2>3 DEF Done, Counted
  <1>. QED BY <1>1, <1>2, <1>3, <1>4, <1>5, <1>6, Steps

LEMMA HeldNext ==
  ASSUME TypeOK, HeldOK, Next
  PROVE  HeldOK'
  <1>1. CASE Elsewhere
    BY <1>1 DEF Elsewhere, HeldOK, Listen, Publish, AcceptFails, StartReturns, StopPuller,
       StopTelemetry, CloseStore, Signal, StopReturns, Pulled, Tick, PullerEnds, conns, server
  <1>2. CASE Spawn
    BY <1>2, SocketAssumption DEF Spawn, HeldOK, TypeOK
  <1>3. CASE CloseListener
    BY <1>3 DEF CloseListener, HeldOK, TypeOK
  <1>4. ASSUME NEW c \in Conns, Accept(c)
        PROVE  HeldOK'
    BY <1>4, SocketAssumption DEF Accept, HeldOK, TypeOK
  <1>5. ASSUME NEW c \in Conns, Connect(c) \/ Handling(c)
        PROVE  HeldOK'
    <2>1. held' = held
      BY <1>5 DEF Connect, Handling, Begin, Read, Check, Late, Unmarshalled, InTime,
         Write, CountOutcome, FailOpen, Outside, server
    <2>2. ~Accept(c)
      BY <1>5 DEF Accept, Connect, Handling, Begin, Read, Check, Late, Unmarshalled, InTime,
         Write, CountOutcome, Step
    <2>3. PICK to : /\ Moved(c, to)
                    /\ to = "accepted" => Accept(c)
                    /\ to # "accepted" => conn[c] # "accepted"
      BY <1>5, Moves
    <2>. QED BY <2>1, <2>2, <2>3 DEF HeldOK, Moved
  <1>6. ASSUME NEW c \in Conns, Release(c) \/ Done(c)
        PROVE  HeldOK'
    BY <1>6 DEF Release, Done, Step, HeldOK, TypeOK
  <1>. QED BY <1>1, <1>2, <1>3, <1>4, <1>5, <1>6, Steps
-----------------------------------------------------------------------------
(* The end of the process, and what a connection has been through *)

LEMMA EndedNext ==
  ASSUME TypeOK, Counted, HeldOK, Ended, Next
  PROVE  Ended'
  <1>. DEFINE Left == In(Waited \cup {"accepted"}) = {}
  <1>1. Left <=> \A c \in Conns : conn[c] \notin Waited \cup {"accepted"} BY DEF In
  <1>2. Left' <=> \A c \in Conns : conn'[c] \notin Waited \cup {"accepted"} BY DEF In
  <1>3. Ended <=> /\ main \in {"puller", "telemetry", "store", "exit"} => Left
                  /\ main \in {"telemetry", "store", "exit"} => puller = "done"
    BY DEF Ended
  <1>4. Ended' <=> /\ main' \in {"puller", "telemetry", "store", "exit"} => Left'
                   /\ main' \in {"telemetry", "store", "exit"} => puller' = "done"
    BY DEF Ended
  <1>. HIDE DEF Left
  <1>5. CASE Elsewhere
    <2>1. conn' = conn
      BY <1>5 DEF Elsewhere, Listen, Publish, AcceptFails, StartReturns, StopPuller,
         StopTelemetry, CloseStore, Signal, StopReturns, Pulled, Tick, PullerEnds, conns, server
    <2>2. CASE StartReturns
      <3>1. In(Waited) = {} BY <2>2, InFinite DEF StartReturns, Counted
      <3>2. \A c \in Conns : conn[c] \notin Waited \cup {"accepted"}
        BY <2>2, <3>1, SocketAssumption DEF StartReturns, HeldOK, TypeOK, In
      <3>. QED BY <2>1, <2>2, <3>2, <1>2, <1>4 DEF StartReturns
    <2>3. CASE ~StartReturns
      BY <1>5, <2>1, <2>3, <1>1, <1>2, <1>3, <1>4
      DEF Elsewhere, Listen, Publish, AcceptFails, StopPuller, TypeOK,
          StopTelemetry, CloseStore, Signal, StopReturns, Pulled, Tick, PullerEnds, conns, server
    <2>. QED BY <2>2, <2>3
  <1>6. CASE Spawn
    BY <1>6, <1>4 DEF Spawn
  <1>7. CASE CloseListener
    <2>1. Left => Left' BY <1>7, <1>1, <1>2 DEF CloseListener, TypeOK, Waited, Working
    <2>. QED BY <1>7, <2>1, <1>3, <1>4 DEF CloseListener
  <1>8. ASSUME NEW c \in Conns, Accept(c) \/ Connect(c) \/ Handling(c)
        PROVE  Ended'
    <2>1. CASE Accept(c) BY <2>1, <1>4 DEF Accept
    <2>2. CASE Connect(c) \/ Handling(c)
      <3>1. main' = main /\ puller' = puller
        BY <2>2 DEF Connect, Handling, Begin, Read, Check, Late, Unmarshalled, InTime,
           Write, CountOutcome, FailOpen, Outside, server
      <3>2. ~Accept(c)
        BY <2>2 DEF Accept, Connect, Handling, Begin, Read, Check, Late, Unmarshalled, InTime,
           Write, CountOutcome, Step
      <3>3. PICK to : /\ Moved(c, to)
                      /\ (conn[c] \in Waited) <=> (to \in Waited)
                      /\ to = "accepted" => Accept(c)
        BY <2>2, Moves
      <3>4. Left => Left' BY <3>2, <3>3, <1>1, <1>2 DEF Moved
      <3>. QED BY <3>1, <3>4, <1>3, <1>4
    <2>. QED BY <1>8, <2>1, <2>2
  <1>9. ASSUME NEW c \in Conns, Release(c) \/ Done(c)
        PROVE  Ended'
    <2>1. main' = main /\ puller' = puller BY <1>9 DEF Release, Done
    <2>2. ~Left BY <1>9, <1>1 DEF Release, Done, Step, Waited, Working
    <2>. QED BY <2>1, <2>2, <1>3, <1>4
  <1>. QED BY <1>5, <1>6, <1>7, <1>8, <1>9, Steps

LEMMA ProgressNext ==
  ASSUME TypeOK, HeldOK, Progress, Next
  PROVE  Progress'
  <1>1. CASE Elsewhere
    BY <1>1 DEF Elsewhere, Progress, Listen, Publish, AcceptFails, StartReturns, StopPuller,
       StopTelemetry, CloseStore, Signal, StopReturns, Pulled, Tick, PullerEnds, conns, server
  <1>2. CASE Spawn
    BY <1>2 DEF Spawn, HeldOK, Progress, TypeOK
  <1>3. CASE CloseListener
    BY <1>3 DEF CloseListener, Progress, TypeOK
  <1>4. ASSUME NEW c \in Conns, Accept(c) \/ Connect(c)
        PROVE  Progress'
    BY <1>4 DEF Accept, Connect, Progress, TypeOK
  <1>5. ASSUME NEW c \in Conns, Handling(c)
        PROVE  Progress'
    <2>1. CASE Begin(c) \/ Check(c) \/ InTime(c)
      BY <2>1 DEF Begin, Check, InTime, Step, Progress, TypeOK
    <2>2. CASE Read(c) \/ Late(c) \/ Unmarshalled(c)
      BY <2>2 DEF Read, Late, Unmarshalled, FailOpen, Step, Progress, TypeOK
    <2>3. CASE Write(c) \/ CountOutcome(c)
      BY <2>3 DEF Write, CountOutcome, Step, Progress, TypeOK
    <2>. QED BY <1>5, <2>1, <2>2, <2>3 DEF Handling
  <1>6. ASSUME NEW c \in Conns, Release(c) \/ Done(c)
        PROVE  Progress'
    BY <1>6 DEF Release, Done, Step, Progress, TypeOK
  <1>. QED BY <1>1, <1>2, <1>3, <1>4, <1>5, <1>6, Steps
-----------------------------------------------------------------------------
(* The statistics *)

LEMMA CountersNext ==
  ASSUME TypeOK, HeldOK, Progress, CountersAddUp, Next
  PROVE  CountersAddUp'
  <1>. DEFINE Handled(s) == s["blocked"] + s["permitted"] + s["errors"] + s["failOpen"]
              O == Working \ {"begin", "release"}
              N == Cardinality(In(O))
  <1>1. N \in Nat BY InFinite
  <1>2. CountersAddUp <=> stats["total"] = Handled(stats) + N BY DEF CountersAddUp
  <1>3. CountersAddUp' <=> stats'["total"] = Handled(stats') + N' BY DEF CountersAddUp
  <1>4. /\ "total" \in Counters /\ "blocked" \in Counters /\ "permitted" \in Counters
        /\ "errors" \in Counters /\ "failOpen" \in Counters
    BY DEF Counters
  <1>. HIDE DEF N
  <1>5. ASSUME stats' = stats, N' = N
        PROVE  CountersAddUp'
    BY <1>5, <1>2, <1>3
  <1>6. CASE Elsewhere
    <2>1. stats' = stats /\ conn' = conn
      BY <1>6 DEF Elsewhere, Listen, Publish, AcceptFails, StartReturns, StopPuller,
         StopTelemetry, CloseStore, Signal, StopReturns, Pulled, Tick, PullerEnds, conns
    <2>2. N' = N BY <2>1 DEF N, In
    <2>. QED BY <2>1, <2>2, <1>5
  <1>7. CASE Spawn
    <2>1. held \in Conns /\ conn[held] = "accepted" BY <1>7 DEF Spawn, TypeOK, HeldOK
    <2>2. Moved(held, "begin") BY <1>7 DEF Spawn, Moved, TypeOK
    <2>3. N' = N BY <2>1, <2>2, Stays DEF N, Working
    <2>. QED BY <1>7, <2>3, <1>5 DEF Spawn
  <1>8. CASE CloseListener
    <2>1. In(O)' = In(O) BY <1>8 DEF CloseListener, In, TypeOK, Working
    <2>2. N' = N BY <2>1 DEF N
    <2>. QED BY <1>8, <2>2, <1>5 DEF CloseListener
  <1>9. ASSUME NEW c \in Conns, NEW from \in Working \cup {"new", "backlog", "released"},
               NEW to \in Waited \cup {"backlog", "accepted", "done"},
               Step(c, from, to), (from \in O) <=> (to \in O), stats' = stats
        PROVE  CountersAddUp'
    <2>1. Moved(c, to) BY <1>9 DEF Step, Moved, TypeOK
    <2>2. N' = N BY <1>9, <2>1, Stays DEF N, Step
    <2>. QED BY <1>9, <2>2, <1>5
  <1>10. ASSUME NEW c \in Conns, Begin(c)
         PROVE  CountersAddUp'
    <2>1. Moved(c, "read") BY <1>10 DEF Begin, Step, Moved, TypeOK
    <2>2. N' = N + 1 BY <1>10, <2>1, Enters DEF N, Begin, Step, Working
    <2>3. stats' = [stats EXCEPT !["total"] = @ + 1] BY <1>10 DEF Begin, Count
    <2>4. stats'["total"] = stats["total"] + 1 /\ Handled(stats') = Handled(stats)
      BY <2>3, <1>4 DEF TypeOK
    <2>5. stats["total"] \in Nat /\ Handled(stats) \in Nat BY <1>4 DEF TypeOK
    <2>. HIDE DEF Handled
    <2>. QED BY <2>2, <2>4, <2>5, <1>1, <1>2, <1>3
  <1>11. ASSUME NEW c \in Conns, CountOutcome(c)
         PROVE  CountersAddUp'
    <2>1. Moved(c, "release") BY <1>11 DEF CountOutcome, Step, Moved, TypeOK
    <2>2. N' = N - 1 BY <1>11, <2>1, Leaves DEF N, CountOutcome, Step, Working
    <2>3. outcome[c] \in Counters \ {"total"}
      BY <1>11 DEF CountOutcome, Step, Progress, TypeOK
    <2>4. stats' = [stats EXCEPT ![outcome[c]] = @ + 1] BY <1>11 DEF CountOutcome, Count
    <2>5. stats'["total"] = stats["total"] BY <2>3, <2>4, <1>4 DEF TypeOK
    <2>6. Handled(stats') = Handled(stats) + 1
      BY <2>3, <2>4, <1>4 DEF TypeOK, Counters
    <2>7. stats["total"] \in Nat /\ Handled(stats) \in Nat BY <1>4 DEF TypeOK
    <2>. HIDE DEF Handled
    <2>. QED BY <2>2, <2>5, <2>6, <2>7, <1>1, <1>2, <1>3
  <1>12. ASSUME NEW c \in Conns, Accept(c) \/ Connect(c)
         PROVE  CountersAddUp'
    <2>1. CASE Accept(c)
      <3>1. Step(c, "backlog", "accepted") /\ stats' = stats BY <2>1 DEF Accept, Step
      <3>. QED BY <3>1, <1>9 DEF Working, Waited
    <2>2. CASE Connect(c)
      <3>1. Step(c, "new", "backlog") /\ stats' = stats BY <2>2 DEF Connect, Step
      <3>. QED BY <3>1, <1>9 DEF Working, Waited
    <2>. QED BY <1>12, <2>1, <2>2
  <1>13. ASSUME NEW c \in Conns, Handling(c)
         PROVE  CountersAddUp'
    <2>1. CASE Read(c) BY <2>1, <1>9 DEF Read, FailOpen, Working, Waited
    <2>2. CASE Check(c) BY <2>2, <1>9 DEF Check, Working, Waited
    <2>3. CASE Late(c) \/ Unmarshalled(c)
      BY <2>3, <1>9 DEF Late, Unmarshalled, FailOpen, Working, Waited
    <2>4. CASE InTime(c) BY <2>4, <1>9 DEF InTime, Working, Waited
    <2>5. CASE Write(c) BY <2>5, <1>9 DEF Write, Working, Waited
    <2>. QED BY <1>13, <2>1, <2>2, <2>3, <2>4, <2>5, <1>10, <1>11 DEF Handling
  <1>14. ASSUME NEW c \in Conns, Release(c) \/ Done(c)
         PROVE  CountersAddUp'
    BY <1>14, <1>9 DEF Release, Done, Working, Waited
  <1>. QED BY <1>6, <1>7, <1>8, <1>12, <1>13, <1>14, Steps
-----------------------------------------------------------------------------
(* The invariant and what follows from it *)

LEMMA InvInit == Init => Inv
  <1>. SUFFICES ASSUME Init PROVE Inv OBVIOUS
  <1>. USE SocketAssumption
  <1>1. /\ In(Working) = {} /\ In(Waited) = {} /\ In(Working \ {"begin", "release"}) = {}
    BY DEF Init, In, Working, Waited
  <1>2. TypeOK
    <2>1. stats \in [Counters -> Nat] BY DEF Init
    <2>2. /\ conn \in [Conns -> Waited \cup {"new", "backlog", "accepted", "reset", "done"}]
          /\ outcome \in [Conns -> (Counters \ {"total"}) \cup {"none"}]
          /\ verdict \in [Conns -> {"none", "PERMIT", "BLOCK"}]
          /\ answer \in [Conns -> {"none", "PERMIT", "BLOCK"}]
      BY DEF Init
    <2>3. slots \in 0 .. MaxWorkers /\ wg \in Nat BY DEF Init
    <2>. QED BY <2>1, <2>2, <2>3 DEF Init, TypeOK
  <1>3. Counted BY <1>1, InFinite DEF Init, Counted
  <1>4. HeldOK BY DEF Init, HeldOK
  <1>5. Ended /\ Progress BY DEF Init, Ended, Progress
  <1>6. Cardinality(In(Working \ {"begin", "release"})) = 0 BY <1>1, InFinite
  <1>7. CountersAddUp BY <1>6 DEF Init, CountersAddUp, Counters
  <1>. QED BY <1>2, <1>3, <1>4, <1>5, <1>7 DEF Inv

LEMMA InvNext == Inv /\ [Next]_vars => Inv'
  <1>1. ASSUME Inv, Next PROVE Inv'
    <2>. USE <1>1 DEF Inv
    <2>1. TypeOK' BY TypeNext
    <2>2. Counted' BY CountedNext
    <2>3. HeldOK' BY HeldNext
    <2>4. Ended' BY EndedNext
    <2>5. Progress' BY ProgressNext
    <2>6. CountersAddUp' BY CountersNext
    <2>. QED BY <2>1, <2>2, <2>3, <2>4, <2>5, <2>6
  <1>2. ASSUME Inv, UNCHANGED vars PROVE Inv'
    BY <1>2 DEF Inv, vars, server, conns, TypeOK, Counted, HeldOK, Ended, Progress,
       CountersAddUp, In
  <1>. QED BY <1>1, <1>2

THEOREM Invariance == Spec => []Inv
  BY InvInit, InvNext, PTL DEF Spec

\* The state of the agent's socket server is well typed: no more slots are taken than the
\* semaphore of Start has.
THEOREM TypeCorrect == Spec => []TypeOK
  <1>1. Inv => TypeOK BY DEF Inv
  <1>. QED BY <1>1, Invariance, PTL

\* At most MaxWorkers goroutines are in handleConn.
THEOREM BoundHolds == Spec => []WorkersBounded
  <1>1. Inv => WorkersBounded BY SocketAssumption DEF Inv, TypeOK, Counted, WorkersBounded
  <1>. QED BY <1>1, Invariance, PTL

\* The counters of Stats() account for every connection, whatever early return it took.
THEOREM CountersCorrect == Spec => []CountersAddUp
  <1>1. Inv => CountersAddUp BY DEF Inv
  <1>. QED BY <1>1, Invariance, PTL

\* main closes the telemetry buffer and the store after their last user.
THEOREM ShutdownOrdered == Spec => []NothingUsesClosed
  <1>1. Inv => NothingUsesClosed BY DEF Inv, Ended, NothingUsesClosed
  <1>. QED BY <1>1, Invariance, PTL
-----------------------------------------------------------------------------
(* Refinement *)

\* The abstract state of the connections.
Phase == [c \in Conns |-> IF conn[c] = "new" THEN "new"
                          ELSE IF conn[c] \in {"reset", "released", "done"} THEN "closed"
                          ELSE "open"]

LEMMA ServiceInit == Init => Service!Init
  BY DEF Init, Service!Init

\* A step maps to a step of the service or to none.
LEMMA ServiceNext ==
  ASSUME Inv, Next
  PROVE  Service!Next \/ UNCHANGED Service!vars
  <1>. USE DEF Inv
  <1>1. ASSUME Phase' = Phase, verdict' = verdict, answer' = answer
        PROVE  UNCHANGED Service!vars
    BY <1>1 DEF Phase, Service!vars
  <1>2. CASE Elsewhere
    <2>1. conn' = conn /\ verdict' = verdict /\ answer' = answer
      BY <1>2 DEF Elsewhere, Listen, Publish, AcceptFails, StartReturns, StopPuller,
         StopTelemetry, CloseStore, Signal, StopReturns, Pulled, Tick, PullerEnds, conns
    <2>. QED BY <2>1, <1>1 DEF Phase
  <1>3. CASE Spawn
    <2>1. conn[held] = "accepted" BY <1>3 DEF Spawn, TypeOK, HeldOK
    <2>2. Phase' = Phase BY <1>3, <2>1 DEF Spawn, Phase, TypeOK
    <2>. QED BY <1>3, <2>2, <1>1 DEF Spawn
  <1>4. CASE CloseListener
    <2>1. CASE listener
      <3>1. PICK S \in SUBSET Conns : S = {c \in Conns : conn[c] = "backlog"} OBVIOUS
      <3>2. \A c \in S : Phase[c] = "open" BY <3>1 DEF Phase
      <3>3. Phase' = [c \in Conns |-> IF c \in S THEN "closed" ELSE Phase[c]]
        BY <1>4, <2>1, <3>1 DEF CloseListener, Phase, TypeOK
      <3>4. Service!Close(S)
        BY <1>4, <3>2, <3>3 DEF CloseListener, Service!Close, Phase
      <3>. QED BY <3>4 DEF Service!Next
    <2>2. CASE ~listener
      BY <1>4, <2>2, <1>1 DEF CloseListener, Phase
    <2>. QED BY <2>1, <2>2
  <1>5. ASSUME NEW c \in Conns, Accept(c)
        PROVE  UNCHANGED Service!vars
    <2>1. Phase' = Phase BY <1>5 DEF Accept, Phase, TypeOK
    <2>. QED BY <1>5, <2>1, <1>1 DEF Accept
  <1>6. ASSUME NEW c \in Conns, Connect(c)
        PROVE  Service!Connect(c)
    <2>1. Phase[c] = "new" BY <1>6 DEF Connect, Phase
    <2>2. Phase' = [Phase EXCEPT ![c] = "open"] BY <1>6 DEF Connect, Phase, TypeOK
    <2>. QED BY <1>6, <2>1, <2>2 DEF Connect, Service!Connect, Phase
  <1>7. ASSUME NEW c \in Conns, Handling(c)
        PROVE  Service!Decide(c) \/ Service!Reply(c) \/ UNCHANGED Service!vars
    <2>1. conn[c] \in Working \ {"release"} /\ conn'[c] \in Working /\ Phase' = Phase
      BY <1>7 DEF Handling, Begin, Read, Check, Late, Unmarshalled, InTime, Write, CountOutcome,
         Step, TypeOK, Working, Waited, Phase
    <2>2. Phase[c] = "open" BY <2>1 DEF Phase, Working
    <2>3. CASE Begin(c) \/ InTime(c) \/ CountOutcome(c)
      BY <2>3, <2>1, <1>1 DEF Begin, InTime, CountOutcome
    <2>4. CASE Check(c)
      <3>1. verdict[c] = "none" /\ answer[c] = "none"
        BY <2>4 DEF Check, Step, Progress, TypeOK
      <3>2. Service!Decide(c)
        BY <2>4, <3>1, <2>1, <2>2 DEF Check, Service!Decide, Phase
      <3>. QED BY <3>2
    <2>5. CASE Read(c) \/ Late(c) \/ Unmarshalled(c) \/ Write(c)
      <3>1. answer[c] = "none" /\ verdict' = verdict
        BY <2>5 DEF Read, Late, Unmarshalled, Write, FailOpen, Step, Progress, TypeOK
      <3>2. CASE answer' = answer
        BY <3>1, <3>2, <2>1, <1>1
      <3>3. CASE answer' = [answer EXCEPT ![c] = "PERMIT"]
        <4>1. Service!Reply(c)
          BY <3>1, <3>3, <2>1, <2>2 DEF Service!Reply, Phase
        <4>. QED BY <4>1
      <3>4. CASE answer' = [answer EXCEPT ![c] = verdict[c]] /\ conn[c] = "write"
        <4>1. verdict[c] \in {"PERMIT", "BLOCK"} BY <3>4 DEF Progress, TypeOK
        <4>2. Service!Reply(c)
          BY <3>1, <3>4, <4>1, <2>1, <2>2 DEF Service!Reply, Phase
        <4>. QED BY <4>2
      <3>. QED BY <2>5, <3>2, <3>3, <3>4 DEF Read, Late, Unmarshalled, Write, FailOpen, Step
    <2>. QED BY <1>7, <2>3, <2>4, <2>5 DEF Handling
  <1>8. ASSUME NEW c \in Conns, Release(c)
        PROVE  Service!Close({c})
    <2>1. Phase[c] = "open" BY <1>8 DEF Release, Step, Phase
    <2>2. Phase' = [d \in Conns |-> IF d \in {c} THEN "closed" ELSE Phase[d]]
      BY <1>8 DEF Release, Step, Phase, TypeOK
    <2>. QED BY <1>8, <2>1, <2>2 DEF Release, Service!Close, Phase
  <1>9. ASSUME NEW c \in Conns, Done(c)
        PROVE  UNCHANGED Service!vars
    <2>1. Phase' = Phase BY <1>9 DEF Done, Step, Phase, TypeOK
    <2>. QED BY <1>9, <2>1, <1>1 DEF Done
  <1>10. ASSUME NEW c \in Conns, Service!Close({c})
         PROVE  Service!Next
    BY <1>10 DEF Service!Next
  <1>. QED BY <1>2, <1>3, <1>4, <1>5, <1>6, <1>7, <1>8, <1>9, <1>10, Steps DEF Service!Next

\* The socket server is a VerdictService: one answer per connection, BLOCK only when the
\* pipeline said so.
THEOREM Implements == Spec => ImplementsVerdictService
  <1>1. Inv /\ [Next]_vars => [Service!Next]_Service!vars
    <2>1. ASSUME Inv, UNCHANGED vars PROVE UNCHANGED Service!vars
      BY <2>1 DEF vars, conns, Service!vars
    <2>. QED BY <2>1, ServiceNext
  <1>. QED BY <1>1, ServiceInit, Invariance, PTL DEF Spec, ImplementsVerdictService, Service!Spec
=============================================================================
