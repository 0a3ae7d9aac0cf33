------------------------------ MODULE WebModule ------------------------------
(***************************************************************************)
(* The web server modules, module/nginx/ngx_http_aiss_module.c and         *)
(* module/apache/mod_aiss.c: the clients of the agent's socket. Both look  *)
(* the client's address up in a verdict cache in shared memory, ask the    *)
(* agent on a miss, store the verdict, and pass the request unless the     *)
(* agent answered BLOCK (Fail-Open).                                       *)
(*                                                                         *)
(* The cache has no lock: every field that check reads and store writes is *)
(* a step. The worker processes, and the two servers on one machine, share *)
(* it. Each request has a worker of its own here; requests that share an   *)
(* nginx worker take turns, which only removes interleavings.              *)
(*                                                                         *)
(* nginx itself is external: a body is read asynchronously, and a handler  *)
(* finalized with NGX_DECLINED is called again by the phase engine.        *)
(***************************************************************************)
EXTENDS Integers, FiniteSets

CONSTANTS
  Reqs,       \* main requests to locations where the module is enabled
  Addrs,      \* client addresses
  Buckets,    \* buckets of the cache
  AddrOf,     \* AddrOf[r]: the client's address
  BucketOf,   \* BucketOf[a]: aiss_fnv1a(a) & (AISS_SHM_BUCKETS - 1)
  ServerOf,   \* ServerOf[r]: "nginx" or "apache"
  WithBody,   \* the requests with a body of a dynamic content type
  HasShm,     \* the cache could be mapped
  TimeoutMs   \* aiss_timeout, AISSTimeout

ASSUME WebAssumption == /\ AddrOf \in [Reqs -> Addrs] /\ BucketOf \in [Addrs -> Buckets]
                        /\ ServerOf \in [Reqs -> {"nginx", "apache"}]
                        /\ WithBody \subseteq Reqs /\ "none" \notin Addrs
                        /\ HasShm \in BOOLEAN /\ TimeoutMs \in Nat

VARIABLES
  entry,    \* entry[b]: the fields of the bucket; expires: how expires_at compares to now
  pc,       \* where request r is
  decided,  \* decided[r]: what the agent last decided for r
  heard,    \* heard[r]: the answer r acts on; PERMIT when there is no agent
  why,      \* why[r]: how r passed the module
  allowed   \* history: the addresses with a PERMIT answer or an unreachable agent

vars == <<entry, pc, decided, heard, why, allowed>>

Verdicts == {"PERMIT", "BLOCK"}

\* shm_open and ftruncate give zeroes: verdict 0 is PERMIT, expires_at 0 is never valid.
Init == /\ entry = [b \in Buckets |-> [ip |-> "none", verdict |-> "PERMIT", expires |-> "past"]]
        /\ pc = [r \in Reqs |-> "new"]
        /\ decided = [r \in Reqs |-> "none"] /\ heard = [r \in Reqs |-> "none"]
        /\ why = [r \in Reqs |-> "none"]
        /\ allowed = {}
-----------------------------------------------------------------------------
Bucket(r) == BucketOf[AddrOf[r]]
Live(b) == entry[b].expires = "future"
Goto(r, from, to) == pc[r] = from /\ pc' = [pc EXCEPT ![r] = to]
Pass(r, from, reason) == Goto(r, from, "passed") /\ why' = [why EXCEPT ![r] = reason]

(* The handler, and aiss_shm_check *)

Enter(r) == /\ Goto(r, "new", IF HasShm THEN "expiry" ELSE "miss")
            /\ UNCHANGED <<entry, decided, heard, why, allowed>>

CheckExpiry(r) == /\ Goto(r, "expiry", IF Live(Bucket(r)) THEN "ip" ELSE "miss")
                  /\ UNCHANGED <<entry, decided, heard, why, allowed>>

CheckIp(r) == /\ Goto(r, "ip", IF entry[Bucket(r)].ip = AddrOf[r] THEN "verdict" ELSE "miss")
              /\ UNCHANGED <<entry, decided, heard, why, allowed>>

\* A cached PERMIT passes the request; a cached BLOCK is asked again.
CheckVerdict(r) ==
  /\ IF entry[Bucket(r)].verdict = "PERMIT"
     THEN Pass(r, "verdict", "cached")
     ELSE Goto(r, "verdict", "miss") /\ UNCHANGED why
  /\ UNCHANGED <<entry, decided, heard, allowed>>

Miss(r) == /\ Goto(r, "miss", IF r \in WithBody THEN "body" ELSE "connect")
           /\ UNCHANGED <<entry, decided, heard, why, allowed>>

\* The sample is read; in nginx a failed read ends the request with the error instead.
ReadBody(r) == /\ \/ Goto(r, "body", "connect")
                  \/ ServerOf[r] = "nginx" /\ Goto(r, "body", "refused")
               /\ UNCHANGED <<entry, decided, heard, why, allowed>>
-----------------------------------------------------------------------------
(* The round trip *)

MutTimed == TimeoutMs > 999
\* tv_usec is TimeoutMs * 1000: the kernel takes 0 as no timeout and refuses a million.
Timed == TimeoutMs \in 1 .. 999

\* The answer is acted on after it has been stored.
Hear(r, from, a) ==
  /\ Goto(r, from, IF HasShm THEN "storeIp" ELSE "act")
  /\ heard' = [heard EXCEPT ![r] = a]
  /\ allowed' = IF a = "PERMIT" THEN allowed \cup {AddrOf[r]} ELSE allowed

Connected(r) == /\ Goto(r, "connect", "transact")
                /\ UNCHANGED <<entry, decided, heard, why, allowed>>

\* No listener, or a full backlog for TimeoutMs: stored as PERMIT.
Unreachable(r) == /\ Hear(r, "connect", "PERMIT")
                  /\ decided' = [decided EXCEPT ![r] = "none"]
                  /\ UNCHANGED <<entry, why>>

\* Mutant: what is not PERMIT is a BLOCK.
MutReply(r) == /\ \E v \in Verdicts, a \in Verdicts :
                    /\ a = "PERMIT" => v = "PERMIT"
                    /\ decided' = [decided EXCEPT ![r] = v]
                    /\ Hear(r, "transact", a)
               /\ UNCHANGED <<entry, why>>
\* The agent answers with its decision, or PERMIT (VerdictService), and an answer cut off
\* before the action, or without one, reads as PERMIT.
Reply(r) == /\ \E v \in Verdicts, a \in Verdicts :
                 /\ a = "BLOCK" => v = "BLOCK"
                 /\ decided' = [decided EXCEPT ![r] = v]
                 /\ Hear(r, "transact", a)
            /\ UNCHANGED <<entry, why>>

\* Mutant: the failure is stored like an answer.
MutFailed(r) == /\ Goto(r, "transact", "storeIp")
                /\ decided' = [decided EXCEPT ![r] = "none"]
                /\ heard' = [heard EXCEPT ![r] = "failed"]
                /\ UNCHANGED <<entry, why, allowed>>
\* No byte of an answer in time, or the connection is closed: not stored.
Failed(r) == /\ Goto(r, "transact", "act")
             /\ decided' = [decided EXCEPT ![r] = "none"]
             /\ heard' = [heard EXCEPT ![r] = "failed"]
             /\ UNCHANGED <<entry, why, allowed>>
-----------------------------------------------------------------------------
(* aiss_shm_store *)

\* Mutant: expires_at is set first.
MutStoreIp(r) ==
  /\ Goto(r, "storeIp", "storeVerdict")
  /\ entry' = [entry EXCEPT ![Bucket(r)].ip = AddrOf[r], ![Bucket(r)].expires = "future"]
  /\ UNCHANGED <<decided, heard, why, allowed>>
StoreIp(r) == /\ Goto(r, "storeIp", "storeVerdict")
              /\ entry' = [entry EXCEPT ![Bucket(r)].ip = AddrOf[r]]
              /\ UNCHANGED <<decided, heard, why, allowed>>

StoreVerdict(r) == /\ Goto(r, "storeVerdict", "storeExpires")
                   /\ entry' = [entry EXCEPT ![Bucket(r)].verdict = heard[r]]
                   /\ UNCHANGED <<decided, heard, why, allowed>>

StoreExpires(r) == /\ Goto(r, "storeExpires", "act")
                   /\ entry' = [entry EXCEPT ![Bucket(r)].expires = "future"]
                   /\ UNCHANGED <<decided, heard, why, allowed>>

\* The clock passes expires_at.
Expire(b) == /\ Live(b)
             /\ entry' = [entry EXCEPT ![b].expires = "past"]
             /\ UNCHANGED <<pc, decided, heard, why, allowed>>
-----------------------------------------------------------------------------
(* The verdict is acted on *)

\* nginx's phase engine calls the handler again after the body callback's NGX_DECLINED.
RunPhases(r) == Goto(r, "act", "new") /\ UNCHANGED why

Decline(r) == IF ServerOf[r] = "nginx" /\ r \in WithBody
              THEN RunPhases(r)
              ELSE Pass(r, "act", heard[r])

Act(r) == /\ IF heard[r] = "BLOCK" THEN Goto(r, "act", "forbidden") /\ UNCHANGED why
             ELSE Decline(r)
          /\ UNCHANGED <<entry, decided, heard, allowed>>

Local(r) == \/ Enter(r) \/ CheckExpiry(r) \/ CheckIp(r) \/ CheckVerdict(r) \/ Miss(r)
            \/ ReadBody(r) \/ StoreIp(r) \/ StoreVerdict(r) \/ StoreExpires(r) \/ Act(r)
Remote(r) == Connected(r) \/ Unreachable(r) \/ Reply(r) \/ Failed(r)

Next == (\E r \in Reqs : Local(r) \/ Remote(r)) \/ \E b \in Buckets : Expire(b)

Spec == Init /\ [][Next]_vars

\* Workers run and clients send what they announce; the agent may be silent for good, and
\* then only a timeout ends a round trip.
FairSpec == Spec /\ \A r \in Reqs : WF_vars(Local(r)) /\ WF_vars(Timed /\ Remote(r))
-----------------------------------------------------------------------------
(* Properties *)

Ended == {"passed", "forbidden", "refused"}
Stored == {"storeIp", "storeVerdict", "storeExpires"}

Entries == [ip: Addrs \cup {"none"}, verdict: Verdicts, expires: {"past", "future"}]

TypeOK == /\ entry \in [Buckets -> Entries]
          /\ pc \in [Reqs -> Ended \cup Stored \cup
                      {"new", "expiry", "ip", "verdict", "miss", "body", "connect",
                       "transact", "act"}]
          /\ decided \in [Reqs -> Verdicts \cup {"none"}]
          /\ heard \in [Reqs -> Verdicts \cup {"none", "failed"}]
          /\ \A r \in Reqs : pc[r] \in Stored => heard[r] \in Verdicts
          /\ why \in [Reqs -> {"none", "cached", "failed", "PERMIT"}]
          /\ allowed \subseteq Addrs

\* Fail-Open: 403 only when the agent decided BLOCK for this very request, whatever the
\* cache holds, however the transaction ends and however often the handler is run.
ForbiddenIsDecided == \A r \in Reqs : pc[r] = "forbidden" => decided[r] = "BLOCK"

Alone(a) == \A x \in Addrs : BucketOf[x] = BucketOf[a] => x = a

\* The cache needs no lock for an address that has its bucket to itself: however reads and
\* stores of several workers interleave, it passes a request only for an address that was
\* permitted before.
CachedIfAllowed ==
  \A r \in Reqs : (why[r] = "cached" /\ Alone(AddrOf[r])) => AddrOf[r] \in allowed

\* A request ends while the agent is silent, if its phase runs once (all but those nginx
\* reads a body for).
EndsWithoutAgent ==
  \A r \in Reqs : ~(ServerOf[r] = "nginx" /\ r \in WithBody) =>
                    (pc[r] = "miss") ~> (pc[r] \in Ended)
=============================================================================
