------------------------------ MODULE Pipeline ------------------------------
(***************************************************************************)
(* The Go agent's security pipeline, internal/security/pipeline.go, over   *)
(* the local database (Store). Worker goroutines of the socket server run  *)
(* Check concurrently, each on one request; the signal goroutine reloads   *)
(* the rules on SIGHUP and, at the end, main closes the store.             *)
(*                                                                         *)
(* Check is split where it reads or writes shared state: the IP verdict    *)
(* cache, the loaded CVE patterns, the file hash cache, the loaded YARA    *)
(* rules and the write queue. What a detector computes from the request    *)
(* alone (SQLi/XSS, magic bytes, ML score) is part of the request.         *)
(* Telemetry is one Send per reported reply (module TelemetryBuffer).      *)
(***************************************************************************)
EXTENDS Store

CONSTANTS
  Workers,    \* worker goroutines
  Requests,   \* requests, see RequestType
  IPs,        \* client addresses
  Contents,   \* SHA-256 classes of scan targets
  Sigs,       \* CVE patterns a patterns file can hold
  Marks,      \* YARA rules a rules directory can hold
  MarksOf,    \* MarksOf[c]: the YARA rules that match content c
  Types,      \* declared Content-Types
  SpoofedAs,  \* SpoofedAs[t]: the contents ValidateMagicBytes blocks when t is declared
  MaxChecks,  \* bound on the number of requests
  MaxReloads  \* bound on the number of SIGHUPs

RequestType == [ip: IPs, static: BOOLEAN, sigs: SUBSET Sigs, injection: BOOLEAN,
                type: Types, large: BOOLEAN, targets: Seq(Contents), anomalous: BOOLEAN]

ASSUME PipelineAssumption ==
  /\ Keys = IPs \cup Contents /\ IPs \cap Contents = {} /\ Expiring = IPs
  /\ Values = {"BLOCK", "PERMIT", "MALICIOUS", "CLEAN"}
  /\ Requests \subseteq RequestType /\ Requests # {}
  /\ MarksOf \in [Contents -> SUBSET Marks]
  /\ SpoofedAs \in [Types -> SUBSET Contents]
  /\ MaxChecks \in Nat /\ MaxReloads \in Nat

VARIABLES
  mode,      \* "enforce" or "shadow", fixed at start
  patterns,  \* tier1Engine: the loaded CVE patterns
  rules,     \* yaraEngine: the loaded YARA rules
  reload,    \* where the signal goroutine is in ReloadRules
  req,       \* req[w]: the request worker w checks (or checked last)
  pc,        \* where worker w is in Check
  target,    \* target[w]: index of the scan target inspectContent is at
  reply,     \* reply[w]: what Check returned, until it is written to the connection
  checks, reloads,  \* requests and SIGHUPs so far
  must       \* history: the CVE patterns loaded throughout the check of w

workerVars == <<req, pc, target, reply>>
ruleVars == <<patterns, rules, reload, reloads>>
vars == <<storeVars, mode, ruleVars, workerVars, checks, must>>

NoReply == [action |-> "none", why |-> "none", reported |-> FALSE]
SomeRequest == CHOOSE r \in Requests : TRUE
Replies == [action: {"PERMIT", "BLOCK"}, reported: BOOLEAN,
            why: {"static", "cached", "cve", "injection", "content", "ml", "passed"}]

Init == /\ StoreInit
        /\ mode \in {"enforce", "shadow"}
        /\ patterns = Sigs /\ rules = Marks
        /\ reload = "idle"
        /\ req = [w \in Workers |-> SomeRequest]
        /\ pc = [w \in Workers |-> "idle"]
        /\ target = [w \in Workers |-> 1]
        /\ reply = [w \in Workers |-> NoReply]
        /\ checks = 0 /\ reloads = 0
        /\ must = [w \in Workers |-> {}]
-----------------------------------------------------------------------------
(* Replies *)

Goto(w, label) == /\ pc' = [pc EXCEPT ![w] = label]
                  /\ UNCHANGED <<req, reply>>

Answer(w, r) == /\ reply' = [reply EXCEPT ![w] = r]
                /\ pc' = [pc EXCEPT ![w] = "reply"]
                /\ UNCHANGED <<req, target>>

MutBlock(w, why) ==
  Answer(w, [action   |-> IF mode = "shadow" /\ why # "cached" THEN "PERMIT" ELSE "BLOCK",
             why |-> why, reported |-> TRUE])
\* block(): shadow mode turns the verdict into a PERMIT; both are reported.
Block(w, why) ==
  Answer(w, [action   |-> IF mode = "shadow" THEN "PERMIT" ELSE "BLOCK",
             why |-> why, reported |-> TRUE])

Permit(w, why, reported) ==
  Answer(w, [action |-> "PERMIT", why |-> why, reported |-> reported])

Unshared == UNCHANGED <<storeVars, mode, ruleVars, checks, must>>
-----------------------------------------------------------------------------
(* Check, run by worker w *)

IP(w) == req[w].ip
Content(w) == req[w].targets[target[w]]

\* A connection's request reaches Check; static files are answered at once.
Begin(w, r) ==
  /\ pc[w] = "idle" /\ ~quit /\ checks < MaxChecks
  /\ checks' = checks + 1
  /\ req' = [req EXCEPT ![w] = r]
  /\ must' = [must EXCEPT ![w] = patterns]
  /\ IF r.static
     THEN /\ reply' = [reply EXCEPT ![w] =
                         [action |-> "PERMIT", why |-> "static", reported |-> FALSE]]
          /\ pc' = [pc EXCEPT ![w] = "reply"]
     ELSE pc' = [pc EXCEPT ![w] = "lookup"] /\ UNCHANGED reply
  /\ UNCHANGED <<storeVars, mode, ruleVars, target>>

\* The verdict cache answers for the address, with no scan and, on PERMIT, no telemetry.
\* A read that fails is a miss.
Lookup(w) ==
  /\ pc[w] = "lookup"
  /\ \/ "BLOCK" \in Get(IP(w)) /\ Block(w, "cached")
     \/ "PERMIT" \in Get(IP(w)) /\ Permit(w, "cached", FALSE)
     \/ None \in Get(IP(w)) /\ Goto(w, "tier1") /\ UNCHANGED target
  /\ Unshared

\* Tier 1 scans with the patterns loaded now; tier 2 and the choice of scan targets
\* depend on the request only. A large body is scanned asynchronously, for the log.
Tier1(w) ==
  /\ pc[w] = "tier1"
  /\ \/ /\ req[w].sigs \cap patterns # {}
        /\ Goto(w, "cve") /\ UNCHANGED target
     \/ /\ req[w].sigs \cap patterns = {}
        /\ \/ req[w].injection /\ Block(w, "injection")
           \/ /\ ~req[w].injection
              /\ target' = [target EXCEPT ![w] = 1]
              /\ Goto(w, IF req[w].large \/ req[w].targets = <<>> THEN "ml" ELSE "hash")
  /\ Unshared

\* Mutant: the match is cached, but the check goes on to the scorer.
MutCVEMatch(w) == /\ pc[w] = "cve"
                  /\ AsyncWrite(IP(w), "BLOCK")
                  /\ Goto(w, "ml") /\ UNCHANGED target
                  /\ UNCHANGED <<mode, ruleVars, checks, must>>
\* A tier 1 match is cached for the address, in shadow mode too.
CVEMatch(w) == /\ pc[w] = "cve"
               /\ AsyncWrite(IP(w), "BLOCK")
               /\ Block(w, "cve")
               /\ UNCHANGED <<mode, ruleVars, checks, must>>

\* inspectContent: the hash of the target may be known, whatever type it was declared as
\* when it was recorded. A known clean target ends the inspection of the whole body.
Hash(w) ==
  /\ pc[w] = "hash"
  /\ \/ "MALICIOUS" \in Get(Content(w)) /\ Block(w, "content")
     \/ "CLEAN" \in Get(Content(w)) /\ Goto(w, "ml") /\ UNCHANGED target
     \/ /\ None \in Get(Content(w))
        /\ Goto(w, IF Content(w) \in SpoofedAs[req[w].type] THEN "malicious" ELSE "yara")
        /\ UNCHANGED target
  /\ Unshared

Yara(w) ==
  /\ pc[w] = "yara"
  /\ Goto(w, IF MarksOf[Content(w)] \cap rules # {} THEN "malicious" ELSE "clean")
  /\ UNCHANGED target
  /\ Unshared

Malicious(w) == /\ pc[w] = "malicious"
                /\ AsyncWrite(Content(w), "MALICIOUS")
                /\ Block(w, "content")
                /\ UNCHANGED <<mode, ruleVars, checks, must>>

Clean(w) ==
  /\ pc[w] = "clean"
  /\ AsyncWrite(Content(w), "CLEAN")
  /\ IF target[w] = Len(req[w].targets)
     THEN Goto(w, "ml") /\ UNCHANGED target
     ELSE Goto(w, "hash") /\ target' = [target EXCEPT ![w] = @ + 1]
  /\ UNCHANGED <<mode, ruleVars, checks, must>>

\* Tier 3, and the verdict cached when every check passed.
ML(w) ==
  /\ pc[w] = "ml"
  /\ \/ req[w].anomalous /\ Block(w, "ml") /\ UNCHANGED storeVars
     \/ ~req[w].anomalous /\ AsyncWrite(IP(w), "PERMIT") /\ Permit(w, "passed", TRUE)
  /\ UNCHANGED <<mode, ruleVars, checks, must>>

\* handleConn writes the reply and the worker is free for the next connection.
Respond(w) == /\ pc[w] = "reply"
              /\ pc' = [pc EXCEPT ![w] = "idle"]
              /\ req' = [req EXCEPT ![w] = SomeRequest]
              /\ target' = [target EXCEPT ![w] = 1]
              /\ reply' = [reply EXCEPT ![w] = NoReply]
              /\ must' = [must EXCEPT ![w] = {}]
              /\ UNCHANGED <<storeVars, mode, ruleVars, checks>>

Check(w) == \/ Lookup(w) \/ Tier1(w) \/ CVEMatch(w) \/ Hash(w) \/ Yara(w)
            \/ Malicious(w) \/ Clean(w) \/ ML(w) \/ Respond(w)
-----------------------------------------------------------------------------
(* The signal goroutine and main *)

\* Mutant: the table is cleared before a load that then fails.
MutReloadPatterns ==
  /\ reload = "idle" /\ reloads < MaxReloads
  /\ reload' = "rules" /\ patterns' = {}
  /\ reloads' = reloads + 1
  /\ UNCHANGED <<storeVars, mode, rules, workerVars, checks, must>>
\* SIGHUP: tier1Engine.Load compiles the file aside and swaps; an error keeps the old.
ReloadPatterns ==
  /\ reload = "idle" /\ ~quit /\ reloads < MaxReloads
  /\ \E loaded \in SUBSET Sigs :
       /\ patterns' = loaded
       /\ must' = [w \in Workers |-> must[w] \cap loaded]
  /\ reload' = "rules" /\ reloads' = reloads + 1
  /\ UNCHANGED <<storeVars, mode, rules, workerVars, checks>>

ReloadYara ==
  /\ reload = "rules"
  /\ \E loaded \in SUBSET Marks : rules' = loaded
  /\ reload' = "idle"
  /\ UNCHANGED <<storeVars, mode, patterns, reloads, workerVars, checks, must>>

\* SIGTERM: srv.Stop waits for the workers, Start returns and main closes the store.
Shutdown == /\ \A w \in Workers : pc[w] = "idle"
            /\ reload = "idle"
            /\ Close
            /\ UNCHANGED <<mode, ruleVars, workerVars, checks, must>>

StoreStep(A) == A /\ UNCHANGED <<mode, ruleVars, workerVars, checks, must>>

Next == \/ \E w \in Workers : (\E r \in Requests : Begin(w, r)) \/ Check(w)
        \/ ReloadPatterns \/ ReloadYara \/ Shutdown
        \/ StoreStep(Writer) \/ \E k \in Keys : StoreStep(Expire(k))

Spec == Init /\ [][Next]_vars

\* Goroutines run: the writer, and every worker that is in the middle of a check.
Fairness == /\ WF_vars(StoreStep(Writer))
            /\ \A w \in Workers : WF_vars(Check(w))
FairSpec == Spec /\ Fairness
-----------------------------------------------------------------------------
(* Properties *)

TypeOK == /\ StoreTypeOK
          /\ mode \in {"enforce", "shadow"}
          /\ patterns \subseteq Sigs /\ rules \subseteq Marks
          /\ reload \in {"idle", "rules"}
          /\ req \in [Workers -> Requests]
          /\ pc \in [Workers -> {"idle", "lookup", "tier1", "cve", "hash", "yara",
                                 "malicious", "clean", "ml", "reply"}]
          /\ target \in [Workers -> Nat \ {0}]
          /\ \A w \in Workers : pc[w] \in {"hash", "yara", "malicious", "clean"} =>
                                  target[w] <= Len(req[w].targets)
          /\ reply \in [Workers -> Replies \cup {NoReply}]
          /\ checks \in 0 .. MaxChecks /\ reloads \in 0 .. MaxReloads
          /\ must \in [Workers -> SUBSET Sigs]

\* "Shadow mode: pipeline detects threats but always returns PERMIT" (README.md:49), also
\* for an address whose BLOCK is cached.
ShadowNeverBlocks == mode = "shadow" => \A w \in Workers : reply[w].action # "BLOCK"

\* No check of address i can still end by caching PERMIT, and none is queued.
NoPermitComing(i) ==
  /\ \A j \in DOMAIN Pending : Pending[j].key = i => Pending[j].val # "PERMIT"
  /\ \A w \in Workers : IP(w) = i =>
       pc[w] \in {"idle", "lookup", "cve", "malicious", "reply"}

\* A check of address i goes past the verdict cache; with a BLOCK in it, its read failed.
PassesCache(i) == \E w \in Workers : IP(w) = i /\ pc[w] = "lookup" /\ pc'[w] = "tier1"

\* A BLOCK in the verdict cache holds until it expires, once no check that looked the
\* address up before is left: concurrent checks, late writes and lost batches included.
\* One thing can undo it, a check of the address whose read of the cache fails.
BlockHolds ==
  [][\A i \in IPs :
       (row[i].val = "BLOCK" /\ NoPermitComing(i)) =>
         /\ row'[i].val \in {"BLOCK", None}
         /\ (row'[i].val = "BLOCK" /\ ~PassesCache(i)) => NoPermitComing(i)']_vars

\* Hot reload leaves no gap: a request is not passed when a pattern that matches it was
\* loaded from the beginning of its check to the end.
NoScanGap == \A w \in Workers : reply[w].why = "passed" => req[w].sigs \cap must[w] = {}
=============================================================================
