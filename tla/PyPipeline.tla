------------------------------ MODULE PyPipeline ------------------------------
(***************************************************************************)
(* The Python agent's security pipeline, agent/security/pipeline.py, over  *)
(* its local database (PyStore). Worker threads of the socket server       *)
(* (PySocketServer) run check concurrently, each on the request of one     *)
(* connection, while reload_rules may replace the CVE patterns and then    *)
(* the YARA rules, and the database may be closed.                         *)
(*                                                                         *)
(* check is split where it reads or writes shared state: the patterns and  *)
(* the YARA rules (each read once, under a lock), the file hash cache and  *)
(* the write queue. What a detector computes from the request alone (SQLi  *)
(* and XSS, magic bytes, the anomaly score) is part of the request. Unlike *)
(* the Go agent it keeps no verdict cache by address. The telemetry event  *)
(* of every decision but a static file's is one send (module PyTelemetry).  *)
(***************************************************************************)
EXTENDS PyStore

CONSTANTS
  Calls,      \* calls of check, one for each connection
  Contents,   \* the contents a body can have; a row of file_hashes for each SHA-256
  Requests,   \* requests, see RequestType
  Sigs,       \* CVE patterns a patterns file can hold
  Marks,      \* YARA rules a rules directory can hold
  MarksOf,    \* MarksOf[k]: the YARA rules that match content k
  Types,      \* declared Content-Types
  SpoofedAs,  \* SpoofedAs[t]: the contents validate_content_type blocks when t is declared
  MaxReloads  \* bound on the number of reload_rules calls

\* size: "none" for no body or a content type that is not inspected, then up to 10 KB,
\* up to 1 MB and beyond. parts: the body and what decodes from it as Base64, or the
\* three samples.
RequestType == [static: BOOLEAN, sigs: SUBSET Sigs, injection: BOOLEAN, anomalous: BOOLEAN,
                type: Types, size: {"none", "full", "sampled", "large"}, parts: Seq(Contents)]

ASSUME PyPipelineAssumption ==
  /\ Contents \subseteq Keys \ Addresses
  /\ {"MALICIOUS", "CLEAN"} \subseteq Values
  /\ Requests \subseteq RequestType /\ Requests # {}
  /\ MarksOf \in [Contents -> SUBSET Marks]
  /\ SpoofedAs \in [Types -> SUBSET Contents]
  /\ MaxReloads \in Nat

VARIABLES
  mode,      \* self.mode: "enforce" or "shadow", fixed at start
  patterns,  \* tier1._patterns
  rules,     \* yara._rules; {} before any file could be compiled
  reload,    \* where reload_rules is
  reloads,   \* reload_rules calls so far
  req,       \* req[c]: the request of call c
  stage,     \* where call c is
  target,    \* target[c]: index of the scan target _inspect_content is at
  found,     \* found[c]: what the scan of that target found
  decision,  \* decision[c]: what check returned
  must,      \* history: the patterns loaded throughout call c
  judged     \* history: judged[k]: the types content k was scanned as

ruleVars == <<patterns, rules, reload, reloads>>
checkVars == <<req, stage, target, found, decision, must, judged>>
pipelineVars == <<storeVars, mode, ruleVars, checkVars>>

SomeRequest == CHOOSE r \in Requests : TRUE

PipelineInit == /\ StoreInit
                /\ mode \in {"enforce", "shadow"}
                /\ patterns = Sigs /\ rules = Marks
                /\ reload = "idle" /\ reloads = 0
                /\ req = [c \in Calls |-> SomeRequest]
                /\ stage = [c \in Calls |-> "new"]
                /\ target = [c \in Calls |-> 1]
                /\ found = [c \in Calls |-> "none"]
                /\ decision = [c \in Calls |-> "none"]
                /\ must = [c \in Calls |-> {}]
                /\ judged = [k \in Contents |-> {}]
-----------------------------------------------------------------------------
(* Verdicts *)

Decide(c, action) == /\ decision' = [decision EXCEPT ![c] = action]
                     /\ stage' = [stage EXCEPT ![c] = "decided"]

\* _make_verdict: shadow mode permits what it would block.
Block(c) == Decide(c, IF mode = "shadow" THEN "PERMIT" ELSE "BLOCK")

Permit(c) == Decide(c, "PERMIT")

Proceed(c, label) == stage' = [stage EXCEPT ![c] = label] /\ UNCHANGED decision
-----------------------------------------------------------------------------
(* check, in call c *)

\* The request r reaches check. The static skip looks at the URI only.
Begin(c, r) ==
  /\ stage[c] = "new"
  /\ req' = [req EXCEPT ![c] = r]
  /\ must' = [must EXCEPT ![c] = patterns]
  /\ IF r.static THEN Permit(c) ELSE Proceed(c, "tier1")
  /\ UNCHANGED <<storeVars, target, found, judged>>

\* Tier1PatternEngine.scan works on a copy of the list it finds loaded.
Matched(c) == req[c].sigs \cap patterns # {}

\* The scan of a large body is deferred, which means that there is none.
Targets(r) == IF r.size \in {"full", "sampled"} THEN r.parts ELSE <<>>

\* Tier 1, tier 2 and the choice of what to scan.
Tier1(c) ==
  /\ stage[c] = "tier1"
  /\ IF Matched(c) THEN Block(c)
     ELSE IF req[c].injection THEN Block(c)
     ELSE Proceed(c, IF Targets(req[c]) = <<>> THEN "ml" ELSE "hash")
  /\ UNCHANGED <<storeVars, req, target, found, must, judged>>

Content(c) == Targets(req[c])[target[c]]

MutHashClean(c) == Permit(c)
\* A hash known to be clean ends the inspection, whatever targets are left.
HashClean(c) == Proceed(c, "ml")

\* get_file_hash for the next target: the row is that of the bytes, whatever type they
\* were declared as. A read that fails, as it does once the store is closed, raises.
HashLookup(c) ==
  /\ stage[c] = "hash"
  /\ \/ Proceed(c, "raised")
     \/ /\ conn = "open"
        /\ IF ~Found(Content(c)) THEN Proceed(c, "scan")
           ELSE IF row[Content(c)].value = "MALICIOUS" THEN Block(c)
           ELSE HashClean(c)
  /\ UNCHANGED <<storeVars, req, target, found, must, judged>>

\* The magic bytes are those of a dangerous file, or not of the type this request declares.
Spoofs(c) == Content(c) \in SpoofedAs[req[c].type]

\* With the rules that are loaded now, if any.
YaraMatches(c) == MarksOf[Content(c)] \cap rules # {}

\* Magic bytes first, then YARA. A match may also be missed: yara's timeout and errors
\* are logged.
Scan(c) ==
  /\ stage[c] = "scan"
  /\ \/ (Spoofs(c) \/ YaraMatches(c)) /\ found' = [found EXCEPT ![c] = "MALICIOUS"]
     \/ ~Spoofs(c) /\ found' = [found EXCEPT ![c] = "CLEAN"]
  /\ judged' = [judged EXCEPT ![Content(c)] = @ \cup {req[c].type}]
  /\ Proceed(c, "record")
  /\ UNCHANGED <<storeVars, req, target, must>>

MutRecordedKey(c) == Targets(req[c])[1]
RecordedKey(c) == Content(c)

\* store_file_hash queues the finding; then the block, the next target or tier 3.
Record(c) ==
  /\ stage[c] = "record"
  /\ Replace(RecordedKey(c), found[c])
  /\ found' = [found EXCEPT ![c] = "none"]
  /\ IF found[c] = "MALICIOUS" THEN Block(c) /\ UNCHANGED target
     ELSE IF target[c] < Len(Targets(req[c]))
     THEN target' = [target EXCEPT ![c] = @ + 1] /\ Proceed(c, "hash")
     ELSE Proceed(c, "ml") /\ UNCHANGED target
  /\ UNCHANGED <<req, must, judged>>

\* Tier 3, and the decision of a request that passed all of them.
Tier3(c) ==
  /\ stage[c] = "ml"
  /\ IF req[c].anomalous THEN Block(c) ELSE Permit(c)
  /\ UNCHANGED <<storeVars, req, target, found, must, judged>>

CheckStep(c) == \/ \E r \in Requests : Begin(c, r)
                \/ Tier1(c) \/ HashLookup(c) \/ Scan(c) \/ Record(c) \/ Tier3(c)
-----------------------------------------------------------------------------
(* reload_rules *)

\* The patterns file is read, compiled and swapped in; a file that is missing or does
\* not parse leaves the old patterns.
ReloadPatterns ==
  /\ reload = "idle" /\ reloads < MaxReloads
  /\ \E new \in SUBSET Sigs :
       /\ patterns' = new
       /\ must' = [c \in Calls |-> must[c] \cap new]
  /\ reload' = "yara" /\ reloads' = reloads + 1
  /\ UNCHANGED <<storeVars, rules, req, stage, target, found, decision, judged>>

\* The same for the YARA rules; what does not compile leaves the old ones.
ReloadYara ==
  /\ reload = "yara"
  /\ rules' \in SUBSET Marks
  /\ reload' = "idle"
  /\ UNCHANGED <<storeVars, patterns, reloads, checkVars>>

Reload == ReloadPatterns \/ ReloadYara

PipelineNext ==
  \/ \E c \in Calls : CheckStep(c) /\ UNCHANGED <<mode, ruleVars>>
  \/ Reload /\ UNCHANGED mode
  \/ (Writer \/ BeginClose \/ EndClose) /\ UNCHANGED <<mode, ruleVars, checkVars>>

PipelineSpec == PipelineInit /\ [][PipelineNext]_pipelineVars
-----------------------------------------------------------------------------
(* Properties *)

PipelineTypeOK ==
  /\ StoreTypeOK
  /\ mode \in {"enforce", "shadow"}
  /\ patterns \subseteq Sigs /\ rules \subseteq Marks
  /\ reload \in {"idle", "yara"} /\ reloads \in 0 .. MaxReloads
  /\ req \in [Calls -> Requests]
  /\ stage \in [Calls -> {"new", "tier1", "hash", "scan", "record", "ml", "decided", "raised"}]
  /\ target \in [Calls -> Nat \ {0}]
  /\ found \in [Calls -> {"none", "MALICIOUS", "CLEAN"}]
  /\ decision \in [Calls -> {"none", "PERMIT", "BLOCK"}]
  /\ must \in [Calls -> SUBSET Sigs]
  /\ judged \in [Contents -> SUBSET Types]

Harmful(k, t) == k \in SpoofedAs[t] \/ MarksOf[k] # {}

\* Only enforce mode blocks, and only what a detector has matched: something in the
\* request itself, or a target that was scanned, for this request or an earlier one, and
\* found to match a YARA rule or to be no file of the type declared then. So a row of the
\* hash cache that was written for other bytes, or for these but without a match, makes
\* no request be blocked, whatever is reloaded meanwhile; one that another request got by
\* declaring the same bytes as something else does.
BlockJustified ==
  \A c \in Calls : decision[c] = "BLOCK" =>
     /\ mode = "enforce"
     /\ \/ req[c].sigs # {} \/ req[c].injection \/ req[c].anomalous
        \/ \E i \in DOMAIN Targets(req[c]) : LET k == Targets(req[c])[i]
                                            IN  \E t \in judged[k] : Harmful(k, t)

\* In enforce mode a request that skips nothing (its URI is not that of a static file) is
\* permitted only if no pattern loaded all along matches it, it holds no injection and no
\* anomaly, and its body was scanned and is a file of the type that was declared then.
\* The type declared then may be that of an earlier request with the same body: this is
\* all that the hash cache, a reload or a closing database in the middle let pass.
DetectedIsBlocked ==
  \A c \in Calls :
     mode = "enforce" /\ decision[c] = "PERMIT" /\ ~req[c].static =>
       /\ req[c].sigs \cap must[c] = {}
       /\ ~req[c].injection /\ ~req[c].anomalous
       /\ Targets(req[c]) # <<>> => LET k == Targets(req[c])[1]
                                   IN  \E t \in judged[k] : k \notin SpoofedAs[t]
=============================================================================
