--------------------------- MODULE CveDistribution ---------------------------
(***************************************************************************)
(* How CVE signatures get from the public feeds to where requests are      *)
(* scanned: CVESyncWorker writes the table cve_signatures                  *)
(* (server/app/cve_sync.py), a thread of the server copies it into the     *)
(* cache POST /v1/inspect scans with (routers/inspect.py), and GET         *)
(* /v1/updates hands an agent what was modified since the agent's last     *)
(* synchronisation (routers/updates.py, internal/updater/cve_puller.go).   *)
(*                                                                         *)
(* Every access to the table is one window of _db_lock, hence one step;    *)
(* who waits for that lock is ServerRequests. Of a signature only the      *)
(* time it was stamped is kept (modified_at), of a feed which CVEs it      *)
(* delivers. One unit of time is _CVE_CACHE_TTL; server and agent have a   *)
(* clock each.                                                             *)
(***************************************************************************)
EXTENDS Integers, FiniteSets

CONSTANTS
  CVEs,          \* what the feeds tell of
  Handcrafted,   \* those with a built-in pattern
  NvdKey,        \* settings.nvd_api_key is set
  MaxAge,        \* age from which the cache counts as stale
  Window,        \* how far back the first pull of an agent reaches
  Skews,         \* agent's clock minus server's clock
  MaxClock,      \* bound: time
  MaxPasses,     \* bound: passes over the feeds that begin
  MaxRestarts    \* bound: restarts of the server

ASSUME CveAssumption ==
  /\ Handcrafted \subseteq CVEs /\ Handcrafted # {}
  /\ NvdKey \in BOOLEAN
  /\ {MaxAge, Window, MaxClock, MaxPasses, MaxRestarts} \subseteq Nat
  /\ Skews \subseteq Int

VARIABLES
  clock,      \* the server's clock
  sig,        \* cve_signatures: when the row of a CVE was stamped, Never without a row
  feed,       \* the feed sync_all is at, "sleep" between passes
  todo,       \* what is left to upsert of that feed
  serving,    \* the lifespan has seen the first pass to its end
  cache,      \* _cve_cache
  cachedAt,   \* _cve_cache_ts
  skew,
  lastSync,   \* the agent's last_cve_sync, Never without a row
  pull,       \* the puller: "idle", "asked" or "answered"
  since,      \* what it asked with
  delta,      \* the CVEs it was answered
  base,       \* history: the latest time asked with instead of lastSync
  syncedAt,   \* history: the server's clock when lastSync was stored
  blind,      \* history: the CVEs stamped where the agent does not look
  sent,       \* history: the CVEs of a delta that parsed, until they are stamped again
  passes, restarts

serverVars == <<sig, feed, todo, serving, cache, cachedAt, passes, restarts>>
history == <<base, syncedAt, blind, sent>>
agentVars == <<skew, lastSync, pull, since, delta>>
vars == <<clock, serverVars, agentVars, history>>

Never == -100
Empty == [c \in CVEs |-> Never]
AgentClock == clock + skew

Init == /\ clock = 0 /\ sig = Empty
        /\ feed = "handcrafted" /\ todo = Handcrafted /\ serving = FALSE
        /\ cache = Empty /\ cachedAt = 0
        /\ skew \in Skews /\ lastSync = Never
        /\ pull = "idle" /\ since = Never /\ delta = {}
        /\ base = Never /\ syncedAt = 0 /\ blind = {} /\ sent = {}
        /\ passes = 1 /\ restarts = 0

Tick == /\ clock < MaxClock /\ clock' = clock + 1
        /\ UNCHANGED <<serverVars, agentVars, history>>
-----------------------------------------------------------------------------
(* The server: one task goes over the feeds, one thread refreshes the cache *)

\* What is stamped now may escape the agent: an answer without it is on its way, or by the
\* agent's clock it is not later than the last synchronisation.
Blind == \/ pull = "answered"
         \/ lastSync # Never /\ clock - syncedAt <= skew

\* _upsert_patterns, one CVE: the row is replaced or added, and stamped.
Upsert == /\ \E c \in todo :
               /\ sig' = [sig EXCEPT ![c] = clock]
               /\ todo' = todo \ {c}
               /\ blind' = IF Blind THEN blind \cup {c} ELSE blind \ {c}
               /\ sent' = sent \ {c}
          /\ UNCHANGED <<clock, feed, serving, cache, cachedAt, passes, restarts, agentVars,
                         base, syncedAt>>

\* A feed that is done is followed by the next; a fetch that fails delivers nothing.
\* OSV leaves out what has a built-in pattern, CISA and NVD do not.
Fetch(f, known) == /\ feed' = f
                   /\ todo' \in SUBSET known
                   /\ UNCHANGED <<clock, sig, serving, cache, cachedAt, passes, restarts,
                                  agentVars, history>>

SyncCisa == feed = "handcrafted" /\ todo = {} /\ Fetch("cisa_kev", CVEs)
SyncOsv  == feed = "cisa_kev" /\ todo = {} /\ Fetch("osv", CVEs \ Handcrafted)
SyncNvd  == feed = "osv" /\ todo = {} /\ NvdKey /\ Fetch("nvd", CVEs)

\* The pass is over. The first one lets the server serve.
PassEnds == /\ todo = {} /\ feed = (IF NvdKey THEN "nvd" ELSE "osv")
            /\ feed' = "sleep"
            /\ serving' = TRUE
            /\ UNCHANGED <<clock, sig, todo, cache, cachedAt, passes, restarts, agentVars,
                           history>>

\* An upsert raises: run_forever logs it and sleeps.
PassFails == /\ serving /\ todo # {}
             /\ feed' = "sleep" /\ todo' = {}
             /\ UNCHANGED <<clock, sig, serving, cache, cachedAt, passes, restarts, agentVars,
                            history>>

\* run_forever begins a pass: at once after the lifespan's, then once an interval.
PassBegins == /\ serving /\ feed = "sleep" /\ passes < MaxPasses
              /\ feed' = "handcrafted" /\ todo' = Handcrafted
              /\ passes' = passes + 1
              /\ UNCHANGED <<clock, sig, serving, cache, cachedAt, restarts, agentVars,
                             history>>

\* The process ends, of itself if the first pass raises, and is started again.
Restart == /\ restarts < MaxRestarts /\ restarts' = restarts + 1
           /\ feed' = "handcrafted" /\ todo' = Handcrafted
           /\ serving' = FALSE
           /\ cache' = Empty /\ cachedAt' = 0
           /\ UNCHANGED <<clock, sig, passes, agentVars, history>>

MutRefresh == /\ cache' \in {sig, cache} /\ cachedAt' = clock
              /\ UNCHANGED <<clock, sig, feed, todo, serving, passes, restarts, agentVars,
                             history>>
\* _refresh_cve_cache, from five seconds after the import on; one that fails changes
\* nothing.
Refresh == /\ cache' = sig /\ cachedAt' = clock
           /\ UNCHANGED <<clock, sig, feed, todo, serving, passes, restarts, agentVars,
                          history>>

\* What _check_cve_signatures scans a request with: nothing if the cache is empty or old.
Scanned == IF clock - cachedAt <= MaxAge THEN cache ELSE Empty
-----------------------------------------------------------------------------
(* The agent: pull, at the start and at every tick of the puller *)

\* lastSyncTime; a read of agent_config that fails is taken for a missing row.
Ask == /\ pull = "idle"
       /\ since' \in {lastSync, AgentClock - Window} \ {Never}
       /\ pull' = "asked"
       /\ UNCHANGED <<clock, serverVars, skew, lastSync, delta, history>>

\* get_updates: what was modified after since.
Answer == /\ pull = "asked" /\ serving
          /\ delta' = {c \in CVEs : sig[c] # Never /\ sig[c] > since}
          /\ pull' = "answered"
          /\ UNCHANGED <<clock, serverVars, skew, lastSync, since, history>>

Idle == pull' = "idle" /\ since' = Never /\ delta' = {}

\* The server cannot be reached, the answer is lost or no 200, or the agent restarts.
NoAnswer == /\ pull \in {"asked", "answered"} /\ Idle
            /\ UNCHANGED <<clock, serverVars, skew, lastSync, history>>

\* An id is a string in the answer and an int in CVEUpdate: only an empty list parses.
Parsed == pull = "answered" /\ delta = {}

Stored == /\ lastSync' = AgentClock /\ syncedAt' = clock
          /\ base' = IF since # lastSync /\ since > base THEN since ELSE base

\* Its signatures are the agent's; the time is stored unless that write is lost
\* (internal/db/store.go).
Applied == /\ Parsed /\ Idle
           /\ sent' = sent \cup delta
           /\ Stored \/ UNCHANGED <<lastSync, syncedAt, base>>
           /\ UNCHANGED <<clock, serverVars, skew, blind>>

\* Mutant: the time is stored before the answer is parsed.
MutParseFails == /\ pull = "answered" /\ ~Parsed /\ Idle
                 /\ Stored
                 /\ UNCHANGED <<clock, serverVars, skew, blind, sent>>
\* json.Unmarshal fails: neither the patterns nor the time are stored.
ParseFails == /\ pull = "answered" /\ ~Parsed /\ Idle
              /\ UNCHANGED <<clock, serverVars, skew, lastSync, history>>
-----------------------------------------------------------------------------
Next == \/ Tick
        \/ Upsert \/ SyncCisa \/ SyncOsv \/ SyncNvd
        \/ PassEnds \/ PassFails \/ PassBegins \/ Restart \/ Refresh
        \/ Ask \/ Answer \/ NoAnswer \/ Applied \/ ParseFails

Spec == Init /\ [][Next]_vars
-----------------------------------------------------------------------------
(* Properties *)

Stamps == Nat \cup {Never}
TypeOK == /\ clock \in 0 .. MaxClock
          /\ sig \in [CVEs -> Stamps] /\ cache \in [CVEs -> Stamps] /\ cachedAt \in Nat
          /\ feed \in {"handcrafted", "cisa_kev", "osv", "nvd", "sleep"}
          /\ todo \subseteq CVEs
          /\ serving \in BOOLEAN
          /\ skew \in Skews /\ lastSync \in Int /\ since \in Int
          /\ pull \in {"idle", "asked", "answered"}
          /\ delta \subseteq CVEs
          /\ base \in Int /\ syncedAt \in Nat /\ blind \subseteq CVEs /\ sent \subseteq CVEs
          /\ passes \in Nat /\ restarts \in 0 .. MaxRestarts

\* Tier 1 scans with what the table held at most MaxAge ago, or not at all: a signature
\* it lacks, or holds in an older form, was stamped since, wherever a pass stands and
\* however often the refresh failed ("Stale cache (> 120 s) means we skip Tier 1").
RecentSetScanned ==
  Scanned # Empty => \A c \in CVEs : Scanned[c] # sig[c] =>
                       sig[c] # Never /\ clock - sig[c] <= MaxAge

\* The agent does not have the signature of c, and asks for it no more.
Skipped(c) == /\ sig[c] # Never /\ c \notin sent
              /\ lastSync # Never /\ sig[c] <= lastSync

\* No signature is skipped but one stamped before the window of a pull that did not know the
\* last synchronisation, and one stamped while an answer was on its way or, if the agent's
\* clock is ahead, no later after a synchronisation than it is ahead. An answer that does
\* not parse skips nothing, nor does one that is lost, a lost write or a restart
\* (cve_puller.go:97-164, updates.py:36-94).
OnlyBlindSkipped == \A c \in CVEs : Skipped(c) => sig[c] <= base \/ c \in blind
=============================================================================
