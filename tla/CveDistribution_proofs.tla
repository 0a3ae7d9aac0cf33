------------------------ MODULE CveDistribution_proofs ------------------------
(***************************************************************************)
(* Theorems about CveDistribution, for every set of CVEs, any bounds and   *)
(* any constant difference of the two clocks. The cache is behind the      *)
(* table only in rows stamped since it was read; the agent is behind only  *)
(* in rows it could not see stamped.                                       *)
(***************************************************************************)
EXTENDS CveDistribution, TLAPS

Agent == Ask \/ Answer \/ NoAnswer \/ Applied \/ ParseFails
Sync == Upsert \/ SyncCisa \/ SyncOsv \/ SyncNvd \/ PassEnds \/ PassFails \/ PassBegins

LEMMA Constants == /\ MaxAge \in Nat /\ Window \in Nat /\ MaxClock \in Nat
                   /\ MaxPasses \in Nat /\ MaxRestarts \in Nat
                   /\ Skews \subseteq Int /\ Handcrafted \subseteq CVEs
  BY CveAssumption DEF CveAssumption

LEMMA EmptyTable == Empty \in [CVEs -> Stamps]
  BY DEF Empty, Stamps

LEMMA InitTypeOK == Init => TypeOK
<1> SUFFICES ASSUME Init PROVE TypeOK
  OBVIOUS
<1>1. sig \in [CVEs -> Stamps] /\ cache \in [CVEs -> Stamps]
  BY EmptyTable DEF Init
<1>2. todo \subseteq CVEs
  BY Constants DEF Init
<1>3. clock \in 0 .. MaxClock /\ restarts \in 0 .. MaxRestarts
  BY Constants DEF Init
<1>4. lastSync \in Int /\ since \in Int /\ base \in Int
  BY DEF Init, Never
<1>5. feed \in {"handcrafted", "cisa_kev", "osv", "nvd", "sleep"} /\ serving \in BOOLEAN
  BY DEF Init
<1> QED
  BY <1>1, <1>2, <1>3, <1>4, <1>5 DEF Init, TypeOK

LEMMA TypeOKPreserved == TypeOK /\ [Next]_vars => TypeOK'
<1> SUFFICES ASSUME TypeOK, [Next]_vars PROVE TypeOK'
  OBVIOUS
<1> USE Constants DEF serverVars, agentVars, history
<1>1. CASE Tick
  BY <1>1 DEF TypeOK, Tick
<1>2. CASE Upsert
  <2>1. PICK c \in todo : sig' = [sig EXCEPT ![c] = clock] /\ todo' = todo \ {c}
    BY <1>2 DEF Upsert
  <2>2. sig' \in [CVEs -> Stamps] /\ todo' \subseteq CVEs
    BY <2>1 DEF TypeOK, Stamps
  <2>3. blind' \subseteq CVEs /\ sent' \subseteq CVEs
    BY <1>2 DEF TypeOK, Upsert
  <2> QED
    BY <1>2, <2>2, <2>3 DEF TypeOK, Upsert
<1>3. CASE SyncCisa
  BY <1>3 DEF TypeOK, SyncCisa, Fetch
<1>4. CASE SyncOsv
  BY <1>4 DEF TypeOK, SyncOsv, Fetch
<1>5. CASE SyncNvd
  BY <1>5 DEF TypeOK, SyncNvd, Fetch
<1>6. CASE PassEnds
  BY <1>6 DEF TypeOK, PassEnds
<1>7. CASE PassFails
  BY <1>7 DEF TypeOK, PassFails
<1>8. CASE PassBegins
  BY <1>8 DEF TypeOK, PassBegins
<1>9. CASE Restart
  <2>1. cache' \in [CVEs -> Stamps]
    BY <1>9, EmptyTable DEF Restart
  <2>2. todo' \subseteq CVEs /\ restarts' \in 0 .. MaxRestarts
    BY <1>9 DEF TypeOK, Restart
  <2> QED
    BY <1>9, <2>1, <2>2 DEF TypeOK, Restart
<1>10. CASE Refresh
  BY <1>10 DEF TypeOK, Refresh
<1>11. CASE Ask
  BY <1>11 DEF TypeOK, Ask, AgentClock
<1>12. CASE Answer
  BY <1>12 DEF TypeOK, Answer
<1>13. CASE NoAnswer
  BY <1>13 DEF TypeOK, NoAnswer, Idle, Never
<1>14. CASE Applied
  <2>1. /\ lastSync' \in Int /\ syncedAt' \in Nat /\ base' \in Int
    BY <1>14 DEF TypeOK, Applied, Stored, AgentClock
  <2>2. sent' \subseteq CVEs
    BY <1>14 DEF TypeOK, Applied
  <2> QED
    BY <1>14, <2>1, <2>2 DEF TypeOK, Applied, Idle, Never
<1>15. CASE ParseFails
  BY <1>15 DEF TypeOK, ParseFails, Idle, Never
<1>16. CASE UNCHANGED vars
  BY <1>16 DEF TypeOK, vars
<1> QED
  BY <1>1, <1>2, <1>3, <1>4, <1>5, <1>6, <1>7, <1>8, <1>9, <1>10, <1>11, <1>12, <1>13,
     <1>14, <1>15, <1>16 DEF Next

\* The variables of server and agent keep their types, over restarts and lost answers.
THEOREM TypeCorrect == Spec => []TypeOK
<1>1. Init => TypeOK
  BY InitTypeOK
<1>2. TypeOK /\ [Next]_vars => TypeOK'
  BY TypeOKPreserved
<1> QED
  BY <1>1, <1>2, PTL DEF Spec
-----------------------------------------------------------------------------
\* What lets an old cache be used: since it was read the table only gained newer stamps.
Behind == cachedAt <= clock /\ \A c \in CVEs : cache # Empty /\ cache[c] # sig[c] =>
                                 sig[c] # Never /\ sig[c] >= cachedAt

LEMMA BehindPreserved == TypeOK /\ Behind /\ [Next]_vars => Behind'
<1> SUFFICES ASSUME TypeOK, Behind, [Next]_vars PROVE Behind'
  OBVIOUS
<1> USE Constants DEF serverVars, agentVars, history, TypeOK
<1>1. CASE Tick
  BY <1>1 DEF Behind, Tick, Empty
<1>2. CASE Upsert
  <2>1. PICK c \in todo : sig' = [sig EXCEPT ![c] = clock]
    BY <1>2 DEF Upsert
  <2>2. clock # Never
    BY DEF Never
  <2>3. cache' = cache /\ cachedAt' = cachedAt /\ clock' = clock
    BY <1>2 DEF Upsert
  <2>4. ASSUME NEW d \in CVEs, cache # Empty, cache[d] # sig'[d]
        PROVE sig'[d] # Never /\ sig'[d] >= cachedAt
    BY <2>1, <2>2, <2>4 DEF Behind, Stamps
  <2> QED
    BY <2>3, <2>4 DEF Behind, Empty
<1>3. CASE SyncCisa \/ SyncOsv \/ SyncNvd \/ PassEnds \/ PassFails \/ PassBegins
  BY <1>3 DEF Behind, SyncCisa, SyncOsv, SyncNvd, Fetch, PassEnds, PassFails, PassBegins, Empty
<1>4. CASE Restart
  BY <1>4 DEF Behind, Restart, Empty
<1>5. CASE Refresh
  BY <1>5 DEF Behind, Refresh, Empty
<1>6. CASE Agent
  BY <1>6 DEF Behind, Agent, Ask, Answer, NoAnswer, Applied, ParseFails, Empty
<1>7. CASE UNCHANGED vars
  BY <1>7 DEF Behind, vars, Empty
<1> QED
  BY <1>1, <1>2, <1>3, <1>4, <1>5, <1>6, <1>7 DEF Next, Agent

\* Tier 1 of POST /v1/inspect scans with signatures not older than MaxAge or with none
\* (inspect.py:486), for any number of CVEs, feeds that fail and refreshes that fail.
THEOREM CacheRecent == Spec => []RecentSetScanned
<1>1. Init => TypeOK /\ Behind
  <2>1. Init => Behind
    BY DEF Init, Behind, Empty
  <2> QED
    BY <2>1, InitTypeOK
<1>2. TypeOK /\ Behind /\ [Next]_vars => (TypeOK /\ Behind)'
  BY TypeOKPreserved, BehindPreserved
<1>3. TypeOK /\ Behind => RecentSetScanned
  <2> SUFFICES ASSUME TypeOK, Behind, Scanned # Empty, NEW c \in CVEs, Scanned[c] # sig[c]
               PROVE sig[c] # Never /\ clock - sig[c] <= MaxAge
    BY DEF RecentSetScanned
  <2>1. Scanned = cache /\ clock - cachedAt <= MaxAge
    BY DEF Scanned
  <2>2. sig[c] # Never /\ sig[c] >= cachedAt
    BY <2>1 DEF Behind
  <2> QED
    BY <2>1, <2>2, Constants DEF TypeOK, Stamps
<1> QED
  BY <1>1, <1>2, <1>3, PTL DEF Spec
-----------------------------------------------------------------------------
\* What lets the time of synchronisation move: an answer on its way lacks nothing newer
\* than the question but what was stamped after it, and the time that is stored is the
\* agent's.
AnswerComplete == pull = "answered" =>
  \A c \in CVEs : sig[c] # Never /\ sig[c] > since => c \in delta \/ c \in blind
TimeIsAgents == lastSync # Never => lastSync = syncedAt + skew
SyncInv == AnswerComplete /\ TimeIsAgents /\ OnlyBlindSkipped

LEMMA SyncInvPreserved == TypeOK /\ SyncInv /\ [Next]_vars => SyncInv'
<1> SUFFICES ASSUME TypeOK, SyncInv, [Next]_vars PROVE SyncInv'
  OBVIOUS
<1> USE Constants DEF SyncInv
<1>1. sig \in [CVEs -> Stamps] /\ lastSync \in Int /\ since \in Int /\ base \in Int
      /\ clock \in Nat /\ syncedAt \in Nat /\ skew \in Int
  BY DEF TypeOK
<1>2. ASSUME UNCHANGED <<sig, history, lastSync, skew>>,
             pull' = "answered" => UNCHANGED <<pull, delta, since>>
      PROVE  SyncInv'
  BY <1>2 DEF history, AnswerComplete, TimeIsAgents, OnlyBlindSkipped, Skipped
<1>3. CASE Upsert
  <2>1. PICK c \in CVEs : /\ sig' = [sig EXCEPT ![c] = clock]
                          /\ blind' = IF Blind THEN blind \cup {c} ELSE blind \ {c}
                          /\ sent' = sent \ {c}
    BY <1>3 DEF Upsert, TypeOK
  <2>2. UNCHANGED <<clock, skew, lastSync, pull, since, delta, base, syncedAt>>
    BY <1>3 DEF Upsert, agentVars
  <2>3. /\ \A d \in CVEs : d # c => /\ sig'[d] = sig[d]
                                    /\ d \in blind' <=> d \in blind
                                    /\ d \in sent' <=> d \in sent
        /\ sig'[c] = clock
        /\ c \in blind' <=> Blind
    BY <1>1, <2>1
  <2>4. AnswerComplete'
    BY <2>2, <2>3 DEF AnswerComplete, Blind
  <2>5. TimeIsAgents'
    BY <2>2 DEF TimeIsAgents
  <2>6. Skipped(c)' => Blind
    <3>1. Skipped(c)' => lastSync # Never /\ clock <= lastSync
      BY <2>2, <2>3 DEF Skipped
    <3>2. lastSync # Never /\ clock <= lastSync => clock - syncedAt <= skew
      BY <1>1 DEF TimeIsAgents
    <3> QED
      BY <3>1, <3>2 DEF Blind
  <2>7. \A d \in CVEs : d # c /\ Skipped(d)' => Skipped(d)
    BY <2>2, <2>3 DEF Skipped
  <2>8. OnlyBlindSkipped'
    BY <2>2, <2>3, <2>6, <2>7 DEF OnlyBlindSkipped
  <2> QED
    BY <2>4, <2>5, <2>8
<1>4. CASE Answer
  <2>1. UNCHANGED <<sig, history, lastSync, skew, since>>
    BY <1>4 DEF Answer, serverVars
  <2>2. AnswerComplete'
    BY <1>4, <2>1 DEF Answer, AnswerComplete
  <2> QED
    BY <2>1, <2>2 DEF history, TimeIsAgents, OnlyBlindSkipped, Skipped
<1>5. CASE Applied
  <2>1. /\ pull = "answered" /\ delta = {} /\ pull' = "idle"
        /\ UNCHANGED <<sig, skew, blind>> /\ sent' = sent
    BY <1>5 DEF Applied, Parsed, Idle, serverVars
  <2>2. CASE Stored
    <3>1. /\ lastSync' = clock + skew /\ syncedAt' = clock
          /\ base' = IF since # lastSync /\ since > base THEN since ELSE base
      BY <2>2 DEF Stored, AgentClock
    <3>2. base' >= base /\ (since # lastSync => base' >= since)
      BY <1>1, <3>1
    <3>3. AnswerComplete' /\ TimeIsAgents'
      BY <2>1, <3>1 DEF AnswerComplete, TimeIsAgents
    <3>4. ASSUME NEW c \in CVEs, Skipped(c)' PROVE sig'[c] <= base' \/ c \in blind'
      <4>1. sig[c] # Never /\ c \notin sent /\ sig[c] \in Nat
        BY <1>1, <2>1, <3>4 DEF Skipped, Stamps
      <4>2. CASE sig[c] > since
        BY <2>1, <4>1, <4>2 DEF AnswerComplete
      <4>3. CASE sig[c] <= since /\ since # lastSync
        <5>1. base' \in Int
          BY <1>1, <3>1
        <5> QED
          BY <1>1, <2>1, <3>2, <4>1, <4>3, <5>1
      <4>4. CASE sig[c] <= since /\ since = lastSync
        <5>1. lastSync # Never
          BY <1>1, <4>1, <4>4 DEF Never
        <5>2. sig[c] <= base \/ c \in blind
          BY <4>1, <4>4, <5>1 DEF Skipped, OnlyBlindSkipped
        <5>3. base' \in Int
          BY <1>1, <3>1
        <5> QED
          BY <1>1, <2>1, <3>2, <4>1, <5>2, <5>3
      <4> QED
        BY <1>1, <4>1, <4>2, <4>3, <4>4
    <3> QED
      BY <3>3, <3>4 DEF OnlyBlindSkipped
  <2>3. CASE UNCHANGED <<lastSync, syncedAt, base>>
    BY <1>2, <2>1, <2>3 DEF history
  <2> QED
    BY <1>5, <2>2, <2>3 DEF Applied
<1>6. CASE Ask \/ NoAnswer \/ ParseFails
  BY <1>2, <1>6 DEF Ask, NoAnswer, ParseFails, Idle, serverVars
<1>7. CASE Tick \/ Refresh \/ Restart
  BY <1>2, <1>7 DEF Tick, Refresh, Restart, serverVars, agentVars
<1>8. CASE SyncCisa \/ SyncOsv \/ SyncNvd \/ PassEnds \/ PassFails \/ PassBegins
  BY <1>2, <1>8 DEF SyncCisa, SyncOsv, SyncNvd, Fetch, PassEnds, PassFails, PassBegins,
                    agentVars
<1>9. CASE UNCHANGED vars
  BY <1>2, <1>9 DEF vars, serverVars, agentVars
<1> QED
  BY <1>3, <1>4, <1>5, <1>6, <1>7, <1>8, <1>9 DEF Next

\* An agent is left without a signature only if it asked without its last synchronisation
\* and the signature was older than the window, or if it was stamped while an answer was on
\* its way or within the time the agent's clock is ahead of the server's
\* (cve_puller.go:97-164), for any constant difference of the clocks, any window, losses
\* and restarts.
THEOREM NothingElseSkipped == Spec => []OnlyBlindSkipped
<1>1. Init => TypeOK /\ SyncInv
  <2>1. Init => SyncInv
    BY DEF Init, SyncInv, AnswerComplete, TimeIsAgents, OnlyBlindSkipped, Skipped
  <2> QED
    BY <2>1, InitTypeOK
<1>2. TypeOK /\ SyncInv /\ [Next]_vars => (TypeOK /\ SyncInv)'
  BY TypeOKPreserved, SyncInvPreserved
<1>3. SyncInv => OnlyBlindSkipped
  BY DEF SyncInv
<1> QED
  BY <1>1, <1>2, <1>3, PTL DEF Spec
=============================================================================
