--------------------------- MODULE WebModule_proofs ---------------------------
(***************************************************************************)
(* Theorems about WebModule, for any number of requests, addresses and     *)
(* buckets. Inv is the inductive invariant: a request that heard BLOCK was *)
(* decided BLOCK, and the bucket of an address nobody permitted says BLOCK *)
(* from before it is live until every reader that saw it live is done.     *)
(***************************************************************************)
EXTENDS WebModule, TLAPS

HeardIsDecided == \A r \in Reqs : /\ heard[r] = "BLOCK" => decided[r] = "BLOCK"
                                  /\ pc[r] = "forbidden" => heard[r] = "BLOCK"

From(a) == {r \in Reqs : AddrOf[r] = a}

\* Someone has seen the bucket of a live, or is about to make it so.
Watched(a) == \/ Live(BucketOf[a])
              \/ \E r \in From(a) : pc[r] \in {"ip", "verdict", "storeExpires"}

Shielded(a) ==
  /\ Watched(a) => entry[BucketOf[a]].verdict = "BLOCK"
  /\ \A r \in From(a) : /\ why[r] # "cached"
                        /\ pc[r] \in Stored => heard[r] = "BLOCK"

Shields == \A a \in Addrs : (Alone(a) /\ a \notin allowed) => Shielded(a)

Inv == TypeOK /\ HeardIsDecided /\ Shields

USE WebAssumption DEF Verdicts, Bucket, Live, Goto, Pass, Stored

\* A store to one field of an entry leaves an entry.
LEMMA EntryFields ==
  ASSUME NEW e \in Entries
  PROVE  /\ \A a \in Addrs : [e EXCEPT !.ip = a] \in Entries
         /\ \A v \in Verdicts : [e EXCEPT !.verdict = v] \in Entries
         /\ \A x \in {"past", "future"} : [e EXCEPT !.expires = x] \in Entries
BY DEF Entries

\* The initial bucket says PERMIT, but nobody watches it.
LEMMA InitInv == Init => Inv
<1> SUFFICES ASSUME Init PROVE Inv
    OBVIOUS
<1>1. TypeOK
      BY DEF Init, TypeOK, Ended, Entries
<1>2. HeardIsDecided
      BY DEF Init, HeardIsDecided
<1>3. Shields
      BY DEF Init, Shields, Shielded, Watched, From, Live
<1> QED
    BY <1>1, <1>2, <1>3 DEF Inv

\* Every step keeps the types.
LEMMA TypeStep == TypeOK /\ [Next]_vars => TypeOK'
<1> SUFFICES ASSUME TypeOK, [Next]_vars PROVE TypeOK'
    OBVIOUS
<1> USE DEF TypeOK, Ended
<1>1. ASSUME NEW r \in Reqs, Enter(r) PROVE TypeOK'
      BY <1>1 DEF Enter
<1>2. ASSUME NEW r \in Reqs, CheckExpiry(r) PROVE TypeOK'
      BY <1>2 DEF CheckExpiry
<1>3. ASSUME NEW r \in Reqs, CheckIp(r) PROVE TypeOK'
      BY <1>3 DEF CheckIp
<1>4. ASSUME NEW r \in Reqs, CheckVerdict(r) PROVE TypeOK'
    <2>1. CASE entry[Bucket(r)].verdict = "PERMIT"
      <3>1. pc' = [pc EXCEPT ![r] = "passed"] /\ why' = [why EXCEPT ![r] = "cached"]
            BY <1>4, <2>1 DEF CheckVerdict
      <3> QED
          BY <1>4, <3>1 DEF CheckVerdict
    <2>2. CASE entry[Bucket(r)].verdict # "PERMIT"
          BY <1>4, <2>2 DEF CheckVerdict
    <2> QED
        BY <2>1, <2>2
<1>5. ASSUME NEW r \in Reqs, Miss(r) PROVE TypeOK'
      BY <1>5 DEF Miss
<1>6. ASSUME NEW r \in Reqs, ReadBody(r) PROVE TypeOK'
      BY <1>6 DEF ReadBody
<1>7. ASSUME NEW r \in Reqs, StoreIp(r) PROVE TypeOK'
    <2>1. entry[Bucket(r)] \in Entries /\ pc[r] \in Stored
          BY <1>7 DEF StoreIp
    <2>2. entry' = [entry EXCEPT ![Bucket(r)] = [entry[Bucket(r)] EXCEPT !.ip = AddrOf[r]]]
          BY <1>7 DEF StoreIp
    <2>3. entry' \in [Buckets -> Entries]
          BY <2>1, <2>2, EntryFields
    <2> QED
        BY <1>7, <2>3 DEF StoreIp
<1>8. ASSUME NEW r \in Reqs, StoreVerdict(r) PROVE TypeOK'
    <2>1. entry[Bucket(r)] \in Entries /\ pc[r] \in Stored
          BY <1>8 DEF StoreVerdict
    <2>2. entry' = [entry EXCEPT ![Bucket(r)] = [entry[Bucket(r)] EXCEPT !.verdict = heard[r]]]
          BY <1>8 DEF StoreVerdict
    <2>3. entry' \in [Buckets -> Entries]
          BY <2>1, <2>2, EntryFields
    <2> QED
        BY <1>8, <2>3 DEF StoreVerdict
<1>9. ASSUME NEW r \in Reqs, StoreExpires(r) PROVE TypeOK'
    <2>1. entry[Bucket(r)] \in Entries /\ pc[r] \in Stored
          BY <1>9 DEF StoreExpires
    <2>2. entry' = [entry EXCEPT ![Bucket(r)] = [entry[Bucket(r)] EXCEPT !.expires = "future"]]
          BY <1>9 DEF StoreExpires
    <2>3. entry' \in [Buckets -> Entries]
          BY <2>1, <2>2, EntryFields
    <2> QED
        BY <1>9, <2>3 DEF StoreExpires
<1>10. ASSUME NEW r \in Reqs, Act(r) PROVE TypeOK'
    <2>1. CASE pc' = [pc EXCEPT ![r] = "forbidden"] /\ why' = why
          BY <1>10, <2>1 DEF Act
    <2>2. CASE pc' = [pc EXCEPT ![r] = "new"] /\ why' = why
          BY <1>10, <2>2 DEF Act
    <2>3. CASE /\ heard[r] # "BLOCK"
               /\ pc' = [pc EXCEPT ![r] = "passed"]
               /\ why' = [why EXCEPT ![r] = heard[r]]
          BY <1>10, <2>3 DEF Act
    <2> QED
        BY <1>10, <2>1, <2>2, <2>3 DEF Act, Decline, RunPhases
<1>11. ASSUME NEW r \in Reqs, Connected(r) PROVE TypeOK'
      BY <1>11 DEF Connected
<1>12. ASSUME NEW r \in Reqs, Unreachable(r) PROVE TypeOK'
      BY <1>12 DEF Unreachable, Hear
<1>13. ASSUME NEW r \in Reqs, Reply(r) PROVE TypeOK'
      BY <1>13 DEF Reply, Hear
<1>14. ASSUME NEW r \in Reqs, Failed(r) PROVE TypeOK'
      BY <1>14 DEF Failed
<1>15. ASSUME NEW b \in Buckets, Expire(b) PROVE TypeOK'
    <2>1. entry[b] \in Entries
          OBVIOUS
    <2>2. entry' = [entry EXCEPT ![b] = [entry[b] EXCEPT !.expires = "past"]]
          BY <1>15 DEF Expire
    <2>3. entry' \in [Buckets -> Entries]
          BY <2>1, <2>2, EntryFields
    <2> QED
        BY <1>15, <2>3 DEF Expire
<1>16. ASSUME UNCHANGED vars PROVE TypeOK'
      BY <1>16 DEF vars
<1> QED
    BY <1>1, <1>2, <1>3, <1>4, <1>5, <1>6, <1>7, <1>8,
       <1>9, <1>10, <1>11, <1>12, <1>13, <1>14, <1>15, <1>16
    DEF Next, Local, Remote

\* Every step keeps what was heard in line with what was decided.
LEMMA HeardStep == TypeOK /\ HeardIsDecided /\ [Next]_vars => HeardIsDecided'
<1> SUFFICES ASSUME TypeOK, HeardIsDecided, [Next]_vars PROVE HeardIsDecided'
    OBVIOUS
<1> USE DEF TypeOK, HeardIsDecided, Ended
<1>1. ASSUME NEW r \in Reqs, Enter(r) PROVE HeardIsDecided'
      BY <1>1 DEF Enter
<1>2. ASSUME NEW r \in Reqs, CheckExpiry(r) PROVE HeardIsDecided'
      BY <1>2 DEF CheckExpiry
<1>3. ASSUME NEW r \in Reqs, CheckIp(r) PROVE HeardIsDecided'
      BY <1>3 DEF CheckIp
<1>4. ASSUME NEW r \in Reqs, CheckVerdict(r) PROVE HeardIsDecided'
      BY <1>4 DEF CheckVerdict
<1>5. ASSUME NEW r \in Reqs, Miss(r) PROVE HeardIsDecided'
      BY <1>5 DEF Miss
<1>6. ASSUME NEW r \in Reqs, ReadBody(r) PROVE HeardIsDecided'
      BY <1>6 DEF ReadBody
<1>7. ASSUME NEW r \in Reqs, StoreIp(r) PROVE HeardIsDecided'
      BY <1>7 DEF StoreIp
<1>8. ASSUME NEW r \in Reqs, StoreVerdict(r) PROVE HeardIsDecided'
      BY <1>8 DEF StoreVerdict
<1>9. ASSUME NEW r \in Reqs, StoreExpires(r) PROVE HeardIsDecided'
      BY <1>9 DEF StoreExpires
<1>10. ASSUME NEW r \in Reqs, Act(r) PROVE HeardIsDecided'
      BY <1>10 DEF Act, Decline, RunPhases
<1>11. ASSUME NEW r \in Reqs, Connected(r) PROVE HeardIsDecided'
      BY <1>11 DEF Connected
<1>12. ASSUME NEW r \in Reqs, Unreachable(r) PROVE HeardIsDecided'
      BY <1>12 DEF Unreachable, Hear
<1>13. ASSUME NEW r \in Reqs, Reply(r) PROVE HeardIsDecided'
      BY <1>13 DEF Reply, Hear
<1>14. ASSUME NEW r \in Reqs, Failed(r) PROVE HeardIsDecided'
      BY <1>14 DEF Failed
<1>15. ASSUME NEW b \in Buckets, Expire(b) PROVE HeardIsDecided'
      BY <1>15 DEF Expire
<1>16. ASSUME UNCHANGED vars PROVE HeardIsDecided'
      BY <1>16 DEF vars
<1> QED
    BY <1>1, <1>2, <1>3, <1>4, <1>5, <1>6, <1>7, <1>8,
       <1>9, <1>10, <1>11, <1>12, <1>13, <1>14, <1>15, <1>16
    DEF Next, Local, Remote

\* Every step keeps the shield of an address nobody permitted: only its own requests write
\* its bucket, and all they have to store is BLOCK.
LEMMA ShieldStep == TypeOK /\ Shields /\ [Next]_vars => Shields'
<1> SUFFICES ASSUME TypeOK, Shields, [Next]_vars,
                    NEW a \in Addrs, Alone(a), a \notin allowed'
             PROVE  Shielded(a)'
    BY DEF Shields, Alone
<1> USE DEF TypeOK, Ended
<1>1. a \notin allowed
  <2>1. allowed \subseteq allowed'
    <3>1. ASSUME NEW r \in Reqs, Local(r) PROVE allowed' = allowed
          BY <3>1 DEF Local, Enter, CheckExpiry, CheckIp, CheckVerdict, Miss, ReadBody,
                      StoreIp, StoreVerdict, StoreExpires, Act
    <3>2. ASSUME NEW r \in Reqs, Remote(r) PROVE allowed \subseteq allowed'
          BY <3>2 DEF Remote, Connected, Unreachable, Reply, Failed, Hear
    <3> QED
        BY <3>1, <3>2 DEF Next, Expire, vars
  <2> QED
      BY <2>1
<1>2. Shielded(a)
      BY <1>1 DEF Shields
<1>3. \A r \in Reqs : AddrOf[r] # a => BucketOf[AddrOf[r]] # BucketOf[a]
      BY DEF Alone
<1> USE DEF Shielded, Watched, From
<1>4. ASSUME NEW r \in Reqs, Enter(r) PROVE Shielded(a)'
      BY <1>2, <1>4 DEF Enter
<1>5. ASSUME NEW r \in Reqs, CheckExpiry(r) PROVE Shielded(a)'
      BY <1>2, <1>5 DEF CheckExpiry
<1>6. ASSUME NEW r \in Reqs, CheckIp(r) PROVE Shielded(a)'
      BY <1>2, <1>6 DEF CheckIp
<1>7. ASSUME NEW r \in Reqs, CheckVerdict(r) PROVE Shielded(a)'
      BY <1>2, <1>7 DEF CheckVerdict
<1>8. ASSUME NEW r \in Reqs, Miss(r) PROVE Shielded(a)'
      BY <1>2, <1>8 DEF Miss
<1>9. ASSUME NEW r \in Reqs, ReadBody(r) PROVE Shielded(a)'
      BY <1>2, <1>9 DEF ReadBody
<1>10. ASSUME NEW r \in Reqs, StoreIp(r) PROVE Shielded(a)'
      BY <1>2, <1>3, <1>10 DEF StoreIp
<1>11. ASSUME NEW r \in Reqs, StoreVerdict(r) PROVE Shielded(a)'
      BY <1>2, <1>3, <1>11 DEF StoreVerdict
<1>12. ASSUME NEW r \in Reqs, StoreExpires(r) PROVE Shielded(a)'
      BY <1>2, <1>3, <1>12 DEF StoreExpires
<1>13. ASSUME NEW r \in Reqs, Act(r) PROVE Shielded(a)'
      BY <1>2, <1>13 DEF Act, Decline, RunPhases
<1>14. ASSUME NEW r \in Reqs, Connected(r) PROVE Shielded(a)'
      BY <1>2, <1>14 DEF Connected
<1>15. ASSUME NEW r \in Reqs, Unreachable(r) PROVE Shielded(a)'
      BY <1>2, <1>15 DEF Unreachable, Hear
<1>16. ASSUME NEW r \in Reqs, Reply(r) PROVE Shielded(a)'
      BY <1>2, <1>16 DEF Reply, Hear
<1>17. ASSUME NEW r \in Reqs, Failed(r) PROVE Shielded(a)'
      BY <1>2, <1>17 DEF Failed
<1>18. ASSUME NEW b \in Buckets, Expire(b) PROVE Shielded(a)'
      BY <1>2, <1>18 DEF Expire
<1>19. ASSUME UNCHANGED vars PROVE Shielded(a)'
      BY <1>2, <1>19 DEF vars
<1> QED
    BY <1>4, <1>5, <1>6, <1>7, <1>8, <1>9, <1>10, <1>11,
       <1>12, <1>13, <1>14, <1>15, <1>16, <1>17, <1>18, <1>19
    DEF Next, Local, Remote

THEOREM Invariance == Spec => []Inv
<1>1. Inv /\ [Next]_vars => Inv'
      BY TypeStep, HeardStep, ShieldStep DEF Inv
<1> QED
    BY InitInv, <1>1, PTL DEF Spec

\* The modules keep their type, whatever the agent answers.
THEOREM TypeCorrect == Spec => []TypeOK
<1>1. Inv => TypeOK
      BY DEF Inv
<1> QED
    BY Invariance, <1>1, PTL

\* Fail-Open: a 403 is always the agent's own decision for that request, and never comes
\* from the cache or from a failed transaction.
THEOREM FailOpenHolds == Spec => []ForbiddenIsDecided
<1>1. Inv => ForbiddenIsDecided
      BY DEF Inv, HeardIsDecided, ForbiddenIsDecided
<1> QED
    BY Invariance, <1>1, PTL

\* The unlocked cache passes no request of an address that was never permitted, if no other
\* address shares its bucket: the order of the three stores is what makes this so.
THEOREM CacheCorrect == Spec => []CachedIfAllowed
<1>1. Inv => CachedIfAllowed
      BY DEF Inv, Shields, Shielded, From, CachedIfAllowed
<1> QED
    BY Invariance, <1>1, PTL
=============================================================================
