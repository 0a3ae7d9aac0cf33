------------------------ MODULE ServerRequests_proofs ------------------------
(***************************************************************************)
(* For any number of requests, threads, restarts and synchronisations:     *)
(* the types of the server's state, that the audit chain verifies, that    *)
(* the audit table implements the append-only log AuditLog, and that only  *)
(* four circles of waiting stop the server, and those for good.            *)
(*                                                                         *)
(* The argument follows InOrder, the rows sorted by timestamp. Whoever     *)
(* holds _chain_lock has sealed its entry to the last row, later than all  *)
(* rows, so a write appends to InOrder; a purge drops a prefix of it and a *)
(* reset all of it. _last_hash is the hash of the last row except between  *)
(* a write and the move of the pointer, and inside a reset, which keeps    *)
(* every write out because it runs under _db_lock.                         *)
(***************************************************************************)
EXTENDS ServerRequests, FiniteSetTheorems, SequenceTheorems, WellFoundedInduction, TLAPS

RowTypes == /\ clock \in Nat
            /\ \A e \in rows : e.id \in Ids /\ e.ts \in 1 .. clock /\ e.what \in Requests

LockTypes == dbLock \in Requests \cup {Free} /\ chainLock \in Requests \cup {Free}

JobTypes ==
  /\ job \in [Requests -> {"none", "queued", "stamped", "written", "failed", "done"}]
  /\ DOMAIN entry = Requests

CountTypes == /\ restarts \in 0 .. MaxRestarts /\ excuses \subseteq {"purge", "unreadable"}
              /\ sync \in {"idle", "running"} /\ syncs \in 0 .. MaxSyncs

\* The threads that wait are finitely many, as they were taken one by one.
Threads == /\ pc \in [Requests -> Labels]
           /\ IsFiniteSet(InThread) /\ Cardinality(InThread) <= Pool

\* From get_db's start to its exit a request holds _db_lock.
UnderDb == {"auth", "lookup", "handler", "reset", "exit"}
HoldsDb == \A r \in Requests :
  /\ pc[r] \in {"reset", "exit"} => UsesDb(r)
  /\ UsesDb(r) /\ pc[r] \in UnderDb => dbLock = r

\* From the stamp to the move of the pointer a job holds _chain_lock.
UnderChain == {"stamped", "written", "failed"}
HoldsChain == \A r \in Requests : job[r] \in UnderChain => chainLock = r /\ entry[r].what = r

\* What is about to be written is newer than every row and sealed to the pointer.
Sealed == \A r \in Requests : job[r] = "stamped" =>
  /\ entry[r].id = IdOf[r] /\ entry[r].ts = clock /\ clock > 0
  /\ entry[r].prev = lastHash
  /\ entry[r].hash = Seal(lastHash, entry[r].ts, entry[r].what)
  /\ \A e \in rows : e.ts < clock

\* A row stems from a job that has written it.
Recorded == \A e \in rows : job[e.what] \in {"written", "done"}

\* s lists the elements of R by timestamp.
Sorts(s, R, n) == /\ s \in [1 .. n -> R]
                  /\ \A i, j \in 1 .. n : i < j => s[i].ts < s[j].ts
                  /\ \A e \in R : \E i \in 1 .. n : s[i] = e

Sorted == IsFiniteSet(rows) /\ Sorts(InOrder, rows, Cardinality(rows))

\* Inside a reset the table is empty.
Cleared == \A r \in Requests : pc[r] = "reset" => rows = {}

\* The hash the next entry must be sealed to.
Tip == IF rows = {} THEN GENESIS ELSE InOrder[Cardinality(rows)].hash

Points == /\ \A r \in Requests : job[r] = "written" => entry[r].hash = Tip
          /\ (\A r \in Requests : job[r] # "written") => lastHash = Tip
Intact == Verifies(InOrder)

Resetting == \E r \in Requests : pc[r] = "reset"
Pointer == excuses = {} => Intact /\ (~Resetting => Points)

ChainInv == /\ RowTypes /\ LockTypes /\ JobTypes /\ HoldsChain /\ Sealed /\ Recorded
            /\ Sorted

Core == ChainInv /\ Threads /\ HoldsDb /\ Cleared /\ Pointer
IInv == Core /\ CountTypes
-----------------------------------------------------------------------------
(* Sorting by timestamp *)

LEMMA HasLeast ==
  ASSUME NEW T \in SUBSET Nat, T # {}
  PROVE  \E x \in T : \A y \in T : x <= y
<1>1. PICK x \in T : \A y \in T : ~(<<y, x>> \in OpToRel(<, Nat))
  BY WFMin, NatLessThanWellFounded
<1>2. \A y \in T : ~(y < x)
  BY <1>1 DEF OpToRel
<1>3. QED
  BY <1>2

\* An increasing map of 1 .. n to itself moves nothing.
LEMMA IncreasingIsIdentity ==
  ASSUME NEW n \in Nat, NEW p \in [1 .. n -> 1 .. n],
         \A i, j \in 1 .. n : i < j => p[i] < p[j]
  PROVE  \A i \in 1 .. n : p[i] = i
<1>1. \A i \in 1 .. n : p[i] >= i
  <2> DEFINE T == {i \in 1 .. n : p[i] < i}
  <2>1. SUFFICES ASSUME T # {} PROVE FALSE
    OBVIOUS
  <2>2. T \in SUBSET Nat
    OBVIOUS
  <2>3. PICK i \in T : \A j \in T : i <= j
    <3> HIDE DEF T
    <3> QED
      BY <2>1, <2>2, HasLeast
  <2>4. i \in 1 .. n /\ p[i] < i /\ p[i] \in 1 .. n
    OBVIOUS
  <2>5. i - 1 \in 1 .. n /\ i - 1 \notin T /\ p[i - 1] \in 1 .. n
    BY <2>3, <2>4
  <2>6. p[i - 1] < p[i]
    BY <2>4, <2>5
  <2>7. QED
    BY <2>4, <2>5, <2>6
<1>2. \A i \in 1 .. n : p[i] <= i
  <2> DEFINE T == {n - i : i \in {k \in 1 .. n : p[k] > k}}
  <2>1. SUFFICES ASSUME T # {} PROVE FALSE
    OBVIOUS
  <2>2. T \in SUBSET Nat
    <3>1. \A i \in 1 .. n : n - i \in Nat
      OBVIOUS
    <3>2. QED
      BY <3>1
  <2>3. PICK x \in T : \A y \in T : x <= y
    <3> HIDE DEF T
    <3> QED
      BY <2>1, <2>2, HasLeast
  <2>4. PICK i \in 1 .. n : p[i] > i /\ x = n - i
    OBVIOUS
  <2>5. p[i] \in 1 .. n /\ i + 1 \in 1 .. n
    BY <2>4
  <2>6. ~(p[i + 1] > i + 1)
    <3>1. SUFFICES ASSUME p[i + 1] > i + 1 PROVE FALSE
      OBVIOUS
    <3>2. n - (i + 1) \in T
      BY <2>5, <3>1
    <3>3. n - i <= n - (i + 1)
      BY <2>3, <2>4, <3>2, Zenon
    <3>4. QED
      BY <3>3
  <2>7. p[i] < p[i + 1] /\ p[i + 1] \in 1 .. n
    BY <2>5
  <2>8. QED
    BY <2>4, <2>5, <2>6, <2>7
<1>3. ASSUME NEW i \in 1 .. n PROVE p[i] = i
  <2>1. p[i] \in 1 .. n /\ p[i] >= i /\ p[i] <= i
    BY <1>1, <1>2
  <2>2. QED
    BY <2>1
<1>4. QED
  BY <1>3

\* Rows with distinct timestamps have one order.
LEMMA SortUnique ==
  ASSUME NEW R, \A e \in R : e.ts \in Nat, NEW n \in Nat, NEW s, Sorts(s, R, n),
         NEW t \in [1 .. n -> R], \A i, j \in 1 .. n : i < j => t[i].ts < t[j].ts
  PROVE  t = s
<1>1. /\ s \in [1 .. n -> R] /\ \A i, j \in 1 .. n : i < j => s[i].ts < s[j].ts
      /\ \A e \in R : \E i \in 1 .. n : s[i] = e
  BY DEF Sorts
<1> DEFINE p == [i \in 1 .. n |-> CHOOSE j \in 1 .. n : s[j] = t[i]]
<1>2. ASSUME NEW i \in 1 .. n PROVE p[i] \in 1 .. n /\ s[p[i]] = t[i]
  <2>1. \E j \in 1 .. n : s[j] = t[i]
    BY <1>1
  <2>2. QED
    BY <2>1
<1>3. p \in [1 .. n -> 1 .. n]
  BY <1>2
<1> HIDE DEF p
<1>4. ASSUME NEW i \in 1 .. n, NEW j \in 1 .. n, i < j PROVE p[i] < p[j]
  <2>1. s[p[i]].ts < s[p[j]].ts /\ p[i] \in 1 .. n /\ p[j] \in 1 .. n
    BY <1>2, <1>4
  <2>2. s[p[i]].ts \in Nat /\ s[p[j]].ts \in Nat
    BY <1>1, <2>1
  <2>3. p[j] < p[i] => s[p[j]].ts < s[p[i]].ts
    BY <1>1, <2>1
  <2>4. p[i] # p[j]
    BY <2>1, <2>2
  <2>5. QED
    BY <2>1, <2>2, <2>3, <2>4
<1>5. \A i \in 1 .. n : p[i] = i
  BY <1>3, <1>4, IncreasingIsIdentity
<1>6. \A i \in 1 .. n : t[i] = s[i]
  BY <1>2, <1>5
<1>7. QED
  BY <1>1, <1>6

\* Who lists R by timestamp counts it.
LEMMA SortCounts ==
  ASSUME NEW R, \A e \in R : e.ts \in Nat, NEW n \in Nat, NEW s, Sorts(s, R, n)
  PROVE  IsFiniteSet(R) /\ Cardinality(R) = n
<1>1. /\ s \in [1 .. n -> R] /\ \A i, j \in 1 .. n : i < j => s[i].ts < s[j].ts
      /\ \A e \in R : \E i \in 1 .. n : s[i] = e
  BY DEF Sorts
<1>2. ASSUME NEW i \in 1 .. n, NEW j \in 1 .. n, s[i] = s[j] PROVE i = j
  <2>1. s[i].ts \in Nat /\ ~(s[i].ts < s[j].ts) /\ ~(s[j].ts < s[i].ts)
    BY <1>1, <1>2
  <2>2. QED
    BY <1>1, <2>1
<1>3. s \in Bijection(1 .. n, R)
  <2>1. s \in Injection(1 .. n, R)
    <3>1. \A i, j \in 1 .. n : s[i] = s[j] => i = j
      BY <1>2
    <3>2. s \in [1 .. n -> R]
      BY <1>1
    <3>3. QED
      BY <3>1, <3>2 DEF Injection, IsInjective
  <2>2. s \in Surjection(1 .. n, R)
    BY <1>1 DEF Surjection
  <2>3. QED
    BY <2>1, <2>2 DEF Bijection
<1>4. IsFiniteSet(1 .. n) /\ Cardinality(1 .. n) = n
  BY FS_Interval
<1>5. ExistsBijection(1 .. n, R)
  BY <1>3 DEF ExistsBijection
<1>6. QED
  BY <1>4, <1>5, FS_Bijection

\* verify_chain's order of R is the one that sorts it.
Ordering(R) == CHOOSE s \in [1 .. Cardinality(R) -> R] :
                 \A i, j \in 1 .. Cardinality(R) : i < j => s[i].ts < s[j].ts

LEMMA OrderingIs ==
  ASSUME NEW R, \A e \in R : e.ts \in Nat, NEW n \in Nat, NEW s, Sorts(s, R, n)
  PROVE  Cardinality(R) = n /\ IsFiniteSet(R) /\ Ordering(R) = s
<1>1. IsFiniteSet(R) /\ Cardinality(R) = n
  BY SortCounts
<1>2. s \in [1 .. n -> R] /\ \A i, j \in 1 .. n : i < j => s[i].ts < s[j].ts
  BY DEF Sorts
<1> DEFINE P(t) == \A i, j \in 1 .. n : i < j => t[i].ts < t[j].ts
<1>3. Ordering(R) = CHOOSE t \in [1 .. n -> R] : P(t)
  BY <1>1, Zenon DEF Ordering
<1>4. \E t \in [1 .. n -> R] : P(t)
  BY <1>2
<1> DEFINE u == CHOOSE t \in [1 .. n -> R] : P(t)
<1>5. u \in [1 .. n -> R] /\ P(u)
  BY <1>4, Zenon
<1> HIDE DEF u
<1>6. u = s
  BY <1>5, SortUnique
<1>7. QED
  BY <1>1, <1>3, <1>6 DEF u

LEMMA InOrderIs ==
  ASSUME \A e \in rows : e.ts \in Nat, NEW n \in Nat, NEW s, Sorts(s, rows, n)
  PROVE  Cardinality(rows) = n /\ Sorted /\ InOrder = s
<1>1. InOrder = Ordering(rows)
  BY Zenon DEF InOrder, Ordering
<1>2. QED
  BY <1>1, OrderingIs DEF Sorted

LEMMA InOrderNext ==
  ASSUME \A e \in rows' : e.ts \in Nat, NEW n \in Nat, NEW s, Sorts(s, rows', n)
  PROVE  Cardinality(rows') = n /\ Sorted' /\ InOrder' = s
<1>1. InOrder' = Ordering(rows')
  BY Zenon DEF InOrder, Ordering
<1>2. QED
  BY <1>1, OrderingIs DEF Sorted
-----------------------------------------------------------------------------
(* What writing, purging and clearing do to the order of the rows *)

LEMMA SortedRows ==
  ASSUME RowTypes, Sorted
  PROVE  /\ Cardinality(rows) \in Nat /\ \A e \in rows : e.ts \in Nat /\ e.what \in Requests
         /\ InOrder \in [1 .. Cardinality(rows) -> rows]
         /\ DOMAIN InOrder = 1 .. Cardinality(rows)
         /\ \A i, j \in 1 .. Cardinality(rows) : i < j => InOrder[i].ts < InOrder[j].ts
         /\ \A e \in rows : \E i \in 1 .. Cardinality(rows) : InOrder[i] = e
         /\ rows = {} <=> Cardinality(rows) = 0
<1>1. Cardinality(rows) \in Nat /\ (rows = {} <=> Cardinality(rows) = 0)
  BY FS_CardinalityType, FS_EmptySet DEF Sorted
<1>2. \A e \in rows : e.ts \in Nat /\ e.what \in Requests
  BY DEF RowTypes
<1>3. QED
  BY <1>1, <1>2 DEF Sorted, Sorts

LEMMA SameRows ==
  ASSUME rows' = rows
  PROVE  InOrder' = InOrder /\ Tip' = Tip /\ (Sorted => Sorted')
<1>1. InOrder' = Ordering(rows') /\ InOrder = Ordering(rows)
  BY Zenon DEF InOrder, Ordering
<1>2. InOrder' = InOrder
  BY <1>1
<1>3. QED
  BY <1>2 DEF Tip, Sorted

LEMMA AppendRow ==
  ASSUME RowTypes, Sorted, NEW e, e.ts \in Nat, \A f \in rows : f.ts < e.ts,
         rows' = rows \cup {e}
  PROVE  LET n == Cardinality(rows)
         IN  /\ Sorted' /\ Cardinality(rows') = n + 1
             /\ InOrder' = [i \in 1 .. n + 1 |-> IF i = n + 1 THEN e ELSE InOrder[i]]
<1> DEFINE n == Cardinality(rows)
           u == [i \in 1 .. n + 1 |-> IF i = n + 1 THEN e ELSE InOrder[i]]
<1>1. /\ n \in Nat /\ \A f \in rows : f.ts \in Nat
      /\ InOrder \in [1 .. n -> rows]
      /\ \A i, j \in 1 .. n : i < j => InOrder[i].ts < InOrder[j].ts
      /\ \A f \in rows : \E i \in 1 .. n : InOrder[i] = f
  BY SortedRows
<1> HIDE DEF n
<1>2. \A f \in rows' : f.ts \in Nat
  BY <1>1
<1>3. Sorts(u, rows', n + 1)
  <2>1. u \in [1 .. n + 1 -> rows']
    BY <1>1
  <2>2. \A i \in 1 .. n : u[i] = InOrder[i] /\ u[i] \in rows
    BY <1>1
  <2>3. u[n + 1] = e
    BY <1>1
  <2>4. ASSUME NEW i \in 1 .. n + 1, NEW j \in 1 .. n + 1, i < j
        PROVE  u[i].ts < u[j].ts
    <3>1. i \in 1 .. n
      BY <1>1, <2>4
    <3>2. CASE j = n + 1
      BY <2>2, <2>3, <3>1, <3>2
    <3>3. CASE j \in 1 .. n
      BY <1>1, <2>2, <2>4, <3>1, <3>3
    <3>4. QED
      BY <1>1, <3>2, <3>3
  <2>5. ASSUME NEW f \in rows' PROVE \E i \in 1 .. n + 1 : u[i] = f
    <3>1. CASE f = e
      BY <1>1, <2>3, <3>1
    <3>2. CASE f \in rows
      <4>1. PICK i \in 1 .. n : InOrder[i] = f
        BY <1>1, <3>2
      <4>2. i \in 1 .. n + 1 /\ u[i] = f
        BY <1>1, <2>2, <4>1
      <4>3. QED
        BY <4>2
    <3>3. QED
      BY <3>1, <3>2
  <2>6. QED
    BY <2>1, <2>4, <2>5 DEF Sorts
<1>4. n + 1 \in Nat
  BY <1>1
<1> HIDE DEF u
<1>5. Cardinality(rows') = n + 1 /\ Sorted' /\ InOrder' = u
  BY <1>2, <1>3, <1>4, InOrderNext
<1>6. QED
  BY <1>5 DEF u, n

\* Rows go from the old end.
LEMMA DropRows ==
  ASSUME RowTypes, Sorted, NEW cutoff \in Nat, rows' = {e \in rows : e.ts >= cutoff}
  PROVE  \E k \in 0 .. Cardinality(rows) :
           /\ Sorted' /\ Cardinality(rows') = Cardinality(rows) - k
           /\ InOrder' = [i \in 1 .. Cardinality(rows) - k |-> InOrder[i + k]]
<1> DEFINE n == Cardinality(rows)
           Kept == {i \in 1 .. n : InOrder[i].ts >= cutoff}
<1>1. /\ n \in Nat /\ \A f \in rows : f.ts \in Nat
      /\ InOrder \in [1 .. n -> rows]
      /\ \A i, j \in 1 .. n : i < j => InOrder[i].ts < InOrder[j].ts
      /\ \A f \in rows : \E i \in 1 .. n : InOrder[i] = f
  BY SortedRows
<1> HIDE DEF n
<1>2. \E k \in 0 .. n : \A i \in 1 .. n : InOrder[i].ts >= cutoff <=> i > k
  <2>1. CASE Kept = {}
    <3>1. n \in 0 .. n
      BY <1>1
    <3>2. ASSUME NEW i \in 1 .. n PROVE ~(InOrder[i].ts >= cutoff) /\ ~(i > n)
      BY <1>1, <2>1
    <3>3. QED
      BY <3>1, <3>2
  <2>2. CASE Kept # {}
    <3>1. PICK m \in Kept : \A i \in Kept : m <= i
      <4>1. Kept \in SUBSET Nat
        BY <1>1
      <4> HIDE DEF Kept
      <4>2. QED
        BY <2>2, <4>1, HasLeast
    <3>2. m \in 1 .. n /\ InOrder[m].ts >= cutoff /\ m - 1 \in 0 .. n
      BY <1>1
    <3>3. ASSUME NEW i \in 1 .. n PROVE InOrder[i].ts >= cutoff <=> i > m - 1
      <4>1. CASE i < m
        BY <3>1, <4>1
      <4>2. CASE i = m
        BY <3>2, <4>2
      <4>3. CASE i > m
        <5>1. InOrder[m].ts < InOrder[i].ts /\ InOrder[m].ts \in Nat /\ InOrder[i].ts \in Nat
          BY <1>1, <3>2, <4>3
        <5>2. QED
          BY <3>2, <4>3, <5>1
      <4>4. QED
        BY <3>2, <4>1, <4>2, <4>3
    <3>4. QED
      BY <3>2, <3>3
  <2>3. QED
    BY <2>1, <2>2
<1>3. PICK k \in 0 .. n : \A i \in 1 .. n : InOrder[i].ts >= cutoff <=> i > k
  BY <1>2
<1> DEFINE u == [i \in 1 .. n - k |-> InOrder[i + k]]
<1>4. \A f \in rows' : f.ts \in Nat
  BY <1>1
<1>5. n - k \in Nat
  BY <1>1
<1>6. \A i \in 1 .. n - k : i + k \in 1 .. n /\ u[i] = InOrder[i + k] /\ u[i] \in rows'
  <2> SUFFICES ASSUME NEW i \in 1 .. n - k
               PROVE  i + k \in 1 .. n /\ u[i] = InOrder[i + k] /\ u[i] \in rows'
    OBVIOUS
  <2>1. i + k \in 1 .. n /\ i + k > k /\ u[i] = InOrder[i + k]
    BY <1>1
  <2>2. InOrder[i + k] \in rows /\ InOrder[i + k].ts >= cutoff
    BY <1>1, <1>3, <2>1
  <2>3. QED
    BY <2>1, <2>2
<1>7. Sorts(u, rows', n - k)
  <2>1. u \in [1 .. n - k -> rows']
    BY <1>6
  <2>2. \A i, j \in 1 .. n - k : i < j => u[i].ts < u[j].ts
    BY <1>1, <1>6
  <2>3. ASSUME NEW f \in rows' PROVE \E i \in 1 .. n - k : u[i] = f
    <3>1. PICK i \in 1 .. n : InOrder[i] = f
      BY <1>1
    <3>2. i > k
      BY <1>3, <3>1
    <3>3. i - k \in 1 .. n - k /\ (i - k) + k = i
      BY <1>1, <3>2
    <3>4. QED
      BY <1>6, <3>1, <3>3
  <2>4. QED
    BY <2>1, <2>2, <2>3 DEF Sorts
<1> HIDE DEF u
<1>8. Cardinality(rows') = n - k /\ Sorted' /\ InOrder' = u
  BY <1>4, <1>5, <1>7, InOrderNext
<1>9. QED
  BY <1>8 DEF u, n

LEMMA NoRows ==
  ASSUME rows' = {}
  PROVE  Sorted' /\ Cardinality(rows') = 0 /\ DOMAIN InOrder' = {} /\ Verifies(InOrder)'
<1> DEFINE u == [i \in 1 .. 0 |-> i]
<1>1. Sorts(u, rows', 0)
  BY DEF Sorts
<1>2. \A e \in rows' : e.ts \in Nat
  OBVIOUS
<1>3. DOMAIN u = {}
  OBVIOUS
<1> HIDE DEF u
<1>4. Cardinality(rows') = 0 /\ Sorted' /\ InOrder' = u
  BY <1>1, <1>2, InOrderNext
<1>5. QED
  BY <1>3, <1>4 DEF Verifies
-----------------------------------------------------------------------------
(* The steps of the chain *)

\* Whoever finds _chain_lock free finds no job between its stamp and its end.
LEMMA LockIsFree ==
  ASSUME HoldsChain, chainLock = Free
  PROVE  \A r \in Requests : job[r] \notin UnderChain
BY ChainAssumption DEF HoldsChain

\* Nor does the holder of the lock meet another job there.
LEMMA LockIsHeld ==
  ASSUME HoldsChain, NEW r \in Requests, job[r] \in UnderChain
  PROVE  \A q \in Requests : q # r => job[q] \notin UnderChain
BY DEF HoldsChain

\* _db_lock may change hands.
LEMMA LockStep ==
  ASSUME ChainInv, UNCHANGED ChainButDbLock, dbLock' \in Requests \cup {Free}
  PROVE  ChainInv' /\ (Intact => Intact') /\ (Points => Points') /\ excuses' = excuses
<1> USE DEF ChainButDbLock
<1>1. InOrder' = InOrder /\ Tip' = Tip /\ Sorted'
  BY SameRows DEF ChainInv
<1>2. RowTypes' /\ LockTypes' /\ JobTypes' /\ HoldsChain' /\ Sealed' /\ Recorded'
  BY DEF ChainInv, RowTypes, LockTypes, JobTypes, HoldsChain, Sealed, Recorded
<1>3. QED
  BY <1>1, <1>2 DEF ChainInv, Intact, Points, Verifies

LEMMA SubmitStep ==
  ASSUME ChainInv, NEW r \in Requests, Submit(r)
  PROVE  ChainInv' /\ (Intact => Intact') /\ (Points => Points')
<1> USE DEF Submit, SetJob, locks
<1>1. InOrder' = InOrder /\ Tip' = Tip /\ Sorted'
  BY SameRows DEF ChainInv
<1>2. RowTypes' /\ LockTypes' /\ JobTypes'
  BY DEF ChainInv, RowTypes, LockTypes, JobTypes
<1>3. \A q \in Requests : job'[q] = IF q = r THEN "queued" ELSE job[q]
  BY DEF ChainInv, JobTypes
<1>4. HoldsChain' /\ Sealed'
  BY <1>3 DEF ChainInv, HoldsChain, Sealed, UnderChain
<1>5. Recorded'
  BY <1>3 DEF ChainInv, Recorded, RowTypes
<1>6. Points => Points'
  BY <1>1, <1>3 DEF Points
<1>7. QED
  BY <1>1, <1>2, <1>4, <1>5, <1>6 DEF ChainInv, Intact, Verifies

LEMMA StampStep ==
  ASSUME ChainInv, NEW r \in Requests, Stamp(r)
  PROVE  ChainInv' /\ (Intact => Intact') /\ (Points => Points')
<1> USE DEF Stamp, SetJob
<1>1. InOrder' = InOrder /\ Tip' = Tip /\ Sorted'
  BY SameRows DEF ChainInv
<1>2. clock \in Nat /\ clock' = clock + 1
  BY DEF ChainInv, RowTypes
<1>3. RowTypes'
  BY <1>2 DEF ChainInv, RowTypes
<1>4. LockTypes' /\ JobTypes'
  BY DEF ChainInv, LockTypes, JobTypes
<1>5. \A q \in Requests : /\ job'[q] = IF q = r THEN "stamped" ELSE job[q]
                          /\ q # r => entry'[q] = entry[q]
  BY DEF ChainInv, JobTypes
<1>6. entry'[r] = [id |-> IdOf[r], ts |-> clock', what |-> r, prev |-> lastHash,
                   hash |-> Seal(lastHash, clock', r)]
  BY DEF ChainInv, JobTypes
<1>7. \A q \in Requests : job[q] \notin UnderChain
  BY LockIsFree DEF ChainInv
<1>8. HoldsChain'
  BY <1>5, <1>6, <1>7 DEF HoldsChain, UnderChain
<1>9. \A e \in rows : e.ts < clock'
  BY <1>2 DEF ChainInv, RowTypes
<1>10. Sealed'
  BY <1>2, <1>5, <1>6, <1>7, <1>9 DEF Sealed, UnderChain
<1>11. Recorded'
  BY <1>5 DEF ChainInv, Recorded, RowTypes
<1>12. Points => Points'
  BY <1>1, <1>5, <1>7 DEF Points, UnderChain
<1>13. QED
  BY <1>1, <1>3, <1>4, <1>8, <1>10, <1>11, <1>12 DEF ChainInv, Intact, Verifies

LEMMA FinishStep ==
  ASSUME ChainInv, NEW r \in Requests, Finish(r)
  PROVE  ChainInv' /\ (Intact => Intact') /\ (Points => Points')
<1> USE DEF Finish, SetJob
<1>1. InOrder' = InOrder /\ Tip' = Tip /\ Sorted'
  BY SameRows DEF ChainInv
<1>2. RowTypes' /\ LockTypes' /\ JobTypes'
  BY DEF ChainInv, RowTypes, LockTypes, JobTypes
<1>3. \A q \in Requests : /\ job'[q] = IF q = r THEN "done" ELSE job[q]
                          /\ q # r => entry'[q] = entry[q]
  BY DEF ChainInv, JobTypes
<1>4. \A q \in Requests : q # r => job[q] \notin UnderChain
  BY LockIsHeld DEF ChainInv, UnderChain
<1>5. HoldsChain' /\ Sealed'
  BY <1>3, <1>4 DEF HoldsChain, Sealed, UnderChain
<1>6. Recorded'
  BY <1>3 DEF ChainInv, Recorded, RowTypes
<1>7. Points => Points'
  <2> SUFFICES ASSUME Points PROVE Points'
    OBVIOUS
  <2>1. \A q \in Requests : job'[q] # "written"
    BY <1>3, <1>4 DEF UnderChain
  <2>2. lastHash' = Tip
    <3>1. CASE job[r] = "written"
      BY <3>1 DEF Points
    <3>2. CASE job[r] # "written"
      BY <1>4, <3>2 DEF Points, UnderChain
    <3>3. QED
      BY <3>1, <3>2
  <2>3. QED
    BY <1>1, <2>1, <2>2 DEF Points
<1>8. QED
  BY <1>1, <1>2, <1>5, <1>6, <1>7 DEF ChainInv, Intact, Verifies

LEMMA FailedWrite ==
  ASSUME ChainInv, NEW r \in Requests, Write(r), rows' = rows, SetJob(r, "failed")
  PROVE  ChainInv' /\ (Intact => Intact') /\ (Points => Points')
<1> USE DEF Write, SetJob, locks
<1>1. InOrder' = InOrder /\ Tip' = Tip /\ Sorted'
  BY SameRows DEF ChainInv
<1>2. RowTypes' /\ LockTypes' /\ JobTypes'
  BY DEF ChainInv, RowTypes, LockTypes, JobTypes
<1>3. \A q \in Requests : job'[q] = IF q = r THEN "failed" ELSE job[q]
  BY DEF ChainInv, JobTypes
<1>4. \A q \in Requests : q # r => job[q] \notin UnderChain
  BY LockIsHeld DEF ChainInv, UnderChain
<1>5. HoldsChain' /\ Sealed'
  BY <1>3, <1>4 DEF ChainInv, HoldsChain, Sealed, UnderChain
<1>6. Recorded'
  BY <1>3 DEF ChainInv, Recorded, RowTypes
<1>7. Points => Points'
  BY <1>1, <1>3, <1>4 DEF Points, UnderChain
<1>8. QED
  BY <1>1, <1>2, <1>5, <1>6, <1>7 DEF ChainInv, Intact, Verifies

\* A row is written where _last_hash points, so the chain stays intact.
LEMMA RowWritten ==
  ASSUME ChainInv, NEW r \in Requests, Write(r),
         rows' = rows \cup {entry[r]}, SetJob(r, "written")
  PROVE  /\ ChainInv' /\ (Intact /\ Points => Intact' /\ Points')
         /\ LET n == Cardinality(rows)
            IN  InOrder' = [i \in 1 .. n + 1 |-> IF i = n + 1 THEN entry[r] ELSE InOrder[i]]
<1> USE DEF SetJob
<1> DEFINE n == Cardinality(rows)
           e == entry[r]
<1>a. /\ job[r] = "stamped" /\ dbLock = Free
      /\ lastHash' = lastHash /\ clock' = clock /\ entry' = entry /\ excuses' = excuses
      /\ dbLock' = dbLock /\ chainLock' = chainLock
  BY DEF Write, locks
<1>1. /\ e.id = IdOf[r] /\ e.ts = clock /\ clock > 0 /\ clock \in Nat /\ e.what = r
      /\ e.prev = lastHash /\ e.hash = Seal(lastHash, e.ts, e.what)
      /\ \A f \in rows : f.ts < e.ts
  BY <1>a DEF ChainInv, Sealed, HoldsChain, UnderChain, RowTypes
<1>2. IdOf[r] \in Ids
  BY ChainAssumption
<1>3. /\ Sorted' /\ Cardinality(rows') = n + 1
      /\ InOrder' = [i \in 1 .. n + 1 |-> IF i = n + 1 THEN e ELSE InOrder[i]]
  <2>1. RowTypes /\ Sorted
    BY DEF ChainInv
  <2>2. e.ts \in Nat
    BY <1>1
  <2> HIDE DEF e
  <2>3. rows' = rows \cup {e}
    BY DEF e
  <2>4. QED
    BY <1>1, <2>1, <2>2, <2>3, AppendRow
<1>4. /\ n \in Nat /\ DOMAIN InOrder = 1 .. n /\ (rows = {} <=> n = 0)
      /\ InOrder \in [1 .. n -> rows]
  BY SortedRows DEF ChainInv
<1> HIDE DEF n, e
<1>5. RowTypes'
  <2>1. SUFFICES ASSUME NEW f \in rows'
                 PROVE  f.id \in Ids /\ f.ts \in 1 .. clock /\ f.what \in Requests
    BY <1>1, <1>a DEF RowTypes
  <2>2. CASE f = e
    BY <1>1, <1>2, <2>2
  <2>3. CASE f \in rows
    BY <2>3 DEF ChainInv, RowTypes
  <2>4. QED
    BY <2>1, <2>2, <2>3 DEF e
<1>6. LockTypes' /\ JobTypes'
  BY <1>a DEF ChainInv, LockTypes, JobTypes
<1>7. \A q \in Requests : job'[q] = IF q = r THEN "written" ELSE job[q]
  BY DEF ChainInv, JobTypes
<1>8. \A q \in Requests : q # r => job[q] \notin UnderChain
  BY <1>a, LockIsHeld DEF ChainInv, UnderChain
<1>9. HoldsChain'
  BY <1>a, <1>7 DEF ChainInv, HoldsChain, UnderChain
<1>10. Sealed'
  BY <1>a, <1>7, <1>8 DEF Sealed, UnderChain
<1>11. Recorded'
  <2>1. SUFFICES ASSUME NEW f \in rows' PROVE job'[f.what] \in {"written", "done"}
    BY DEF Recorded
  <2>2. CASE f = e
    BY <1>1, <1>7, <2>2
  <2>3. CASE f \in rows
    BY <1>7, <2>3 DEF ChainInv, Recorded, RowTypes
  <2>4. QED
    BY <2>1, <2>2, <2>3 DEF e
<1>12. ASSUME Intact, Points PROVE Intact' /\ Points'
  <2>1. lastHash = Tip
    BY <1>a, <1>8, <1>12 DEF Points, UnderChain
  <2>2. /\ DOMAIN InOrder' = 1 .. n + 1 /\ n + 1 \in 1 .. n + 1
        /\ InOrder'[n + 1] = e
        /\ \A i \in 1 .. n : i # n + 1 /\ InOrder'[i] = InOrder[i]
    BY <1>3, <1>4
  <2>3. Tip' = e.hash
    <3>1. rows' # {}
      OBVIOUS
    <3>2. QED
      BY <1>3, <2>2, <3>1 DEF Tip
  <2>4. Points'
    BY <1>a, <1>7, <1>8, <2>3 DEF Points, UnderChain, e
  <2>5. ASSUME NEW i \in 1 .. n + 1
        PROVE  /\ InOrder'[i].hash = Seal(InOrder'[i].prev, InOrder'[i].ts, InOrder'[i].what)
               /\ InOrder'[i].prev = IF i = 1 THEN GENESIS ELSE InOrder'[i - 1].hash
    <3>1. CASE i \in 1 .. n
      <4>1. /\ InOrder[i].hash = Seal(InOrder[i].prev, InOrder[i].ts, InOrder[i].what)
            /\ InOrder[i].prev = IF i = 1 THEN GENESIS ELSE InOrder[i - 1].hash
        BY <1>4, <1>12, <3>1 DEF Intact, Verifies
      <4>2. i # 1 => i - 1 \in 1 .. n
        BY <1>4, <3>1
      <4>3. QED
        BY <2>2, <3>1, <4>1, <4>2, Zenon
    <3>2. CASE i = n + 1
      <4>1. CASE n = 0
        BY <1>1, <1>4, <2>1, <2>2, <3>2, <4>1 DEF Tip
      <4>2. CASE n # 0
        <5>1. n \in 1 .. n /\ i # 1 /\ i - 1 = n
          BY <1>4, <3>2, <4>2
        <5>2. e.prev = InOrder[n].hash
          BY <1>1, <1>4, <2>1, <4>2 DEF Tip, n
        <5>3. InOrder'[i - 1] = InOrder[n] /\ InOrder'[i] = e
          BY <2>2, <3>2, <5>1
        <5>4. QED
          BY <1>1, <5>1, <5>2, <5>3, Zenon
      <4>3. QED
        BY <4>1, <4>2
    <3>3. QED
      BY <1>4, <3>1, <3>2
  <2>6. Intact'
    BY <2>2, <2>5, Zenon DEF Intact, Verifies
  <2>7. QED
    BY <2>4, <2>6
<1>13. QED
  BY <1>3, <1>5, <1>6, <1>9, <1>10, <1>11, <1>12 DEF ChainInv, n, e

LEMMA PurgeStep ==
  ASSUME ChainInv, Purge
  PROVE  /\ ChainInv' /\ excuses' # {}
         /\ \E k \in 0 .. Cardinality(rows) :
              InOrder' = [i \in 1 .. Cardinality(rows) - k |-> InOrder[i + k]]
<1>1. PICK cutoff \in 1 .. clock + 1 : rows' = {e \in rows : e.ts >= cutoff}
  BY DEF Purge
<1>2. cutoff \in Nat
  OBVIOUS
<1>3. PICK k \in 0 .. Cardinality(rows) :
        Sorted' /\ InOrder' = [i \in 1 .. Cardinality(rows) - k |-> InOrder[i + k]]
  BY <1>1, <1>2, DropRows DEF ChainInv
<1>4. rows' \subseteq rows
  BY <1>1
<1>5. RowTypes' /\ LockTypes' /\ JobTypes'
  BY <1>4 DEF Purge, locks, ChainInv, RowTypes, LockTypes, JobTypes
<1>6. HoldsChain' /\ Sealed' /\ Recorded'
  BY <1>4 DEF Purge, locks, ChainInv, HoldsChain, Sealed, Recorded
<1>7. QED
  BY <1>3, <1>5, <1>6 DEF ChainInv, Purge

LEMMA ClearStep ==
  ASSUME ChainInv, ClearRows
  PROVE  ChainInv' /\ rows' = {} /\ Intact' /\ DOMAIN InOrder' = {}
<1>1. rows' = {} /\ Sorted' /\ Intact' /\ DOMAIN InOrder' = {}
  BY NoRows DEF ClearRows, Intact
<1>2. RowTypes' /\ LockTypes' /\ JobTypes'
  BY DEF ClearRows, locks, ChainInv, RowTypes, LockTypes, JobTypes
<1>3. HoldsChain' /\ Sealed' /\ Recorded'
  BY DEF ClearRows, locks, ChainInv, HoldsChain, Sealed, Recorded
<1>4. QED
  BY <1>1, <1>2, <1>3 DEF ChainInv

LEMMA ResetPointerStep ==
  ASSUME ChainInv, ResetPointer, rows = {}
  PROVE  ChainInv' /\ (Intact => Intact') /\ Points'
<1>1. InOrder' = InOrder /\ Tip' = Tip /\ Sorted'
  BY SameRows DEF ChainInv, ResetPointer
<1>2. \A q \in Requests : job[q] \notin UnderChain
  BY LockIsFree DEF ChainInv, ResetPointer
<1>3. RowTypes' /\ LockTypes' /\ JobTypes'
  BY DEF ResetPointer, locks, ChainInv, RowTypes, LockTypes, JobTypes
<1>4. HoldsChain' /\ Sealed' /\ Recorded'
  BY <1>2 DEF ResetPointer, locks, ChainInv, HoldsChain, Sealed, Recorded, UnderChain
<1>5. Points'
  BY <1>1, <1>2 DEF ResetPointer, Points, Tip, UnderChain
<1>6. QED
  BY <1>1, <1>3, <1>4, <1>5 DEF ChainInv, Intact, Verifies

\* The newest row is the last one.
LEMMA LatestIsTip ==
  ASSUME ChainInv
  PROVE  Latest = Tip
<1> DEFINE n == Cardinality(rows)
           newest == {e \in rows : \A f \in rows : f.ts <= e.ts}
<1>1. CASE rows = {}
  BY <1>1, Zenon DEF Latest, Tip
<1>2. CASE rows # {}
  <2>1. /\ n \in Nat /\ n # 0 /\ \A f \in rows : f.ts \in Nat
        /\ InOrder \in [1 .. n -> rows]
        /\ \A i, j \in 1 .. n : i < j => InOrder[i].ts < InOrder[j].ts
        /\ \A f \in rows : \E i \in 1 .. n : InOrder[i] = f
    BY <1>2, SortedRows DEF ChainInv
  <2> HIDE DEF n
  <2>2. n \in 1 .. n /\ InOrder[n] \in rows
    BY <2>1
  <2>3. ASSUME NEW f \in rows
        PROVE  f.ts <= InOrder[n].ts /\ (f.ts = InOrder[n].ts => f = InOrder[n])
    <3>1. PICK i \in 1 .. n : InOrder[i] = f
      BY <2>1
    <3>2. f.ts \in Nat /\ InOrder[n].ts \in Nat
      BY <2>1, <2>2
    <3>3. CASE i = n
      BY <3>1, <3>2, <3>3
    <3>4. CASE i < n
      <4>1. InOrder[i].ts < InOrder[n].ts
        BY <2>1, <2>2, <3>4
      <4>2. QED
        BY <3>1, <3>2, <4>1
    <3>5. QED
      BY <2>1, <3>3, <3>4
  <2>4. newest = {InOrder[n]}
    <3>1. InOrder[n] \in newest
      BY <2>2, <2>3
    <3>2. ASSUME NEW e \in newest PROVE e = InOrder[n]
      <4>1. e \in rows /\ InOrder[n].ts <= e.ts /\ e.ts <= InOrder[n].ts
        BY <2>2, <2>3
      <4>2. e.ts \in Nat /\ InOrder[n].ts \in Nat
        BY <2>1, <2>2, <4>1
      <4>3. QED
        BY <2>3, <4>1, <4>2
    <3>3. QED
      BY <3>1, <3>2
  <2>5. (CHOOSE e \in newest : TRUE) = InOrder[n]
    <3> HIDE DEF newest
    <3>1. \E e \in newest : TRUE
      BY <2>4
    <3>2. QED
      BY <2>4, <3>1
  <2>6. Latest = (CHOOSE e \in newest : TRUE).hash
    BY <1>2, Zenon DEF Latest
  <2>7. Tip = InOrder[n].hash
    BY <1>2, Zenon DEF Tip, n
  <2>8. QED
    BY <2>5, <2>6, <2>7, Zenon
<1>3. QED
  BY <1>1, <1>2

LEMMA RestartStep ==
  ASSUME ChainInv, RestartChain
  PROVE  /\ ChainInv' /\ (Intact => Intact') /\ rows' = rows /\ excuses \subseteq excuses'
         /\ excuses' = {} => Points'
<1>1. InOrder' = InOrder /\ Tip' = Tip /\ Sorted'
  BY SameRows DEF ChainInv, RestartChain
<1>2. \A r \in Requests : job'[r] = IF job[r] = "none" THEN "none" ELSE "done"
  BY DEF RestartChain
<1>3. RowTypes' /\ LockTypes' /\ JobTypes'
  BY DEF RestartChain, ChainInv, RowTypes, LockTypes, JobTypes
<1>4. HoldsChain' /\ Sealed'
  BY <1>2 DEF HoldsChain, Sealed, UnderChain
<1>5. Recorded'
  BY <1>2 DEF RestartChain, ChainInv, Recorded, RowTypes
<1>6. excuses' = {} => lastHash' = Latest
  BY DEF RestartChain
<1>7. excuses' = {} => Points'
  BY <1>1, <1>2, <1>6, LatestIsTip DEF Points
<1>8. rows' = rows /\ excuses \subseteq excuses'
  BY DEF RestartChain
<1>9. QED
  BY <1>1, <1>3, <1>4, <1>5, <1>7, <1>8 DEF ChainInv, Intact, Verifies
-----------------------------------------------------------------------------
(* The steps of a request *)

\* One request goes on; it needs a thread to wait in one.
LEMMA ThreadStep ==
  ASSUME Threads, NEW r \in Requests, NEW label \in Labels, Goto(r, label),
         label \in {"getdb", "lookup", "reset", "persist"} => Thread
  PROVE  Threads' /\ \A q \in Requests : pc'[q] = IF q = r THEN label ELSE pc[q]
<1> USE DEF Goto
<1>1. pc' \in [Requests -> Labels] /\ \A q \in Requests : pc'[q] = IF q = r THEN label ELSE pc[q]
  BY DEF Threads
<1>2. IsFiniteSet(InThread) /\ Cardinality(InThread) \in Nat /\ Cardinality(InThread) <= Pool
      /\ Pool \in Nat
  BY FS_CardinalityType, ServerAssumption DEF Threads
<1>3. CASE label \in {"getdb", "lookup", "reset", "persist"}
  <2> DEFINE T == InThread \cup {r}
  <2>1. IsFiniteSet(T) /\ Cardinality(T) <= Cardinality(InThread) + 1
    <3>1. IsFiniteSet(T) /\ (r \in InThread => Cardinality(T) = Cardinality(InThread))
          /\ (r \notin InThread => Cardinality(T) = Cardinality(InThread) + 1)
      BY <1>2, FS_AddElement
    <3>2. QED
      BY <1>2, <3>1
  <2>2. InThread' \subseteq T
    BY <1>1 DEF InThread
  <2> HIDE DEF T
  <2>3. IsFiniteSet(InThread') /\ Cardinality(InThread') <= Cardinality(T)
    BY <2>1, <2>2, FS_Subset
  <2>4. Cardinality(InThread') \in Nat /\ Cardinality(T) \in Nat
    BY <2>1, <2>3, FS_CardinalityType
  <2>5. Cardinality(InThread) < Pool
    BY <1>3 DEF Thread
  <2>6. QED
    BY <1>1, <1>2, <2>1, <2>3, <2>4, <2>5 DEF Threads
<1>4. CASE label \notin {"getdb", "lookup", "reset", "persist"}
  <2>1. InThread' \subseteq InThread
    BY <1>1, <1>4 DEF InThread
  <2>2. IsFiniteSet(InThread') /\ Cardinality(InThread') <= Cardinality(InThread)
    BY <1>2, <2>1, FS_Subset
  <2>3. Cardinality(InThread') \in Nat
    BY <2>2, FS_CardinalityType
  <2>4. QED
    BY <1>1, <1>2, <2>2, <2>3 DEF Threads
<1>5. QED
  BY <1>3, <1>4

\* Where a label needs no lock that is not held, the request may go there.
LEMMA DbStep ==
  ASSUME HoldsDb, NEW r \in Requests, NEW label,
         \A q \in Requests : pc'[q] = IF q = r THEN label ELSE pc[q],
         dbLock' = dbLock,
         label \in {"reset", "exit"} => UsesDb(r),
         UsesDb(r) /\ label \in UnderDb => dbLock = r
  PROVE  HoldsDb'
BY DEF HoldsDb, UsesDb

LEMMA PointerStep ==
  ASSUME Pointer, excuses \subseteq excuses', Intact => Intact', Points => Points',
         Resetting => Resetting'
  PROVE  Pointer'
<1>1. excuses' = {} => excuses = {}
  OBVIOUS
<1>2. QED
  BY <1>1 DEF Pointer

LEMMA ResettingStep ==
  ASSUME NEW r \in Requests, pc[r] # "reset", NEW label,
         \A q \in Requests : pc'[q] = IF q = r THEN label ELSE pc[q]
  PROVE  Resetting => Resetting'
BY DEF Resetting

\* The rows stay and nobody starts a reset.
LEMMA ClearedStep ==
  ASSUME Cleared, rows' \subseteq rows, NEW r \in Requests, NEW label, label # "reset",
         \A q \in Requests : pc'[q] = IF q = r THEN label ELSE pc[q]
  PROVE  Cleared'
BY DEF Cleared

\* A step that leaves the chain alone, up to _db_lock.
LEMMA MoveStep ==
  ASSUME Core, UNCHANGED ChainButDbLock, dbLock' \in Requests \cup {Free},
         NEW r \in Requests, NEW label \in Labels \ {"reset"}, Goto(r, label), pc[r] # "reset",
         label \in {"getdb", "lookup", "persist"} => Thread,
         (\A q \in Requests : pc'[q] = IF q = r THEN label ELSE pc[q]) => HoldsDb'
  PROVE  Core'
<1>1. Threads' /\ \A q \in Requests : pc'[q] = IF q = r THEN label ELSE pc[q]
  BY ThreadStep DEF Core
<1>2. ChainInv' /\ (Intact => Intact') /\ (Points => Points') /\ excuses' = excuses
  BY LockStep DEF Core
<1>3. HoldsDb'
  BY <1>1
<1>4. Cleared'
  <2>1. rows' \subseteq rows
    BY DEF ChainButDbLock
  <2>2. QED
    BY <1>1, <2>1, ClearedStep DEF Core
<1>5. Resetting => Resetting'
  BY <1>1, ResettingStep
<1>6. Pointer'
  BY <1>2, <1>5, PointerStep DEF Core
<1>7. QED
  BY <1>1, <1>2, <1>3, <1>4, <1>6 DEF Core

LEMMA QuietStep ==
  ASSUME Core, UNCHANGED chainVars,
         NEW r \in Requests, NEW label \in Labels \ {"reset"}, Goto(r, label), pc[r] # "reset",
         label \in {"getdb", "lookup", "persist"} => Thread,
         label = "exit" => UsesDb(r), UsesDb(r) /\ label \in UnderDb => dbLock = r
  PROVE  Core'
<1>1. UNCHANGED ChainButDbLock /\ dbLock' = dbLock /\ dbLock' \in Requests \cup {Free}
  BY DEF ChainButDbLock, chainVars, Core, ChainInv, LockTypes
<1>2. (\A q \in Requests : pc'[q] = IF q = r THEN label ELSE pc[q]) => HoldsDb'
  BY <1>1, DbStep DEF Core
<1>3. QED
  BY <1>1, <1>2, MoveStep

LEMMA ArriveStep ==
  ASSUME Core, NEW r \in Requests, Arrive(r) PROVE Core'
<1> DEFINE label == IF UsesDb(r) THEN "dep" ELSE "auth"
<1>1. /\ Goto(r, label) /\ UNCHANGED chainVars /\ pc[r] # "reset"
      /\ label \in Labels \ {"reset"} /\ label \notin {"getdb", "lookup", "persist", "exit"}
      /\ ~(UsesDb(r) /\ label \in UnderDb)
  BY DEF Arrive, Labels, UnderDb
<1> HIDE DEF label
<1>2. QED
  BY <1>1, QuietStep

LEMMA StartGetDbStep ==
  ASSUME Core, NEW r \in Requests, StartGetDb(r) PROVE Core'
<1>1. /\ Goto(r, "getdb") /\ UNCHANGED chainVars /\ pc[r] # "reset" /\ Thread
      /\ "getdb" \in Labels \ {"reset"} /\ "getdb" \notin UnderDb
  BY DEF StartGetDb, Labels, UnderDb
<1>2. QED
  BY <1>1, QuietStep

LEMMA GetDbStep ==
  ASSUME Core, NEW r \in Requests, GetDb(r) PROVE Core'
<1>1. /\ Goto(r, "auth") /\ UNCHANGED ChainButDbLock /\ pc[r] # "reset"
      /\ dbLock = Free /\ dbLock' = r /\ dbLock' \in Requests \cup {Free}
      /\ "auth" \in Labels \ {"reset"}
  BY DEF GetDb, Lock, Labels
<1>2. \A q \in Requests : ~(UsesDb(q) /\ pc[q] \in UnderDb)
  BY <1>1, ChainAssumption DEF Core, HoldsDb
<1>3. (\A q \in Requests : pc'[q] = IF q = r THEN "auth" ELSE pc[q]) => HoldsDb'
  BY <1>1, <1>2 DEF Core, HoldsDb, UsesDb
<1>4. QED
  BY <1>1, <1>3, MoveStep

LEMMA AnswerStep ==
  ASSUME Core, NEW r \in Requests, UNCHANGED chainVars, pc[r] \in {"auth", "lookup"},
         Allowed(r) \/ Denied(r)
  PROVE  Core'
<1>1. UsesDb(r) => dbLock = r
  BY DEF Core, HoldsDb, UnderDb
<1>2. CASE Allowed(r)
  <2>1. Goto(r, "handler") /\ "handler" \in Labels \ {"reset"}
    BY <1>2 DEF Allowed, Labels
  <2>2. QED
    BY <1>1, <2>1, QuietStep
<1>3. CASE Denied(r)
  <2> DEFINE label == IF UsesDb(r) THEN "exit" ELSE "respond"
  <2>1. /\ Goto(r, label) /\ label \in Labels \ {"reset"}
        /\ label \notin {"getdb", "lookup", "persist"} /\ (label = "exit" => UsesDb(r))
    BY <1>3 DEF Denied, Labels
  <2> HIDE DEF label
  <2>2. QED
    BY <1>1, <2>1, QuietStep
<1>4. QED
  BY <1>2, <1>3

LEMMA AuthenticateStep ==
  ASSUME Core, NEW r \in Requests, Authenticate(r) PROVE Core'
<1>1. pc[r] = "auth" /\ Thread /\ UNCHANGED chainVars
  BY DEF Authenticate
<1>2. CASE CredOf[r] = "jwt"
  BY <1>1, <1>2, AnswerStep DEF Authenticate
<1>3. CASE CredOf[r] # "jwt"
  <2>1. Goto(r, "lookup") /\ "lookup" \in Labels \ {"reset"}
    BY <1>3 DEF Authenticate, Labels
  <2>2. UsesDb(r) => dbLock = r
    BY <1>1 DEF Core, HoldsDb, UnderDb
  <2>3. QED
    BY <1>1, <2>1, <2>2, QuietStep
<1>4. QED
  BY <1>2, <1>3

LEMMA LookupStep ==
  ASSUME Core, NEW r \in Requests, Lookup(r) PROVE Core'
BY AnswerStep DEF Lookup

LEMMA ExitDbStep ==
  ASSUME Core, NEW r \in Requests, ExitDb(r) PROVE Core'
<1>1. /\ Goto(r, "respond") /\ UNCHANGED ChainButDbLock /\ pc[r] = "exit"
      /\ dbLock' = Free /\ dbLock' \in Requests \cup {Free}
      /\ "respond" \in Labels \ {"reset"} /\ "respond" \notin UnderDb
  BY DEF ExitDb, Labels, UnderDb
<1>2. dbLock = r
  BY <1>1 DEF Core, HoldsDb, UnderDb
<1>3. \A q \in Requests : q # r => ~(UsesDb(q) /\ pc[q] \in UnderDb)
  BY <1>2 DEF Core, HoldsDb
<1>4. (\A q \in Requests : pc'[q] = IF q = r THEN "respond" ELSE pc[q]) => HoldsDb'
  <2>1. SUFFICES ASSUME \A q \in Requests : pc'[q] = IF q = r THEN "respond" ELSE pc[q],
                        NEW q \in Requests
                 PROVE  /\ pc'[q] \in {"reset", "exit"} => UsesDb(q)
                        /\ UsesDb(q) /\ pc'[q] \in UnderDb => dbLock' = q
    BY DEF HoldsDb, UsesDb
  <2>2. CASE q = r
    BY <1>1, <2>1, <2>2
  <2>3. CASE q # r
    BY <1>3, <2>1, <2>3 DEF Core, HoldsDb
  <2>4. QED
    BY <2>2, <2>3
<1>5. QED
  BY <1>1, <1>4, MoveStep

LEMMA PersistSteps ==
  ASSUME Core, NEW r \in Requests, StartPersist(r) \/ Persist(r) PROVE Core'
<1>1. CASE StartPersist(r)
  <2>1. /\ Goto(r, "persist") /\ UNCHANGED chainVars /\ pc[r] # "reset" /\ Thread
        /\ "persist" \in Labels \ {"reset"} /\ "persist" \notin UnderDb
    BY <1>1 DEF StartPersist, Labels, UnderDb
  <2>2. QED
    BY <2>1, QuietStep
<1>2. CASE Persist(r)
  <2>1. /\ Goto(r, "done") /\ UNCHANGED chainVars /\ pc[r] # "reset"
        /\ "done" \in Labels \ {"reset"} /\ "done" \notin UnderDb
    BY <1>2 DEF Persist, Labels, UnderDb
  <2>2. QED
    BY <2>1, QuietStep
<1>3. QED
  BY <1>1, <1>2

LEMMA HandleStep ==
  ASSUME Core, NEW r \in Requests, Handle(r) PROVE Core'
<1>1. pc[r] = "handler" /\ Thread
  BY DEF Handle
<1>2. UsesDb(r) => dbLock = r
  BY <1>1 DEF Core, HoldsDb, UnderDb
<1>3. CASE KindOf[r] = "events" /\ UNCHANGED chainVars /\ (Goto(r, "respond") \/ Goto(r, "ack"))
  <2>1. /\ {"respond", "ack"} \subseteq Labels \ {"reset"} /\ "respond" \notin UnderDb
        /\ "ack" \notin UnderDb
    BY DEF Labels, UnderDb
  <2>2. CASE Goto(r, "respond")
    BY <1>1, <1>3, <2>1, <2>2, QuietStep
  <2>3. CASE Goto(r, "ack")
    BY <1>1, <1>3, <2>1, <2>3, QuietStep
  <2>4. QED
    BY <1>3, <2>2, <2>3
<1>4. CASE KindOf[r] = "session" /\ Goto(r, "exit") /\ UNCHANGED chainVars
  <2>1. UsesDb(r) /\ "exit" \in Labels \ {"reset"}
    BY <1>4 DEF UsesDb, Labels
  <2>2. QED
    BY <1>1, <1>2, <1>4, <2>1, QuietStep
<1>5. CASE KindOf[r] = "session" /\ Goto(r, "exit") /\ Purge
  <2>1. UsesDb(r) /\ "exit" \in Labels
    BY <1>5 DEF UsesDb, Labels
  <2>2. ChainInv' /\ excuses' # {}
    BY <1>5, PurgeStep DEF Core
  <2>3. Threads' /\ \A q \in Requests : pc'[q] = IF q = r THEN "exit" ELSE pc[q]
    BY <1>5, <2>1, ThreadStep DEF Core
  <2>4. rows' \subseteq rows /\ dbLock' = dbLock
    BY <1>5 DEF Purge, locks
  <2>5. HoldsDb'
    BY <1>2, <2>1, <2>3, <2>4, DbStep DEF Core
  <2>6. Cleared'
    BY <2>3, <2>4, ClearedStep DEF Core
  <2>7. QED
    BY <2>2, <2>3, <2>5, <2>6 DEF Core, Pointer
<1>6. CASE KindOf[r] = "reset" /\ Goto(r, "reset") /\ ClearRows
  <2>1. UsesDb(r) /\ "reset" \in Labels
    BY <1>6 DEF UsesDb, Labels
  <2>2. ChainInv' /\ rows' = {} /\ Intact'
    BY <1>6, ClearStep DEF Core
  <2>3. Threads' /\ \A q \in Requests : pc'[q] = IF q = r THEN "reset" ELSE pc[q]
    BY <1>1, <1>6, <2>1, ThreadStep DEF Core
  <2>4. dbLock' = dbLock
    BY <1>6 DEF ClearRows, locks
  <2>5. HoldsDb'
    BY <1>2, <2>1, <2>3, <2>4, DbStep DEF Core
  <2>6. Cleared' /\ Resetting'
    BY <2>2, <2>3 DEF Cleared, Resetting
  <2>7. QED
    BY <2>2, <2>3, <2>5, <2>6 DEF Core, Pointer
<1>7. QED
  BY <1>3, <1>4, <1>5, <1>6 DEF Handle

LEMMA ResetStep ==
  ASSUME Core, NEW r \in Requests, Reset(r) PROVE Core'
<1>1. pc[r] = "reset" /\ ResetPointer /\ Goto(r, "exit") /\ "exit" \in Labels
  BY DEF Reset, Labels
<1>2. rows = {} /\ UsesDb(r) /\ dbLock = r
  BY <1>1 DEF Core, Cleared, HoldsDb, UnderDb
<1>3. ChainInv' /\ (Intact => Intact') /\ Points'
  BY <1>1, <1>2, ResetPointerStep DEF Core
<1>4. Threads' /\ \A q \in Requests : pc'[q] = IF q = r THEN "exit" ELSE pc[q]
  BY <1>1, ThreadStep DEF Core
<1>5. dbLock' = dbLock /\ rows' \subseteq rows /\ excuses' = excuses
  BY <1>1 DEF ResetPointer, locks
<1>6. HoldsDb'
  BY <1>2, <1>4, <1>5, DbStep DEF Core
<1>7. Cleared'
  BY <1>4, <1>5, ClearedStep DEF Core
<1>8. Pointer'
  BY <1>3, <1>5 DEF Core, Pointer
<1>9. QED
  BY <1>3, <1>4, <1>6, <1>7, <1>8 DEF Core

LEMMA RespondStep ==
  ASSUME Core, NEW r \in Requests, Respond(r) PROVE Core'
<1>0. CASE pc[r] = "respond" /\ UNCHANGED chainVars
  <2>1. /\ Goto(r, "done") /\ UNCHANGED chainVars /\ pc[r] # "reset"
        /\ "done" \in Labels \ {"reset"} /\ "done" \notin UnderDb
    BY <1>0 DEF Respond, Labels, UnderDb
  <2>2. QED
    BY <2>1, QuietStep
<1> SUFFICES ASSUME Submit(r) PROVE Core'
  BY <1>0 DEF Respond
<1> DEFINE label == IF pc[r] = "ack" THEN "background" ELSE "done"
<1>1. /\ Goto(r, label) /\ Submit(r) /\ pc[r] # "reset" /\ label \in Labels /\ label # "reset"
      /\ label \notin {"getdb", "lookup", "reset", "persist", "exit"} /\ label \notin UnderDb
  BY DEF Respond, Labels, UnderDb
<1> HIDE DEF label
<1>2. ChainInv' /\ (Intact => Intact') /\ (Points => Points')
  BY <1>1, SubmitStep DEF Core
<1>3. Threads' /\ \A q \in Requests : pc'[q] = IF q = r THEN label ELSE pc[q]
  BY <1>1, ThreadStep DEF Core
<1>4. dbLock' = dbLock /\ rows' \subseteq rows /\ excuses' = excuses
  BY <1>1 DEF Submit, locks
<1>5. HoldsDb'
  BY <1>1, <1>3, <1>4, DbStep DEF Core
<1>6. Cleared'
  BY <1>1, <1>3, <1>4, ClearedStep DEF Core
<1>7. Resetting => Resetting'
  BY <1>1, <1>3, ResettingStep
<1>8. Pointer'
  BY <1>2, <1>4, <1>7, PointerStep DEF Core
<1>9. QED
  BY <1>2, <1>3, <1>5, <1>6, <1>8 DEF Core
-----------------------------------------------------------------------------
(* The other steps, and the invariant *)

\* The requests stand still.
LEMMA PcSame ==
  ASSUME pc' = pc, dbLock' = dbLock
  PROVE  (Threads => Threads') /\ (HoldsDb => HoldsDb') /\ (Resetting <=> Resetting')
BY DEF Threads, InThread, HoldsDb, UsesDb, Resetting

\* While a job writes, nobody is inside a reset.
LEMMA NoReset ==
  ASSUME HoldsDb, dbLock = Free
  PROVE  \A r \in Requests : pc[r] # "reset"
BY ChainAssumption DEF HoldsDb, UnderDb

LEMMA RecordStep ==
  ASSUME Core, NEW r \in Requests, Record(r) PROVE Core'
<1>1. pc' = pc
  BY DEF Record
<1>2. CASE Stamp(r) \/ Finish(r)
  <2>1. ChainInv' /\ (Intact => Intact') /\ (Points => Points')
    BY <1>2, StampStep, FinishStep DEF Core
  <2>2. dbLock' = dbLock /\ rows' = rows /\ excuses' = excuses
    BY <1>2 DEF Stamp, Finish
  <2>3. Threads' /\ HoldsDb' /\ (Resetting <=> Resetting')
    BY <1>1, <2>2, PcSame DEF Core
  <2>4. Cleared'
    BY <1>1, <2>2 DEF Core, Cleared
  <2>5. Pointer'
    BY <2>1, <2>2, <2>3, PointerStep DEF Core
  <2>6. QED
    BY <2>1, <2>3, <2>4, <2>5 DEF Core
<1>3. CASE Write(r)
  <2>1. dbLock = Free /\ dbLock' = dbLock /\ excuses' = excuses
    BY <1>3 DEF Write, locks
  <2>2. Threads' /\ HoldsDb'
    BY <1>1, <2>1, PcSame DEF Core
  <2>3. ~Resetting /\ Cleared'
    BY <1>1, <2>1, NoReset DEF Core, Cleared, Resetting
  <2>4. ChainInv' /\ (Intact /\ Points => Intact' /\ Points')
    <3>1. CASE rows' = rows \cup {entry[r]} /\ SetJob(r, "written")
      BY <1>3, <3>1, RowWritten DEF Core
    <3>2. CASE rows' = rows /\ SetJob(r, "failed")
      BY <1>3, <3>2, FailedWrite DEF Core
    <3>3. QED
      BY <1>3, <3>1, <3>2 DEF Write
  <2>5. Pointer'
    BY <2>1, <2>3, <2>4 DEF Core, Pointer
  <2>6. QED
    BY <2>2, <2>3, <2>4, <2>5 DEF Core
<1>4. QED
  BY <1>2, <1>3 DEF Record, AppendToChain

\* CVESyncWorker and stuttering leave the chain and the requests alone.
LEMMA AsideStep ==
  ASSUME Core, UNCHANGED <<chainVars, pc>>
  PROVE  Core'
<1>1. UNCHANGED ChainButDbLock /\ dbLock' = dbLock /\ dbLock' \in Requests \cup {Free} /\ pc' = pc
  BY DEF ChainButDbLock, chainVars, Core, ChainInv, LockTypes
<1>2. ChainInv' /\ (Intact => Intact') /\ (Points => Points') /\ excuses' = excuses
  BY <1>1, LockStep DEF Core
<1>3. Threads' /\ HoldsDb' /\ (Resetting <=> Resetting')
  BY <1>1, PcSame DEF Core
<1>4. Cleared'
  BY <1>1 DEF Core, Cleared, ChainButDbLock
<1>5. Pointer'
  BY <1>2, <1>3, PointerStep DEF Core
<1>6. QED
  BY <1>2, <1>3, <1>4, <1>5 DEF Core

LEMMA ServerRestartStep ==
  ASSUME Core, Restart PROVE Core'
<1>1. \A r \in Requests : pc'[r] = IF pc[r] = "new" THEN "new" ELSE "done"
  BY DEF Restart
<1>2. Threads'
  <2>1. InThread' = {}
    BY <1>1 DEF InThread
  <2>2. pc' \in [Requests -> Labels]
    BY DEF Restart, Labels
  <2>3. QED
    BY <2>1, <2>2, FS_EmptySet, ServerAssumption DEF Threads
<1>3. HoldsDb' /\ Cleared'
  BY <1>1 DEF HoldsDb, Cleared, UnderDb
<1>4. /\ ChainInv' /\ (Intact => Intact') /\ excuses \subseteq excuses'
      /\ excuses' = {} => Points'
  BY RestartStep DEF Restart, Core
<1>5. Pointer'
  <2>1. excuses' = {} => excuses = {}
    BY <1>4
  <2>2. QED
    BY <1>4, <2>1 DEF Core, Pointer
<1>6. QED
  BY <1>2, <1>3, <1>4, <1>5 DEF Core

LEMMA CoreStep ==
  ASSUME Core, [Next]_vars
  PROVE  Core'
<1>1. CASE \E r \in Requests : Arrive(r) \/ Serve(r) \/ Record(r)
  <2> PICK r \in Requests : Arrive(r) \/ Serve(r) \/ Record(r)
    BY <1>1
  <2>1. CASE Arrive(r)
    BY <2>1, ArriveStep
  <2>2. CASE StartGetDb(r) \/ GetDb(r) \/ Authenticate(r) \/ Lookup(r)
    BY <2>2, StartGetDbStep, GetDbStep, AuthenticateStep, LookupStep
  <2>3. CASE Handle(r) \/ Reset(r) \/ ExitDb(r) \/ Respond(r)
    BY <2>3, HandleStep, ResetStep, ExitDbStep, RespondStep
  <2>4. CASE StartPersist(r) \/ Persist(r)
    BY <2>4, PersistSteps
  <2>5. CASE Record(r)
    BY <2>5, RecordStep
  <2>6. QED
    BY <2>1, <2>2, <2>3, <2>4, <2>5 DEF Serve
<1>2. CASE StartSync \/ EndSync \/ UNCHANGED vars
  BY <1>2, AsideStep DEF StartSync, EndSync, vars
<1>3. CASE Restart
  BY <1>3, ServerRestartStep
<1>4. QED
  BY <1>1, <1>2, <1>3 DEF Next

LEMMA CountStep ==
  ASSUME CountTypes, [Next]_vars
  PROVE  CountTypes'
<1> USE DEF CountTypes
<1>1. CASE /\ restarts' = restarts /\ sync' = sync /\ syncs' = syncs
           /\ excuses' \subseteq excuses \cup {"purge"}
  BY <1>1
<1>2. CASE StartSync \/ EndSync
  <2>1. restarts' = restarts /\ excuses' = excuses /\ sync' \in {"idle", "running"}
    BY <1>2 DEF StartSync, EndSync, chainVars
  <2>2. syncs' = syncs \/ (syncs < MaxSyncs /\ syncs' = syncs + 1)
    BY <1>2 DEF StartSync, EndSync
  <2>3. syncs' \in 0 .. MaxSyncs
    BY <2>2, ServerAssumption
  <2>4. QED
    BY <2>1, <2>3
<1>3. CASE Restart
  <2>1. restarts < MaxRestarts /\ restarts' = restarts + 1
    BY <1>3 DEF Restart, RestartChain
  <2>2. restarts' \in 0 .. MaxRestarts
    BY <2>1, ChainAssumption
  <2>3. excuses' \subseteq excuses \cup {"unreadable"} /\ sync' = "idle" /\ syncs' = syncs
    BY <1>3 DEF Restart, RestartChain
  <2>4. QED
    BY <2>2, <2>3
<1>4. CASE \E r \in Requests : (Arrive(r) \/ Serve(r) \/ Record(r)) /\ UNCHANGED syncVars
  <2> PICK r \in Requests : (Arrive(r) \/ Serve(r) \/ Record(r)) /\ UNCHANGED syncVars
    BY <1>4
  <2>1. restarts' = restarts /\ excuses' \subseteq excuses \cup {"purge"}
    <3>1. CASE Arrive(r) \/ StartGetDb(r) \/ GetDb(r) \/ Authenticate(r) \/ Lookup(r)
      BY <3>1 DEF Arrive, StartGetDb, GetDb, Authenticate, Lookup, chainVars, ChainButDbLock
    <3>2. CASE Handle(r)
      BY <3>2 DEF Handle, Purge, ClearRows, chainVars
    <3>3. CASE Reset(r) \/ ExitDb(r) \/ Respond(r) \/ StartPersist(r) \/ Persist(r)
      BY <3>3 DEF Reset, ResetPointer, ExitDb, Respond, Submit, StartPersist, Persist,
                  chainVars, ChainButDbLock
    <3>4. CASE Record(r)
      BY <3>4 DEF Record, AppendToChain, Stamp, Write, Finish
    <3>5. QED
      BY <3>1, <3>2, <3>3, <3>4 DEF Serve
  <2>2. QED
    BY <1>1, <2>1 DEF syncVars
<1>5. CASE UNCHANGED vars
  BY <1>1, <1>5 DEF vars, chainVars, syncVars
<1>6. QED
  BY <1>2, <1>3, <1>4, <1>5 DEF Next

LEMMA InitInv ==
  ASSUME Init
  PROVE  IInv
<1> USE DEF Init, ChainInit
<1>1. Sorted /\ Cardinality(rows) = 0 /\ InOrder = [i \in 1 .. 0 |-> i]
  <2> DEFINE u == [i \in 1 .. 0 |-> i]
  <2>1. Sorts(u, rows, 0)
    BY DEF Sorts
  <2>2. \A e \in rows : e.ts \in Nat
    OBVIOUS
  <2> HIDE DEF u
  <2>3. Cardinality(rows) = 0 /\ Sorted /\ InOrder = u
    BY <2>1, <2>2, InOrderIs
  <2>4. QED
    BY <2>3 DEF u
<1>2. RowTypes /\ LockTypes /\ JobTypes
  BY DEF RowTypes, LockTypes, JobTypes
<1>3. HoldsChain /\ Sealed /\ Recorded
  BY DEF HoldsChain, Sealed, Recorded, UnderChain
<1>4. CountTypes
  BY ChainAssumption, ServerAssumption DEF CountTypes
<1>5. Threads
  <2>1. InThread = {}
    BY DEF InThread
  <2>2. QED
    BY <2>1, FS_EmptySet, ServerAssumption DEF Threads, Labels
<1>6. HoldsDb /\ Cleared
  BY DEF HoldsDb, Cleared, UnderDb
<1>7. Pointer
  <2>1. Intact
    BY <1>1 DEF Intact, Verifies
  <2>2. Points
    BY DEF Points, Tip
  <2>3. QED
    BY <2>1, <2>2 DEF Pointer
<1>8. QED
  BY <1>1, <1>2, <1>3, <1>4, <1>5, <1>6, <1>7 DEF IInv, Core, ChainInv

LEMMA Invariance == Spec => []IInv
<1>1. Init => IInv
  BY InitInv
<1>2. IInv /\ [Next]_vars => IInv'
  BY CoreStep, CountStep DEF IInv
<1>3. QED
  BY <1>1, <1>2, PTL DEF Spec

\* The state is well typed, and requests never hold more threads than the pool has.
THEOREM TypeCorrect == Spec => []TypeOK
<1>1. IInv => TypeOK
  BY DEF IInv, Core, ChainInv, RowTypes, LockTypes, JobTypes, CountTypes, Threads, HoldsChain,
         UnderChain, TypeOK, ChainTypeOK
<1>2. QED
  BY <1>1, Invariance, PTL

\* GET /v1/audit/verify finds the chain intact, however jobs, resets and restarts interleave
\* and whichever writes fail, unless rows were purged or a restart could not read the table.
THEOREM ChainAlwaysVerifies == Spec => []ChainVerifies
<1>1. IInv => ChainVerifies
  BY DEF IInv, Core, Pointer, Intact, ChainVerifies
<1>2. QED
  BY <1>1, Invariance, PTL
-----------------------------------------------------------------------------
(* The audit table implements the append-only log *)

Logged == [i \in DOMAIN InOrder |-> InOrder[i].what]

LEMMA WhatSeq ==
  ASSUME NEW n \in Nat, NEW s, DOMAIN s = 1 .. n, \A i \in 1 .. n : s[i].what \in Requests
  PROVE  LET w == [i \in DOMAIN s |-> s[i].what]
         IN  /\ w \in Seq(Requests) /\ Len(w) = n /\ DOMAIN w = 1 .. n
             /\ \A i \in 1 .. n : w[i] = s[i].what
<1> DEFINE w == [i \in DOMAIN s |-> s[i].what]
<1>1. w \in [1 .. n -> Requests] /\ \A i \in 1 .. n : w[i] = s[i].what
  OBVIOUS
<1> HIDE DEF w
<1>2. w \in Seq(Requests)
  BY <1>1, SeqDef
<1>3. DOMAIN w = 1 .. n /\ Len(w) \in Nat /\ DOMAIN w = 1 .. Len(w)
  BY <1>1, <1>2, LenProperties
<1>4. Len(w) = n
  BY <1>3
<1>5. QED
  BY <1>1, <1>2, <1>3, <1>4 DEF w

LEMMA LoggedIs ==
  ASSUME ChainInv
  PROVE  /\ Cardinality(rows) \in Nat /\ DOMAIN InOrder = 1 .. Cardinality(rows)
         /\ Logged \in Seq(Requests) /\ Len(Logged) = Cardinality(rows)
         /\ DOMAIN Logged = 1 .. Cardinality(rows)
         /\ \A i \in 1 .. Cardinality(rows) :
              /\ InOrder[i] \in rows /\ InOrder[i].what \in Requests
              /\ Logged[i] = InOrder[i].what
<1> DEFINE n == Cardinality(rows)
<1>1. /\ n \in Nat /\ DOMAIN InOrder = 1 .. n
      /\ \A i \in 1 .. n : InOrder[i] \in rows /\ InOrder[i].what \in Requests
  BY SortedRows DEF ChainInv
<1> HIDE DEF n
<1>2. /\ Logged \in Seq(Requests) /\ Len(Logged) = n /\ DOMAIN Logged = 1 .. n
      /\ \A i \in 1 .. n : Logged[i] = InOrder[i].what
  BY <1>1, WhatSeq DEF Logged
<1>3. QED
  BY <1>1, <1>2 DEF n

LEMMA LogInit == Init => Log!Init
<1>1. SUFFICES ASSUME Init PROVE Logged = <<>>
  BY DEF Log!Init, Logged
<1>2. ChainInv /\ rows = {}
  BY <1>1, InitInv DEF IInv, Core, Init, ChainInit
<1>3. Logged \in Seq(Requests) /\ Len(Logged) = 0
  BY <1>2, LoggedIs, FS_EmptySet
<1>4. QED
  BY <1>3, EmptySeq

LEMMA LogStutters ==
  ASSUME rows' = rows
  PROVE  Logged' = Logged
BY SameRows DEF Logged

\* A record is written at the end, and only once.
LEMMA LogAppends ==
  ASSUME ChainInv, NEW r \in Requests, Write(r)
  PROVE  Log!Append1(r) \/ Logged' = Logged
<1>1. CASE rows' = rows
  BY <1>1, LogStutters
<1>2. CASE rows' = rows \cup {entry[r]} /\ SetJob(r, "written")
  <2> DEFINE n == Cardinality(rows)
  <2>1. job[r] = "stamped" /\ entry[r].what = r
    BY DEF Write, ChainInv, HoldsChain, UnderChain
  <2>2. /\ n \in Nat /\ Logged \in Seq(Requests) /\ Len(Logged) = n /\ DOMAIN Logged = 1 .. n
        /\ \A i \in 1 .. n : /\ InOrder[i] \in rows /\ InOrder[i].what \in Requests
                             /\ Logged[i] = InOrder[i].what
    BY LoggedIs
  <2>3. InOrder' = [i \in 1 .. n + 1 |-> IF i = n + 1 THEN entry[r] ELSE InOrder[i]]
    BY <1>2, RowWritten
  <2> HIDE DEF n
  <2>4. /\ DOMAIN InOrder' = 1 .. n + 1 /\ n + 1 \in Nat
        /\ \A i \in 1 .. n + 1 : InOrder'[i] = IF i = n + 1 THEN entry[r] ELSE InOrder[i]
    BY <2>2, <2>3
  <2>5. \A i \in 1 .. n + 1 : InOrder'[i].what = IF i = n + 1 THEN r ELSE Logged[i]
    <3> SUFFICES ASSUME NEW i \in 1 .. n + 1
                 PROVE  InOrder'[i].what = IF i = n + 1 THEN r ELSE Logged[i]
      OBVIOUS
    <3>1. i # n + 1 => i \in 1 .. n
      BY <2>2
    <3>2. QED
      BY <2>1, <2>2, <2>4, <3>1, Zenon
  <2>6. \A i \in 1 .. n + 1 : InOrder'[i].what \in Requests
    BY <2>2, <2>5
  <2>7. /\ Logged' \in Seq(Requests) /\ Len(Logged') = n + 1
        /\ \A i \in 1 .. n + 1 : Logged'[i] = InOrder'[i].what
    BY <2>4, <2>6, WhatSeq DEF Logged
  <2>8. /\ Append(Logged, r) \in Seq(Requests) /\ Len(Append(Logged, r)) = n + 1
        /\ \A i \in 1 .. n + 1 : Append(Logged, r)[i] = IF i = n + 1 THEN r ELSE Logged[i]
    BY <2>2, AppendProperties
  <2>9. Logged' = Append(Logged, r)
    <3>1. \A i \in 1 .. n + 1 : Logged'[i] = Append(Logged, r)[i]
      BY <2>5, <2>7, <2>8
    <3>2. QED
      BY <2>7, <2>8, <3>1, SeqEqual
  <2>10. \A i \in DOMAIN Logged : Logged[i] # r
    <3> SUFFICES ASSUME NEW i \in 1 .. n, Logged[i] = r PROVE FALSE
      BY <2>2
    <3>1. job[InOrder[i].what] \in {"written", "done"}
      BY <2>2 DEF ChainInv, Recorded
    <3>2. QED
      BY <2>1, <2>2, <3>1
  <2>11. QED
    BY <2>9, <2>10 DEF Log!Append1, Logged
<1>3. QED
  BY <1>1, <1>2 DEF Write

\* A purge drops the oldest records.
LEMMA LogPurged ==
  ASSUME ChainInv, Purge
  PROVE  (\E k \in 1 .. Len(Logged) : Log!Drop(k)) \/ Logged' = Logged
<1> DEFINE n == Cardinality(rows)
<1>1. /\ n \in Nat /\ Logged \in Seq(Requests) /\ Len(Logged) = n
      /\ \A i \in 1 .. n : InOrder[i].what \in Requests /\ Logged[i] = InOrder[i].what
  BY LoggedIs
<1>2. PICK k \in 0 .. n : InOrder' = [i \in 1 .. n - k |-> InOrder[i + k]]
  BY PurgeStep
<1> HIDE DEF n
<1>3. /\ DOMAIN InOrder' = 1 .. n - k /\ n - k \in Nat
      /\ \A i \in 1 .. n - k : i + k \in 1 .. n /\ InOrder'[i] = InOrder[i + k]
  BY <1>1, <1>2
<1>4. \A i \in 1 .. n - k : InOrder'[i].what = Logged[i + k] /\ InOrder'[i].what \in Requests
  BY <1>1, <1>3
<1>5. /\ Logged' \in Seq(Requests) /\ Len(Logged') = n - k
      /\ \A i \in 1 .. n - k : Logged'[i] = InOrder'[i].what
  BY <1>3, <1>4, WhatSeq DEF Logged
<1> DEFINE t == SubSeq(Logged, k + 1, Len(Logged))
<1>6. /\ t \in Seq(Requests) /\ Len(t) = n - k
      /\ \A i \in 1 .. n - k : t[i] = Logged[i + k]
  <2>1. k + 1 \in Int /\ n \in Int /\ \A i \in k + 1 .. n : Logged[i] \in Requests
    BY <1>1
  <2>2. /\ t \in Seq(Requests) /\ Len(t) = IF k + 1 <= n THEN n - (k + 1) + 1 ELSE 0
        /\ \A i \in 1 .. n - (k + 1) + 1 : t[i] = Logged[(k + 1) + i - 1]
    BY <1>1, <2>1, SubSeqProperties
  <2>3. n - (k + 1) + 1 = n - k /\ (~(k + 1 <= n) => n - k = 0)
    BY <1>1
  <2>4. \A i \in 1 .. n - k : (k + 1) + i - 1 = i + k
    BY <1>1
  <2> HIDE DEF t
  <2>5. QED
    BY <2>2, <2>3, <2>4
<1> HIDE DEF t
<1>7. Logged' = t
  <2>1. \A i \in 1 .. n - k : Logged'[i] = t[i]
    BY <1>4, <1>5, <1>6
  <2>2. QED
    BY <1>5, <1>6, <2>1, SeqEqual
<1>8. CASE k = 0
  BY <1>1, <1>7, <1>8, SubSeqFull DEF t
<1>9. CASE k # 0
  <2>1. k \in 1 .. Len(Logged)
    BY <1>1, <1>9
  <2>2. Log!Drop(k)
    BY <1>7 DEF t, Log!Drop, Logged
  <2>3. QED
    BY <2>1, <2>2
<1>10. QED
  BY <1>8, <1>9

\* A reset drops them all.
LEMMA LogCleared ==
  ASSUME ChainInv, ClearRows
  PROVE  (\E k \in 1 .. Len(Logged) : Log!Drop(k)) \/ Logged' = Logged
<1>1. Logged \in Seq(Requests) /\ Len(Logged) \in Nat
  BY LoggedIs
<1>2. Logged' = <<>>
  <2>1. DOMAIN InOrder' = 1 .. 0 /\ 0 \in Nat /\ \A i \in 1 .. 0 : InOrder'[i].what \in Requests
    BY ClearStep
  <2>2. Logged' \in Seq(Requests) /\ Len(Logged') = 0
    BY <2>1, WhatSeq DEF Logged
  <2>3. QED
    BY <2>2, EmptySeq
<1>3. CASE Len(Logged) = 0
  BY <1>1, <1>2, <1>3, EmptySeq
<1>4. CASE Len(Logged) # 0
  <2>1. Len(Logged) \in 1 .. Len(Logged) /\ Len(Logged) < Len(Logged) + 1
    BY <1>1, <1>4
  <2>2. SubSeq(Logged, Len(Logged) + 1, Len(Logged)) = <<>>
    BY <1>1, <2>1, SubSeqEmpty
  <2>3. PICK k \in 1 .. Len(Logged) : Logged' = SubSeq(Logged, k + 1, Len(Logged))
    BY <1>2, <2>1, <2>2
  <2>4. Log!Drop(k)
    BY <2>3 DEF Log!Drop, Logged
  <2>5. QED
    BY <2>3, <2>4
<1>5. QED
  BY <1>3, <1>4

LEMMA LogStep ==
  ASSUME ChainInv, [Next]_vars
  PROVE  Log!Next \/ Logged' = Logged
<1>1. CASE \E r \in Requests : Arrive(r) \/ Serve(r) \/ Record(r)
  <2> PICK r \in Requests : Arrive(r) \/ Serve(r) \/ Record(r)
    BY <1>1
  <2>1. CASE Arrive(r) \/ StartGetDb(r) \/ GetDb(r) \/ Authenticate(r) \/ Lookup(r)
    <3>1. rows' = rows
      BY <2>1 DEF Arrive, StartGetDb, GetDb, Authenticate, Lookup, chainVars, ChainButDbLock
    <3>2. QED
      BY <3>1, LogStutters
  <2>2. CASE Handle(r)
    <3>1. CASE Purge
      <4>1. (\E k \in 1 .. Len(Logged) : Log!Drop(k)) \/ Logged' = Logged
        BY <3>1, LogPurged
      <4>2. QED
        BY <4>1 DEF Log!Next, Logged
    <3>2. CASE ClearRows
      <4>1. (\E k \in 1 .. Len(Logged) : Log!Drop(k)) \/ Logged' = Logged
        BY <3>2, LogCleared
      <4>2. QED
        BY <4>1 DEF Log!Next, Logged
    <3>3. CASE UNCHANGED chainVars
      BY <3>3, LogStutters DEF chainVars
    <3>4. QED
      BY <2>2, <3>1, <3>2, <3>3 DEF Handle
  <2>3. CASE Reset(r) \/ ExitDb(r) \/ Respond(r) \/ StartPersist(r) \/ Persist(r)
    <3>1. rows' = rows
      BY <2>3 DEF Reset, ResetPointer, ExitDb, Respond, Submit, StartPersist, Persist,
                  chainVars, ChainButDbLock
    <3>2. QED
      BY <3>1, LogStutters
  <2>4. CASE Stamp(r) \/ Finish(r)
    BY <2>4, LogStutters DEF Stamp, Finish
  <2>5. CASE Write(r)
    BY <2>5, LogAppends DEF Log!Next
  <2>6. QED
    BY <2>1, <2>2, <2>3, <2>4, <2>5 DEF Serve, Record, AppendToChain
<1>2. CASE StartSync \/ EndSync \/ Restart \/ UNCHANGED vars
  BY <1>2, LogStutters DEF StartSync, EndSync, Restart, RestartChain, vars, chainVars
<1>3. QED
  BY <1>1, <1>2 DEF Next

\* What the table holds, ordered by timestamp, grows only at its end, holds no request twice
\* and shrinks only from its old end, whatever requests, jobs and restarts do.
THEOREM RefinesAuditLog == Spec => ImplementsAuditLog
<1>1. Init => Log!Init
  BY LogInit
<1>2. IInv /\ [Next]_vars => [Log!Next]_Logged
  BY LogStep DEF IInv, Core
<1>3. QED
  BY <1>1, <1>2, Invariance, PTL DEF Spec, ImplementsAuditLog, Log!Spec, Logged
-----------------------------------------------------------------------------
(***************************************************************************)
(* Waiting. Nobody keeps a lock that it has no more use for, so whoever    *)
(* waits for a lock waits for a request or a job that is in the section    *)
(* the lock protects; following who that one waits for ends in a step that *)
(* can be taken or in one of the four stalls.                              *)
(***************************************************************************)

\* A lock is held only inside the section it protects.
DbOwned == dbLock # Free => UsesDb(dbLock) /\ pc[dbLock] \in UnderDb
ChainOwned == chainLock # Free => job[chainLock] \in UnderChain

\* get_db is a dependency of the endpoints that use it, and a record follows its response.
InRoute == \A r \in Requests :
  /\ pc[r] \in {"dep", "getdb"} => UsesDb(r)
  /\ pc[r] \notin {"background", "persist", "done"} => job[r] = "none"

Owners == DbOwned /\ ChainOwned /\ InRoute

\* r goes on, with what it has of _db_lock.
LEMMA OwnersGo ==
  ASSUME Core, Owners, NEW r \in Requests, NEW label \in Labels, Goto(r, label),
         UNCHANGED <<dbLock, chainLock, job>>,
         dbLock = r => label \in UnderDb,
         label \in {"dep", "getdb"} => UsesDb(r),
         \/ pc[r] \notin {"background", "persist", "done"}
         \/ label \in {"background", "persist", "done"}
  PROVE  Owners'
<1>1. \A q \in Requests : pc'[q] = IF q = r THEN label ELSE pc[q]
  BY DEF Goto, Core, Threads
<1>2. DbOwned'
  BY <1>1 DEF Owners, DbOwned, UsesDb, Core, ChainInv, LockTypes
<1>3. ChainOwned'
  BY DEF Owners, ChainOwned
<1>4. InRoute'
  BY <1>1 DEF Owners, InRoute, UsesDb
<1>5. QED
  BY <1>2, <1>3, <1>4 DEF Owners

LEMMA OwnersServe ==
  ASSUME Core, Owners, NEW r \in Requests, Arrive(r) \/ Serve(r)
  PROVE  Owners'
<1> USE DEF Labels, UnderDb
<1>1. CASE Arrive(r)
  <2> DEFINE label == IF UsesDb(r) THEN "dep" ELSE "auth"
  <2>1. /\ Goto(r, label) /\ UNCHANGED <<dbLock, chainLock, job>> /\ pc[r] = "new"
        /\ label \in Labels /\ (label \in {"dep", "getdb"} => UsesDb(r))
    BY <1>1 DEF Arrive, chainVars
  <2>2. dbLock # r
    BY <2>1, ChainAssumption DEF Owners, DbOwned
  <2> HIDE DEF label
  <2>3. QED
    BY <2>1, <2>2, OwnersGo
<1>2. CASE StartGetDb(r)
  <2>1. /\ Goto(r, "getdb") /\ UNCHANGED <<dbLock, chainLock, job>> /\ pc[r] = "dep"
    BY <1>2 DEF StartGetDb, chainVars
  <2>2. dbLock # r /\ UsesDb(r)
    BY <2>1, ChainAssumption DEF Owners, DbOwned, InRoute
  <2>3. QED
    BY <2>1, <2>2, OwnersGo
<1>3. CASE GetDb(r)
  <2>1. /\ Goto(r, "auth") /\ dbLock' = r /\ UNCHANGED <<chainLock, job>> /\ pc[r] = "getdb"
    BY <1>3 DEF GetDb, Lock, ChainButDbLock
  <2>2. \A q \in Requests : pc'[q] = IF q = r THEN "auth" ELSE pc[q]
    BY <2>1 DEF Goto, Core, Threads
  <2>3. UsesDb(r)
    BY <2>1 DEF Owners, InRoute
  <2>4. DbOwned'
    BY <2>1, <2>2, <2>3 DEF DbOwned, UsesDb
  <2>5. ChainOwned'
    BY <2>1 DEF Owners, ChainOwned
  <2>6. InRoute'
    BY <2>1, <2>2 DEF Owners, InRoute, UsesDb
  <2>7. QED
    BY <2>4, <2>5, <2>6 DEF Owners
<1>4. CASE Authenticate(r) \/ Lookup(r)
  <2>1. /\ pc[r] \in {"auth", "lookup"} /\ UNCHANGED <<dbLock, chainLock, job>>
        /\ Allowed(r) \/ Denied(r) \/ Goto(r, "lookup")
    BY <1>4 DEF Authenticate, Lookup, chainVars
  <2> DEFINE label == IF UsesDb(r) THEN "exit" ELSE "respond"
  <2>2. dbLock = r => UsesDb(r)
    BY ChainAssumption DEF Owners, DbOwned
  <2>3. CASE Allowed(r) \/ Goto(r, "lookup")
    <3>1. Goto(r, "handler") \/ Goto(r, "lookup")
      BY <2>3 DEF Allowed
    <3>2. QED
      BY <2>1, <3>1, OwnersGo
  <2>4. CASE Denied(r)
    <3>1. Goto(r, label) /\ label \in Labels /\ (dbLock = r => label \in UnderDb)
      BY <2>2, <2>4 DEF Denied
    <3>2. label \notin {"dep", "getdb"}
      OBVIOUS
    <3> HIDE DEF label
    <3>3. QED
      BY <2>1, <3>1, <3>2, OwnersGo
  <2>5. QED
    BY <2>1, <2>3, <2>4
<1>5. CASE Handle(r)
  <2>1. pc[r] = "handler" /\ UNCHANGED <<dbLock, chainLock, job>>
    BY <1>5 DEF Handle, Purge, ClearRows, chainVars, locks
  <2>2. CASE KindOf[r] = "events"
    <3>1. dbLock # r
      BY <2>2, ChainAssumption DEF Owners, DbOwned, UsesDb
    <3>2. Goto(r, "respond") \/ Goto(r, "ack")
      BY <1>5, <2>2 DEF Handle
    <3>3. QED
      BY <2>1, <3>1, <3>2, OwnersGo
  <2>3. CASE KindOf[r] # "events"
    <3>1. Goto(r, "exit") \/ Goto(r, "reset")
      BY <1>5, <2>3 DEF Handle
    <3>2. QED
      BY <2>1, <3>1, OwnersGo
  <2>4. QED
    BY <2>2, <2>3
<1>6. CASE Reset(r)
  <2>1. Goto(r, "exit") /\ UNCHANGED <<dbLock, chainLock, job>> /\ pc[r] = "reset"
    BY <1>6 DEF Reset, ResetPointer, locks
  <2>2. QED
    BY <2>1, OwnersGo
<1>7. CASE ExitDb(r)
  <2>1. /\ Goto(r, "respond") /\ dbLock' = Free /\ UNCHANGED <<chainLock, job>> /\ pc[r] = "exit"
    BY <1>7 DEF ExitDb, ChainButDbLock
  <2>2. \A q \in Requests : pc'[q] = IF q = r THEN "respond" ELSE pc[q]
    BY <2>1 DEF Goto, Core, Threads
  <2>3. DbOwned'
    BY <2>1 DEF DbOwned
  <2>4. ChainOwned'
    BY <2>1 DEF Owners, ChainOwned
  <2>5. InRoute'
    BY <2>1, <2>2 DEF Owners, InRoute, UsesDb
  <2>6. QED
    BY <2>3, <2>4, <2>5 DEF Owners
<1>8. CASE Respond(r) /\ UNCHANGED chainVars
  <2>1. /\ Goto(r, "background") \/ Goto(r, "done")
        /\ UNCHANGED <<dbLock, chainLock, job>> /\ pc[r] \in {"respond", "ack"}
    BY <1>8 DEF Respond, chainVars
  <2>2. dbLock # r
    BY <2>1, ChainAssumption DEF Owners, DbOwned, UsesDb
  <2>3. QED
    BY <2>1, <2>2, OwnersGo
<1>9. CASE Respond(r) /\ Submit(r)
  <2> DEFINE label == IF pc[r] = "ack" THEN "background" ELSE "done"
  <2>1. /\ Goto(r, label) /\ UNCHANGED <<dbLock, chainLock>> /\ pc[r] \in {"respond", "ack"}
        /\ label \in {"background", "done"}
    BY <1>9 DEF Respond, Submit, locks
  <2>2. job[r] = "none" /\ \A q \in Requests : q # r => job'[q] = job[q]
    BY <1>9 DEF Respond, Submit, SetJob, Core, ChainInv, JobTypes
  <2>3. \A q \in Requests : pc'[q] = IF q = r THEN label ELSE pc[q]
    BY <2>1 DEF Goto, Core, Threads
  <2> HIDE DEF label
  <2>4. DbOwned'
    BY <2>1, <2>3 DEF Owners, DbOwned, UsesDb, Core, ChainInv, LockTypes
  <2>5. ChainOwned'
    BY <2>1, <2>2 DEF Owners, ChainOwned, UnderChain, Core, ChainInv, LockTypes
  <2>6. InRoute'
    BY <2>1, <2>2, <2>3 DEF Owners, InRoute, UsesDb
  <2>7. QED
    BY <2>4, <2>5, <2>6 DEF Owners
<1>10. CASE StartPersist(r) \/ Persist(r)
  <2>1. /\ Goto(r, "persist") \/ Goto(r, "done")
        /\ UNCHANGED <<dbLock, chainLock, job>> /\ pc[r] \in {"background", "persist"}
    BY <1>10 DEF StartPersist, Persist, chainVars
  <2>2. dbLock # r
    BY <2>1, ChainAssumption DEF Owners, DbOwned
  <2>3. QED
    BY <2>1, <2>2, OwnersGo
<1>11. QED
  BY <1>1, <1>2, <1>3, <1>4, <1>5, <1>6, <1>7, <1>8, <1>9, <1>10 DEF Serve, Respond

LEMMA OwnersStep ==
  ASSUME Core, Owners, [Next]_vars
  PROVE  Owners'
<1>1. CASE \E r \in Requests : Arrive(r) \/ Serve(r)
  BY <1>1, OwnersServe
<1>2. ASSUME NEW r \in Requests, Record(r) PROVE Owners'
  <2>1. pc' = pc /\ dbLock' = dbLock
    BY <1>2 DEF Record, AppendToChain, Stamp, Write, Finish, locks
  <2>2. job[r] # "none" /\ \A q \in Requests : q # r => job'[q] = job[q]
    BY <1>2 DEF Record, AppendToChain, Stamp, Write, Finish, SetJob, Core, ChainInv, JobTypes
  <2>3. ChainOwned'
    <3>1. CASE Stamp(r)
      BY <3>1 DEF Stamp, SetJob, ChainOwned, UnderChain, Core, ChainInv, JobTypes
    <3>2. CASE Write(r)
      <4>1. chainLock' = chainLock /\ job'[r] \in UnderChain
        BY <3>2 DEF Write, SetJob, locks, UnderChain, Core, ChainInv, JobTypes
      <4>2. QED
        BY <2>2, <4>1 DEF Owners, ChainOwned, Core, ChainInv, LockTypes
    <3>3. CASE Finish(r)
      BY <3>3 DEF Finish, ChainOwned
    <3>4. QED
      BY <1>2, <3>1, <3>2, <3>3 DEF Record, AppendToChain
  <2>4. DbOwned'
    BY <2>1 DEF Owners, DbOwned, UsesDb
  <2>5. InRoute'
    BY <2>1, <2>2 DEF Owners, InRoute, UsesDb
  <2>6. QED
    BY <2>3, <2>4, <2>5 DEF Owners
<1>3. CASE StartSync \/ EndSync \/ UNCHANGED vars
  BY <1>3 DEF StartSync, EndSync, vars, chainVars, Owners, DbOwned, ChainOwned, InRoute, UsesDb
<1>4. CASE Restart
  <2>1. dbLock' = Free /\ chainLock' = Free
    BY <1>4 DEF Restart, RestartChain
  <2>2. \A r \in Requests : /\ pc'[r] = IF pc[r] = "new" THEN "new" ELSE "done"
                            /\ job'[r] = IF job[r] = "none" THEN "none" ELSE "done"
    BY <1>4 DEF Restart, RestartChain
  <2>3. QED
    BY <2>1, <2>2 DEF Owners, DbOwned, ChainOwned, InRoute
<1>5. QED
  BY <1>1, <1>2, <1>3, <1>4 DEF Next

LEMMA OwnersInvariance == Spec => [](IInv /\ Owners)
<1>1. Init => Owners
  BY DEF Init, ChainInit, Owners, DbOwned, ChainOwned, InRoute
<1>2. IInv /\ Owners /\ [Next]_vars => Owners'
  BY OwnersStep DEF IInv
<1>3. QED
  BY <1>1, <1>2, Invariance, PTL DEF Spec

\* A lock is held only in the section it protects: 401, 403 and a failed write give back
\* what was taken, as get_db's finally and the with blocks of audit.py are there for.
THEOREM LocksGivenBack == Spec => [](DbOwned /\ ChainOwned)
<1>1. Owners => DbOwned /\ ChainOwned
  BY DEF Owners
<1>2. QED
  BY <1>1, OwnersInvariance, PTL
-----------------------------------------------------------------------------
(* Outside the four stalls somebody goes on *)

\* The holder of _chain_lock goes on, or writes its row and waits for _db_lock.
LEMMA ChainHolderGoes ==
  ASSUME Core, Owners, chainLock # Free
  PROVE  /\ chainLock \in Requests
         /\ CanRecord(chainLock) \/ (job[chainLock] = "stamped" /\ dbLock # Free)
BY DEF Core, ChainInv, LockTypes, Owners, ChainOwned, UnderChain, CanRecord

LEMMA HolderGoes ==
  ASSUME Core, Owners, ~Stalled, dbLock # Free, Loop
  PROVE  \E r \in Requests : CanServe(r) \/ CanRecord(r)
<1> DEFINE r == dbLock
<1>1. r \in Requests /\ UsesDb(r) /\ pc[r] \in UnderDb
  BY DEF Core, ChainInv, LockTypes, Owners, DbOwned
<1>2. CASE pc[r] = "exit"
  BY <1>1, <1>2 DEF CanServe
<1>3. pc[r] # "lookup"
  BY <1>1 DEF Stalled, SelfLookup
<1>4. CASE pc[r] = "reset"
  <2>1. CASE chainLock = Free
    BY <1>1, <1>4, <2>1 DEF CanServe
  <2>2. CASE chainLock # Free
    BY <1>1, <1>4, <2>2, ChainHolderGoes DEF Stalled, ResetCycle
  <2>3. QED
    BY <2>1, <2>2
<1>5. CASE pc[r] \in {"auth", "handler"}
  <2>1. CASE Thread
    BY <1>1, <1>5, <2>1 DEF CanServe
  <2>2. CASE ~Thread
    <3>1. \A q \in InThread : pc[q] \in {"getdb", "lookup", "persist"}
      <4>1. SUFFICES ASSUME NEW q \in Requests, pc[q] = "reset" PROVE FALSE
        BY DEF InThread
      <4>2. dbLock = q
        BY <4>1 DEF Core, HoldsDb, UnderDb
      <4>3. QED
        BY <1>5, <4>1, <4>2
    <3>2. QED
      BY <1>1, <1>5, <2>2, <3>1 DEF Stalled, PoolExhausted
  <2>3. QED
    BY <2>1, <2>2
<1>6. QED
  BY <1>1, <1>2, <1>3, <1>4, <1>5 DEF UnderDb

\* Nobody holds _db_lock: who waits for it in a thread can have it, and when nobody does
\* the threads are free.
LEMMA UnlockedGoes ==
  ASSUME Core, Owners, dbLock = Free, Loop,
         NEW q \in Requests, ~Served(q)
  PROVE  \E r \in Requests : CanServe(r) \/ CanRecord(r)
<1>1. \A r \in Requests : pc[r] # "reset" /\ pc[r] \in Labels
  BY NoReset DEF Core, Threads
<1>2. CASE InThread # {}
  BY <1>1, <1>2 DEF InThread, CanServe
<1>3. CASE InThread = {}
  <2>1. Thread
    BY <1>3, FS_EmptySet, ServerAssumption DEF Thread
  <2>2. CASE pc[q] \notin {"new", "done"}
    BY <1>1, <1>3, <2>1, <2>2 DEF InThread, CanServe, Labels
  <2>3. CASE job[q] = "queued"
    <3>1. CASE chainLock = Free
      BY <2>3, <3>1 DEF CanRecord
    <3>2. CASE chainLock # Free
      BY <3>2, ChainHolderGoes
    <3>3. QED
      BY <3>1, <3>2
  <2>4. CASE job[q] \in {"stamped", "written", "failed"}
    BY <2>4 DEF CanRecord
  <2>5. QED
    BY <2>2, <2>3, <2>4 DEF Served, Core, ChainInv, JobTypes
<1>4. QED
  BY <1>2, <1>3

\* As long as a request is not served or an upsert not done, somebody has what it waits
\* for, unless the server is in one of the four stalls.
THEOREM OnlyFourStalls == Spec => []NothingElseStops
<1>1. ASSUME IInv, Owners, ~Stalled
      PROVE  \/ \E r \in Requests : CanServe(r) \/ CanRecord(r)
             \/ sync = "running" /\ dbLock = Free
             \/ sync = "idle" /\ \A r \in Requests : Served(r)
  <2>1. Core /\ sync \in {"idle", "running"}
    BY <1>1 DEF IInv, CountTypes
  <2>2. CASE sync = "idle" /\ dbLock = Free
    BY <1>1, <2>1, <2>2, UnlockedGoes DEF Loop
  <2>3. CASE sync = "idle" /\ dbLock # Free
    BY <1>1, <2>1, <2>3, HolderGoes DEF Loop
  <2>4. CASE sync = "running" /\ dbLock # Free
    <3> DEFINE r == dbLock
    <3>1. r \in Requests /\ pc[r] \in UnderDb
      BY <1>1, <2>1, <2>4 DEF Core, ChainInv, LockTypes, Owners, DbOwned
    <3>2. pc[r] \notin {"auth", "handler", "exit"}
      BY <1>1, <2>4 DEF Stalled, LoopBlocked
    <3>3. pc[r] # "lookup"
      BY <1>1, <3>1 DEF Stalled, SelfLookup
    <3>4. pc[r] = "reset"
      BY <3>1, <3>2, <3>3 DEF UnderDb
    <3>5. CASE chainLock = Free
      BY <3>1, <3>4, <3>5 DEF CanServe
    <3>6. CASE chainLock # Free
      BY <1>1, <2>1, <3>1, <3>4, <3>6, ChainHolderGoes DEF Stalled, ResetCycle
    <3>7. QED
      BY <3>5, <3>6
  <2>5. QED
    BY <2>1, <2>2, <2>3, <2>4
<1>2. IInv /\ Owners => NothingElseStops
  BY <1>1 DEF NothingElseStops
<1>3. QED
  BY <1>2, OwnersInvariance, PTL
-----------------------------------------------------------------------------
(* The four stalls are for good *)

LEMMA NoRestart ==
  ASSUME IInv, restarts' = restarts
  PROVE  ~Restart
<1>1. restarts \in Nat
  BY ChainAssumption DEF IInv, CountTypes
<1>2. QED
  BY <1>1 DEF Restart, RestartChain

\* Only ExitDb gives _db_lock back, and only when it is free GetDb takes it.
LEMMA HeldStays ==
  ASSUME IInv, NEW r \in Requests, dbLock = r, pc[r] # "exit" \/ ~Loop,
         [Next]_vars, restarts' = restarts
  PROVE  dbLock' = dbLock
<1>0. dbLock # Free
  BY ChainAssumption
<1>1. ASSUME NEW q \in Requests, Arrive(q) \/ Serve(q) \/ Record(q) PROVE dbLock' = dbLock
  <2>1. CASE ExitDb(q)
    <3>1. pc[q] = "exit" /\ Loop
      BY <2>1 DEF ExitDb
    <3>2. dbLock = q
      BY <3>1 DEF IInv, Core, HoldsDb, UnderDb
    <3>3. QED
      BY <3>1, <3>2
  <2>2. CASE Arrive(q) \/ StartGetDb(q) \/ GetDb(q) \/ Authenticate(q) \/ Lookup(q)
    BY <1>0, <2>2 DEF Arrive, StartGetDb, GetDb, Lock, Authenticate, Lookup, chainVars
  <2>3. CASE Handle(q) \/ Reset(q) \/ Respond(q) \/ StartPersist(q) \/ Persist(q)
    BY <2>3 DEF Handle, Purge, ClearRows, Reset, ResetPointer, Respond, Submit, StartPersist,
                Persist, chainVars, locks
  <2>4. CASE Record(q)
    BY <2>4 DEF Record, AppendToChain, Stamp, Write, Finish, locks
  <2>5. QED
    BY <1>1, <2>1, <2>2, <2>3, <2>4 DEF Serve
<1>2. CASE StartSync \/ EndSync \/ UNCHANGED vars
  BY <1>2 DEF StartSync, EndSync, vars, chainVars
<1>3. QED
  BY <1>1, <1>2, NoRestart DEF Next

\* The step of one request leaves the others where they are.
LEMMA OthersStand ==
  ASSUME IInv, NEW q \in Requests, Arrive(q) \/ Serve(q)
  PROVE  \A r \in Requests : r # q => pc'[r] = pc[r]
<1>1. \A label : Goto(q, label) => \A r \in Requests : r # q => pc'[r] = pc[r]
  BY DEF Goto, IInv, Core, Threads
<1>2. CASE Arrive(q) \/ StartGetDb(q) \/ GetDb(q) \/ Authenticate(q) \/ Lookup(q)
  BY <1>1, <1>2 DEF Arrive, StartGetDb, GetDb, Authenticate, Lookup, Allowed, Denied
<1>3. CASE Handle(q) \/ Reset(q) \/ ExitDb(q) \/ Respond(q) \/ StartPersist(q) \/ Persist(q)
  BY <1>1, <1>3 DEF Handle, Reset, ExitDb, Respond, StartPersist, Persist
<1>4. QED
  BY <1>2, <1>3 DEF Serve

LEMMA StandsStill ==
  ASSUME IInv, [Next]_vars, restarts' = restarts, NEW r \in Requests, ~Arrive(r), ~Serve(r)
  PROVE  pc'[r] = pc[r]
<1>1. CASE \E q \in Requests : Arrive(q) \/ Serve(q)
  BY <1>1, OthersStand
<1>2. CASE StartSync \/ EndSync \/ UNCHANGED vars \/ \E q \in Requests : Record(q)
  BY <1>2 DEF StartSync, EndSync, vars, Record
<1>3. QED
  BY <1>1, <1>2, NoRestart DEF Next

\* Who waits for _db_lock, for the other lock, for a thread or for the loop stands still.
LEMMA Waits ==
  ASSUME NEW r \in Requests,
         \/ pc[r] \in {"getdb", "lookup", "persist"} /\ dbLock # Free
         \/ pc[r] = "reset" /\ chainLock # Free
         \/ pc[r] \in {"auth", "handler"} /\ ~Thread
         \/ pc[r] \in {"auth", "handler", "exit"} /\ ~Loop
  PROVE  ~Arrive(r) /\ ~Serve(r)
<1>1. ~Arrive(r) /\ ~StartGetDb(r) /\ ~GetDb(r) /\ ~Authenticate(r) /\ ~Lookup(r)
  BY DEF Arrive, StartGetDb, GetDb, Lock, Authenticate, Lookup
<1>2. ~Handle(r) /\ ~Reset(r) /\ ~ExitDb(r) /\ ~Respond(r) /\ ~StartPersist(r) /\ ~Persist(r)
  BY DEF Handle, Reset, ResetPointer, ExitDb, Respond, StartPersist, Persist
<1>3. QED
  BY <1>1, <1>2 DEF Serve

LEMMA SelfLookupLasts ==
  ASSUME IInv, SelfLookup, [Next]_vars, restarts' = restarts
  PROVE  SelfLookup'
<1>1. PICK r \in Requests : pc[r] = "lookup" /\ dbLock = r
  BY DEF SelfLookup
<1>2. dbLock # Free
  BY <1>1, ChainAssumption
<1>3. pc'[r] = pc[r] /\ dbLock' = dbLock
  BY <1>1, <1>2, Waits, StandsStill, HeldStays
<1>4. QED
  BY <1>1, <1>3 DEF SelfLookup

\* The job that waits for _db_lock keeps _chain_lock.
LEMMA StampedStays ==
  ASSUME IInv, NEW q \in Requests, chainLock = q, job[q] = "stamped", dbLock # Free,
         [Next]_vars, restarts' = restarts
  PROVE  chainLock' = q /\ job'[q] = "stamped"
<1>0. chainLock # Free
  BY ChainAssumption
<1>1. ASSUME NEW p \in Requests, Arrive(p) \/ Serve(p)
      PROVE  chainLock' = q /\ job'[q] = "stamped"
  <2>1. CASE Arrive(p) \/ StartGetDb(p) \/ GetDb(p) \/ Authenticate(p) \/ Lookup(p)
    BY <2>1 DEF Arrive, StartGetDb, GetDb, Authenticate, Lookup, chainVars, ChainButDbLock
  <2>2. CASE Handle(p) \/ Reset(p) \/ ExitDb(p) \/ StartPersist(p) \/ Persist(p)
    BY <2>2 DEF Handle, Purge, ClearRows, Reset, ResetPointer, ExitDb, StartPersist, Persist,
                chainVars, ChainButDbLock, locks
  <2>3. CASE Respond(p)
    <3>1. CASE Submit(p)
      BY <3>1 DEF Submit, SetJob, locks, IInv, Core, ChainInv, JobTypes
    <3>2. CASE UNCHANGED chainVars
      BY <3>2 DEF chainVars
    <3>3. QED
      BY <2>3, <3>1, <3>2 DEF Respond
  <2>4. QED
    BY <1>1, <2>1, <2>2, <2>3 DEF Serve
<1>2. ASSUME NEW p \in Requests PROVE ~Record(p)
  <2>1. ~Stamp(p) /\ ~Write(p)
    BY <1>0 DEF Stamp, Write
  <2>2. ~Finish(p)
    BY DEF Finish, IInv, Core, ChainInv, HoldsChain, UnderChain
  <2>3. QED
    BY <2>1, <2>2 DEF Record, AppendToChain
<1>3. CASE StartSync \/ EndSync \/ UNCHANGED vars
  BY <1>3 DEF StartSync, EndSync, vars, chainVars
<1>4. QED
  BY <1>1, <1>2, <1>3, NoRestart DEF Next

LEMMA ResetCycleLasts ==
  ASSUME IInv, ResetCycle, [Next]_vars, restarts' = restarts
  PROVE  ResetCycle'
<1>1. PICK r \in Requests, q \in Requests :
        pc[r] = "reset" /\ chainLock = q /\ job[q] = "stamped" /\ dbLock = r
  BY DEF ResetCycle
<1>2. dbLock # Free /\ chainLock # Free
  BY <1>1, ChainAssumption
<1>3. pc'[r] = pc[r] /\ dbLock' = dbLock
  BY <1>1, <1>2, Waits, StandsStill, HeldStays
<1>4. chainLock' = q /\ job'[q] = "stamped"
  BY <1>1, <1>2, StampedStays
<1>5. QED
  BY <1>1, <1>3, <1>4 DEF ResetCycle

\* Nobody enters a thread when there is none.
LEMMA NoneEnters ==
  ASSUME IInv, ~Thread, [Next]_vars, restarts' = restarts
  PROVE  InThread' \subseteq InThread
<1>1. SUFFICES ASSUME NEW r \in Requests, r \notin InThread, r \in InThread' PROVE FALSE
  BY DEF InThread
<1>2. pc[r] \notin {"getdb", "lookup", "reset", "persist"}
      /\ pc'[r] \in {"getdb", "lookup", "reset", "persist"}
  BY <1>1 DEF InThread
<1>3. Arrive(r) \/ Serve(r)
  BY <1>2, StandsStill
<1>4. \A label : Goto(r, label) => pc'[r] = label
  BY DEF Goto, IInv, Core, Threads
<1>5. ~Arrive(r) /\ ~ExitDb(r) /\ ~Respond(r)
  BY <1>2, <1>4 DEF Arrive, ExitDb, Respond
<1>6. ~StartGetDb(r) /\ ~GetDb(r) /\ ~Authenticate(r) /\ ~Lookup(r)
  BY <1>2 DEF StartGetDb, GetDb, Authenticate, Lookup
<1>7. ~Handle(r) /\ ~Reset(r) /\ ~StartPersist(r) /\ ~Persist(r)
  BY <1>2 DEF Handle, Reset, StartPersist, Persist
<1>8. QED
  BY <1>3, <1>5, <1>6, <1>7 DEF Serve

LEMMA PoolExhaustedLasts ==
  ASSUME IInv, PoolExhausted, [Next]_vars, restarts' = restarts
  PROVE  PoolExhausted'
<1>1. /\ ~Thread /\ dbLock # Free /\ pc[dbLock] \in {"auth", "handler"}
      /\ \A q \in InThread : pc[q] \in {"getdb", "lookup", "persist"}
  BY DEF PoolExhausted
<1>2. dbLock \in Requests
  BY <1>1 DEF IInv, Core, ChainInv, LockTypes
<1>3. dbLock' = dbLock /\ pc'[dbLock] = pc[dbLock]
  BY <1>1, <1>2, Waits, StandsStill, HeldStays
<1>4. \A q \in InThread : pc'[q] = pc[q]
  BY <1>1, Waits, StandsStill DEF InThread
<1>5. InThread \subseteq InThread'
  BY <1>4 DEF InThread
<1>6. InThread' = InThread
  BY <1>1, <1>5, NoneEnters
<1>7. ~Thread'
  BY <1>1, <1>6 DEF Thread
<1>8. QED
  BY <1>1, <1>3, <1>4, <1>6, <1>7 DEF PoolExhausted

LEMMA LoopBlockedLasts ==
  ASSUME IInv, LoopBlocked, [Next]_vars, restarts' = restarts
  PROVE  LoopBlocked'
<1>1. sync = "running" /\ dbLock # Free /\ pc[dbLock] \in {"auth", "handler", "exit"} /\ ~Loop
  BY DEF LoopBlocked, Loop
<1>2. dbLock \in Requests
  BY <1>1 DEF IInv, Core, ChainInv, LockTypes
<1>3. dbLock' = dbLock /\ pc'[dbLock] = pc[dbLock]
  BY <1>1, <1>2, Waits, StandsStill, HeldStays
<1>4. sync' = "running"
  BY <1>1, NoRestart DEF Next, StartSync, EndSync, syncVars, vars
<1>5. QED
  BY <1>1, <1>3, <1>4 DEF LoopBlocked

\* Once one of the four waits in its circle it does so until the process is started again,
\* whatever arrives, is answered or is recorded meanwhile.
THEOREM StallsAreForGood == Spec => StallsLast
<1>1. IInv /\ [Next]_vars =>
        [\/ restarts' # restarts
         \/ /\ SelfLookup => SelfLookup'
            /\ ResetCycle => ResetCycle'
            /\ PoolExhausted => PoolExhausted'
            /\ LoopBlocked => LoopBlocked']_vars
  BY SelfLookupLasts, ResetCycleLasts, PoolExhaustedLasts, LoopBlockedLasts
<1>2. QED
  BY <1>1, Invariance, PTL DEF Spec, StallsLast
=============================================================================
