------------------------------- MODULE AuditLog -------------------------------
(***************************************************************************)
(* What the server's audit trail promises (server/app/middleware/audit.py, *)
(* "Record every API access with a HMAC-SHA256 chain seal"): a log that    *)
(* grows at the end, one record at a time. A record can fail to be         *)
(* written; then it is absent and the log goes on without it. Only an      *)
(* administrator shortens the log, from the old end.                       *)
(***************************************************************************)
EXTENDS Naturals, Sequences

CONSTANT Records

VARIABLE log  \* the records, oldest first

Init == log = <<>>

\* A record is written at the end, at most once.
Append1(r) == /\ \A i \in DOMAIN log : log[i] # r
              /\ log' = Append(log, r)

\* Purge and reset drop the oldest records, the latter all of them.
Drop(n) == log' = SubSeq(log, n + 1, Len(log))

Next == \/ \E r \in Records : Append1(r)
        \/ \E n \in 1 .. Len(log) : Drop(n)

Spec == Init /\ [][Next]_log
=============================================================================
