----------------------------- MODULE MCPyPipeline -----------------------------
(***************************************************************************)
(* TLC instance of PyPipeline: two calls of check, with requests for every *)
(* way out of check: a static file that holds an injection, a known CVE,   *)
(* an injection, a clean body with and without an anomaly, a body with a   *)
(* clean and a malicious part, one and the same file declared as what it   *)
(* is and as what it is not, and a large one. A write queue of one, which  *)
(* fills; one reload; the database may be closed.                          *)
(***************************************************************************)
EXTENDS PyPipeline

CONSTANTS c1, c2, good, evil, spoof, cve, mark, own, other

Plain == [static |-> FALSE, sigs |-> {}, injection |-> FALSE, anomalous |-> FALSE,
          type |-> own, size |-> "none", parts |-> <<>>]

MCRequests == {[Plain EXCEPT !.static = TRUE, !.injection = TRUE],
               [Plain EXCEPT !.sigs = {cve}],
               [Plain EXCEPT !.injection = TRUE],
               [Plain EXCEPT !.anomalous = TRUE, !.size = "full", !.parts = <<good>>],
               [Plain EXCEPT !.size = "full", !.parts = <<good>>],
               [Plain EXCEPT !.size = "full", !.parts = <<good, evil>>],
               [Plain EXCEPT !.size = "sampled", !.parts = <<spoof>>],
               [Plain EXCEPT !.type = other, !.size = "sampled", !.parts = <<spoof>>],
               [Plain EXCEPT !.size = "large", !.parts = <<evil>>]}
MCMarksOf == [k \in {good, evil, spoof} |-> IF k = evil THEN {mark} ELSE {}]
MCTypes == {own, other}
MCSpoofedAs == [t \in MCTypes |-> IF t = other THEN {spoof} ELSE {}]
MCCalls == {c1, c2}
MCKeys == {good, evil, spoof}
=============================================================================
