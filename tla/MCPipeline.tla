----------------------------- MODULE MCPipeline -----------------------------
(***************************************************************************)
(* TLC instance of Pipeline: two workers, one address, and one request     *)
(* for each way through Check. The upload has two scan targets, a clean    *)
(* one first; the queue holds two writes.                                  *)
(***************************************************************************)
EXTENDS Pipeline

Plain(ip) == [ip |-> ip, static |-> FALSE, sigs |-> {}, injection |-> FALSE,
              type |-> "form", large |-> FALSE, targets |-> <<>>, anomalous |-> FALSE]

\* Harmless, with a body too large to be scanned inline; static; matching in tier 1; in
\* tier 2; and an upload whose first target a YARA rule
\* matches when it is loaded, whose second target fails the magic byte check, and which
\* the scorer blocks when its first target is known to be clean.
MixedRequests == {
  [Plain("a") EXCEPT !.large = TRUE, !.targets = <<"body">>],
  [Plain("a") EXCEPT !.static = TRUE],
  [Plain("a") EXCEPT !.sigs = {"log4shell"}],
  [Plain("a") EXCEPT !.injection = TRUE],
  [Plain("a") EXCEPT !.type = "image", !.targets = <<"body", "script">>,
                     !.anomalous = TRUE]}

MCIPs == {"a"}
MCContents == {"body", "script"}
MCTypes == {"form", "image"}
MCSpoofedAs == [t \in MCTypes |-> IF t = "image" THEN {"script"} ELSE {}]
MCKeys == MCIPs \cup MCContents
MCMarksOf == [c \in MCContents |-> IF c = "body" THEN {"webshell"} ELSE {}]
=============================================================================
