---------------------------- MODULE VerdictService ----------------------------
(***************************************************************************)
(* What an agent promises to the web server modules over its socket: a     *)
(* connection is answered at most once, with BLOCK only when the pipeline  *)
(* decided BLOCK for its request, and may be closed with no answer at all; *)
(* the modules then pass the request (fail-open).                          *)
(***************************************************************************)
CONSTANT Conns

VARIABLES
  state,    \* state[c]: "new", "open" or "closed"
  verdict,  \* verdict[c]: what the pipeline decided, "none" before
  answer    \* answer[c]: what the client was sent, "none" before

vars == <<state, verdict, answer>>

Init == /\ state = [c \in Conns |-> "new"]
        /\ verdict = [c \in Conns |-> "none"]
        /\ answer = [c \in Conns |-> "none"]

Connect(c) == /\ state[c] = "new" /\ state' = [state EXCEPT ![c] = "open"]
              /\ UNCHANGED <<verdict, answer>>

Decide(c) == /\ state[c] = "open" /\ verdict[c] = "none" /\ answer[c] = "none"
             /\ \E v \in {"PERMIT", "BLOCK"} : verdict' = [verdict EXCEPT ![c] = v]
             /\ UNCHANGED <<state, answer>>

Reply(c) == /\ state[c] = "open" /\ answer[c] = "none"
            /\ \E a \in {"PERMIT", "BLOCK"} :
                 /\ a = "BLOCK" => verdict[c] = "BLOCK"
                 /\ answer' = [answer EXCEPT ![c] = a]
            /\ UNCHANGED <<state, verdict>>

\* Several connections can end at once: those a closed listener had not accepted.
Close(S) == /\ \A c \in S : state[c] = "open"
            /\ state' = [c \in Conns |-> IF c \in S THEN "closed" ELSE state[c]]
            /\ UNCHANGED <<verdict, answer>>

Next == \/ \E c \in Conns : Connect(c) \/ Decide(c) \/ Reply(c)
        \/ \E S \in SUBSET Conns : Close(S)

Spec == Init /\ [][Next]_vars
=============================================================================
