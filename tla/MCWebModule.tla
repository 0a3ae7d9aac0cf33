----------------------------- MODULE MCWebModule -----------------------------
(***************************************************************************)
(* TLC instance of WebModule: three requests, two of them from one         *)
(* address, one with a body through nginx; the two addresses share no      *)
(* bucket.                                                                 *)
(***************************************************************************)
EXTENDS WebModule
CONSTANTS r1, r2, r3

TwoBuckets == [a \in Addrs |-> IF a = "a" THEN 1 ELSE 2]
MixedAddrs == [r \in Reqs |-> IF r = r3 THEN "b" ELSE "a"]
MixedServers == [r \in Reqs |-> IF r = r2 THEN "nginx" ELSE "apache"]
=============================================================================
