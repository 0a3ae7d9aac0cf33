------------------------------ MODULE MCIngest ------------------------------
(***************************************************************************)
(* TLC instance of WafProxy: two requests share the one thread, an         *)
(* application inspects a request with the same API key, and server or     *)
(* proxy may restart.                                                      *)
(***************************************************************************)
EXTENDS WafProxy
CONSTANTS r1, r2, i1
=============================================================================
