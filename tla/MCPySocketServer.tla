--------------------------- MODULE MCPySocketServer ---------------------------
(***************************************************************************)
(* TLC instance of PySocketServer: three connections on two workers, so    *)
(* that one waits in the pool while stop runs.                             *)
(***************************************************************************)
EXTENDS PySocketServer

CONSTANTS c1, c2, c3
=============================================================================
