---------------------------- MODULE MCSocketServer ----------------------------
(***************************************************************************)
(* TLC instances of SocketServer: two connections for one worker.       *)
(***************************************************************************)
EXTENDS SocketServer, TLC

CONSTANTS c1, c2
=============================================================================
