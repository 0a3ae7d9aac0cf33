-------------------------- MODULE MCTelemetryBuffer --------------------------
(***************************************************************************)
(* TLC instance of TelemetryBuffer: a channel of two, batches of two and   *)
(* five Sends are enough for a full channel, a full batch, a ticker flush  *)
(* of a partial batch, and Sends racing every step of the shutdown.        *)
(***************************************************************************)
EXTENDS TelemetryBuffer
=============================================================================
