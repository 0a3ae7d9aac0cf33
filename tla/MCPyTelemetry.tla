---------------------------- MODULE MCPyTelemetry ----------------------------
(***************************************************************************)
(* TLC instance of PyTelemetry: one address and one CVE besides the        *)
(* events' rows, an event queue longer than a batch, and a write queue of  *)
(* two that fills. Two of the three calls may be writes to the same row.   *)
(***************************************************************************)
EXTENDS PyTelemetry

CONSTANTS ip, cve

MCKeys == Events \cup {ip, cve}
MCAddresses == {ip}
=============================================================================
