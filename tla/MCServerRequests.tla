-------------------------- MODULE MCServerRequests --------------------------
(***************************************************************************)
(* TLC instance of ServerRequests: one request of each kind, one with an   *)
(* API key; the request ids of the first two are the same, as a client may *)
(* choose them.                                                            *)
(***************************************************************************)
EXTENDS ServerRequests, TLC

CONSTANTS r1, r2, r3

MCIdOf == (r1 :> "a") @@ (r2 :> "a") @@ (r3 :> "b")
MixedKinds == (r1 :> "session") @@ (r2 :> "reset") @@ (r3 :> "events")
MixedCreds == (r1 :> "jwt") @@ (r2 :> "jwt") @@ (r3 :> "key")
=============================================================================
