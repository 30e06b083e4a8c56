--------------------------- MODULE MCAsyncRequest ---------------------------
(***************************************************************************)
(* Instances of AsyncRequest for TLC: two requests, two outcomes besides   *)
(* (nil, nil), three callbacks and one foreign block kind.                 *)
(***************************************************************************)
EXTENDS AsyncRequest

CONSTANTS r1, r2, v1, v2

MCRequests == {r1, r2}
MCOutcomes == {NoOutcome, v1, v2}

=============================================================================
