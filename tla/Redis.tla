-------------------------------- MODULE Redis --------------------------------
(***************************************************************************)
(* The Redis server the API shares between its rate limits and its cache   *)
(* of the public progress: reachable or not, and the clock that makes its  *)
(* keys expire.  A command sent while it is out of reach fails without     *)
(* effect.                                                                 *)
(***************************************************************************)
EXTENDS Integers, FiniteSets

VARIABLE up  \* Redis can be reached

Outage   == up /\ up' = FALSE
Recovery == ~up /\ up' = TRUE

\* What a tick leaves of a key's time to live; 0 is none.
Left(ttl) == IF ttl > 0 THEN ttl - 1 ELSE 0
=============================================================================
