--------------------------- MODULE MCRateLimits ----------------------------
(* Small instances of RateLimits for TLC. *)
EXTENDS RateLimits

CONSTANTS ip, path, user, a1, a2
=============================================================================
