--------------------------- MODULE MCRateLimiter ---------------------------
(***************************************************************************)
(* The rate limiter for TLC: a few requests with one key.                  *)
(***************************************************************************)
EXTENDS RateLimiter
=============================================================================
