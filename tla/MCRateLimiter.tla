---------------------------- MODULE MCRateLimiter ----------------------------
EXTENDS RateLimiter, TLC

CONSTANTS a1, a2, a3, v4, v6

\* Two spellings of one IPv6 address, and an IPv4 address.
MCClientOf == a1 :> v4 @@ a2 :> v6 @@ a3 :> v6
=============================================================================
