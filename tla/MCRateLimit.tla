---------------------------- MODULE MCRateLimit -----------------------------
(***************************************************************************)
(* RateLimit on small instances: a bucket in Redis for long enough to       *)
(* expire, and three clients of a process that tracks two.                  *)
(***************************************************************************)
EXTENDS RateLimit

CONSTANTS c1, c2, c3

InRedis(limiter) == [limiter |-> limiter, shared |-> TRUE, callers |-> {c1}, horizon |-> 11]
InProcess == [limiter |-> "route", shared |-> FALSE, callers |-> {c1, c2, c3}, horizon |-> 4]

MCDeployments == {InRedis("route"), InRedis("geocode"), InProcess}
=============================================================================
