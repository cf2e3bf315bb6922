------------------------------- MODULE MCRedis -------------------------------
(***************************************************************************)
(* An instance of the backend's Redis breaker.  A window of two seconds    *)
(* sees enough samples for the statistical detector, and the cooldown is   *)
(* shorter than the window, so a recovery meets the samples of the failure *)
(* it recovers from; two probes overlap, so one can end the half-open      *)
(* period while the other is out.                                          *)
(***************************************************************************)
EXTENDS RedisBreaker

CONSTANTS c1, c2

\* Fast and slow successes, errors, and timeouts that ioredis reports at once
\* (a command queued behind a connection attempt that times out).
SomeSettlements ==
  {[outcome |-> "SUCCESS", band |-> 1], [outcome |-> "SUCCESS", band |-> 2],
   [outcome |-> "REDIS_ERROR", band |-> 1], [outcome |-> "TIMEOUT", band |-> 1]}
=============================================================================
