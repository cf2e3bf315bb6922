------------------------------- MODULE MCEdge -------------------------------
(***************************************************************************)
(* Instances of the edge node.  EdgeRequests: one worker with two          *)
(* overlapping requests, a stable and a canary upstream, a limit of one    *)
(* request in flight.  EdgeBreakers and GlobalBreaker: two workers that    *)
(* race for the breakers of one upstream and of the node.                  *)
(***************************************************************************)
EXTENDS EdgeGateway, TLC

CONSTANTS u1, u2, r1, r2, w1, w2

BothNames == {u1, u2, Global}
OneName == {u1, Global}
SameWorker == r1 :> w1 @@ r2 :> w1
TwoWorkers == r1 :> w1 @@ r2 :> w2
=============================================================================
