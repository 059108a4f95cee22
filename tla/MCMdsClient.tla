----------------------------- MODULE MCMdsClient -----------------------------
(* Three requests, so that one can refresh, another can find the token       *)
(* refreshed and a third can be caught between the two.                      *)
EXTENDS MdsClient

CONSTANTS w1, w2, w3

MCWorker == {w1, w2, w3}
=============================================================================
