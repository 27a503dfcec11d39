---------------------------- MODULE MCBroadcast ----------------------------
(* The instance of Broadcast that TLC checks.                              *)
EXTENDS Broadcast, TLC

TwoWorkers == {1, 2}

(* Worker 2 has no backend.                                                *)
TwoActive == {0, 1}
=============================================================================
