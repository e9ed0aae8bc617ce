---------------------------- MODULE MCMasterWorker ----------------------------
(* Small instances of MasterWorker.                                           *)
EXTENDS MasterWorker, TLC

CONSTANTS w1, w2, p1, p2

\* Every process has a pid of its own.
OwnPids == w1 :> p1 @@ w2 :> p2

\* w2 can run only after w1 has ended, under the same pid.
ReusedPid == w1 :> p1 @@ w2 :> p1
===============================================================================
