------------------------------ MODULE MCBridge ------------------------------
(* The bridge on small instances; every worker thread is interchangeable.  *)
EXTENDS Bridge, TLC

CONSTANTS t1, t2

MCThreads == {t1, t2}
ThreadSymmetry == Permutations(MCThreads)
=============================================================================
