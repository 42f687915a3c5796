------------------------------ MODULE MCWaits -------------------------------
(* Small instances of Waits for TLC. *)
EXTENDS Waits

CONSTANTS f1, f2, f3, t1, t2

ThreeFds   == {f1, f2, f3}
TwoThreads == {t1, t2}
=============================================================================
