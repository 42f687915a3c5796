----------------------------- MODULE MCSemaphore -----------------------------
(* Small instances of Semaphore for TLC. *)
EXTENDS Semaphore

CONSTANTS a, b, c

TwoThreads   == {a, b}
LoneAcquirer == {a}
TwoPosters   == {b, c}

SomeBatches == {0, 2}
FullBatches == {1, 2}
=============================================================================
