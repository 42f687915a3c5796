-------------------------- MODULE CountingSemaphore --------------------------
(***************************************************************************)
(* What a user of uga_semaphore expects from it: a number of permits that  *)
(* an acquire takes one of, if there is one, and a release adds to.        *)
(***************************************************************************)
EXTENDS Integers

CONSTANTS Batches, InitVal

VARIABLE permits

Init == permits = InitVal

Acquire == permits > 0 /\ permits' = permits - 1

Release(n) == permits' = permits + n

Next == Acquire \/ \E n \in Batches \union {1} : Release(n)

Spec == Init /\ [][Next]_permits
=============================================================================
