------------------------------ MODULE SemAtomic ------------------------------
(***************************************************************************)
(* The counting semaphore of uga_thread.c at the grain of its critical     *)
(* sections: one step is everything a call does between locking and        *)
(* unlocking sem->mtx.  Semaphore.tla, where every statement is a step of  *)
(* its own, implements this module; ThreadPool.tla is built from it.       *)
(*                                                                         *)
(* A caller of uga_sem_acquire that finds the counter red is `waiting' on  *)
(* the condition variable; once signalled it is `woken' and will take a    *)
(* permit when it gets the mutex back, without another look at the         *)
(* counter.                                                                *)
(***************************************************************************)
EXTENDS Integers, FiniteSets

CONSTANTS Threads,   \* the threads that use the semaphore
          Batches,   \* the counts uga_sem_release_n is called with
          InitVal    \* the argument of uga_sem_init

VARIABLES val, waiting, woken

semVars == <<val, waiting, woken>>

Init == val = InitVal /\ waiting = {} /\ woken = {}

Outside(t) == t \notin waiting \union woken

\* Mutant: zero counts as green.
FastAcquireAtZero(t) ==
  /\ Outside(t)
  /\ val >= 0
  /\ val' = val - 1
  /\ UNCHANGED <<waiting, woken>>

\* uga_sem_acquire that finds the counter green.
FastAcquire(t) ==
  /\ Outside(t)
  /\ val > 0
  /\ val' = val - 1
  /\ UNCHANGED <<waiting, woken>>

\* uga_sem_acquire that finds it red and goes to sleep in uga_cnd_wait.
Block(t) ==
  /\ Outside(t)
  /\ val <= 0
  /\ waiting' = waiting \union {t}
  /\ UNCHANGED <<val, woken>>

\* uga_cnd_wait returned with the mutex held: decrease, whatever the counter is.
Resume(t) ==
  /\ t \in woken
  /\ woken' = woken \ {t}
  /\ val' = val - 1
  /\ UNCHANGED waiting

\* uga_sem_release: one permit, and one of the waiting threads is signalled.
Post ==
  /\ val' = val + 1
  /\ \/ waiting = {} /\ UNCHANGED <<waiting, woken>>
     \/ \E t \in waiting : /\ waiting' = waiting \ {t}
                           /\ woken' = woken \union {t}

\* uga_sem_release_n: n permits, and every waiting thread is signalled.
PostN(n) ==
  /\ val' = val + n
  /\ waiting' = {}
  /\ woken' = woken \union waiting

\* A condition variable may return from a wait nobody ended.
Spurious(t) ==
  /\ t \in waiting
  /\ waiting' = waiting \ {t}
  /\ woken' = woken \union {t}
  /\ UNCHANGED val

Next ==
  \/ Post
  \/ \E n \in Batches : PostN(n)
  \/ \E t \in Threads : FastAcquire(t) \/ Block(t) \/ Resume(t) \/ Spurious(t)

Spec == Init /\ [][Next]_semVars

-----------------------------------------------------------------------------
TypeOK ==
  /\ val \in Int
  /\ waiting \subseteq Threads
  /\ woken \subseteq Threads
  /\ waiting \intersect woken = {}

(***************************************************************************)
(* No permit is left on the counter while a thread sleeps next to it: as   *)
(* long as somebody waits, each permit has a thread that was already       *)
(* woken to take it.  This is what makes pinging only one thread in        *)
(* uga_sem_release enough.                                                 *)
(***************************************************************************)
NoStrandedPost == waiting # {} => val <= Cardinality(woken)
=============================================================================
