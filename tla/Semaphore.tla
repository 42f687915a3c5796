------------------------------ MODULE Semaphore ------------------------------
(***************************************************************************)
(* uga_semaphore of uga_thread.c, statement by statement: a counter, a     *)
(* mutex and a condition variable.  Every thread runs uga_sem_acquire,     *)
(* uga_sem_release and uga_sem_release_n in any order; pc says which       *)
(* statement is next.  `--sem->val' and `sem->val += count' are a load and *)
(* a store (the Makefile builds with -O0), so only the mutex keeps two     *)
(* updates apart.                                                          *)
(*                                                                         *)
(*   idle          outside the semaphore                                   *)
(*   acq_lock      uga_sem_acquire wants the mutex       (line 255)        *)
(*   test          looks at the counter                  (line 258)        *)
(*   fast, green   before --val: green on entry (261), or after the wait   *)
(*                 (268);  fast_store, green_store: the store of it        *)
(*   waiting       asleep in uga_cnd_wait, mutex given back (266)          *)
(*   relock        signalled, wants the mutex back        (266)            *)
(*   rel_lock      uga_sem_release(_n) wants the mutex    (275, 288)       *)
(*   add           before val += count; add_store: the store (278, 291)    *)
(*   ping          before the signal or broadcast         (281, 294)       *)
(*   unlock        before uga_mtx_release                                  *)
(***************************************************************************)
EXTENDS Integers, FiniteSets

CONSTANTS Acquirers,    \* threads that call uga_sem_acquire
          Posters,      \* threads that call uga_sem_release and _release_n
          Batches,      \* counts uga_sem_release_n is called with
          InitVal,      \* argument of uga_sem_init
          MaxCalls,     \* bound: calls made by one thread
          MaxSpurious,  \* bound: spurious returns of cnd_wait
          None          \* owner of a free mutex

Threads == Acquirers \union Posters

ASSUME SemaphoreConstants ==
  /\ IsFiniteSet(Threads)
  /\ Batches \subseteq Nat
  /\ InitVal \in Int
  /\ MaxCalls \in Nat /\ MaxSpurious \in Nat
  /\ None \notin Threads

VARIABLES val,       \* sem->val
          owner,     \* holder of sem->mtx
          pc,        \* next statement of each thread
          reg,       \* the value of val each thread has loaded
          count,     \* argument of the release in progress
          all,       \* TRUE: it is a uga_sem_release_n and broadcasts
          calls,     \* calls made so far, for the bound
          spurious,  \* spurious wake-ups so far, for the bound
          posted,    \* history: permits added by releases
          admitted   \* history: acquires that decreased the counter

vars == <<val, owner, pc, reg, count, all, calls, spurious, posted, admitted>>

Waiting == {t \in Threads : pc[t] = "waiting"}
Woken   == {t \in Threads : pc[t] \in {"relock", "green", "green_store"}}

Holding == {"test", "fast", "fast_store", "green", "green_store",
            "add", "add_store", "ping", "unlock"}

Init ==
  /\ val = InitVal
  /\ owner = None
  /\ pc = [t \in Threads |-> "idle"]
  /\ reg = [t \in Threads |-> 0]
  /\ count = [t \in Threads |-> 1]
  /\ all = [t \in Threads |-> FALSE]
  /\ calls = [t \in Threads |-> 0]
  /\ spurious = 0
  /\ posted = 0 /\ admitted = 0

Goto(t, label) == pc' = [pc EXCEPT ![t] = label]

Call(t, label) ==
  /\ pc[t] = "idle" /\ calls[t] < MaxCalls
  /\ calls' = [calls EXCEPT ![t] = @ + 1]
  /\ Goto(t, label)
  /\ UNCHANGED <<val, owner, reg, spurious, posted, admitted>>

CallAcquire(t) ==
  /\ t \in Acquirers
  /\ Call(t, "acq_lock")
  /\ UNCHANGED <<count, all>>

CallRelease(t) ==
  /\ t \in Posters
  /\ Call(t, "rel_lock")
  /\ count' = [count EXCEPT ![t] = 1]
  /\ all' = [all EXCEPT ![t] = FALSE]

CallReleaseN(t, n) ==
  /\ t \in Posters
  /\ Call(t, "rel_lock")
  /\ count' = [count EXCEPT ![t] = n]
  /\ all' = [all EXCEPT ![t] = TRUE]

\* Where a thread that wants the mutex continues once it has it.
GotoLocked(t) ==
  \/ pc[t] = "acq_lock" /\ Goto(t, "test")
  \/ pc[t] = "relock"   /\ Goto(t, "green")
  \/ pc[t] = "rel_lock" /\ Goto(t, "add")

\* Mutant: the mutex is not taken.
MtxAcquireUnlocked(t) ==
  /\ owner' = t
  /\ GotoLocked(t)
  /\ UNCHANGED <<val, reg, count, all, calls, spurious, posted, admitted>>

\* uga_mtx_acquire, and the return of uga_cnd_wait, which takes the mutex back.
MtxAcquire(t) ==
  /\ owner = None
  /\ owner' = t
  /\ GotoLocked(t)
  /\ UNCHANGED <<val, reg, count, all, calls, spurious, posted, admitted>>

\* Mutant: the counter is compared with >= 0.
TestZeroIsGreen(t) ==
  /\ pc[t] = "test"
  /\ val >= 0
  /\ Goto(t, "fast")
  /\ UNCHANGED <<val, owner, reg, count, all, calls, spurious, posted, admitted>>

TestGreen(t) ==
  /\ pc[t] = "test"
  /\ val > 0
  /\ Goto(t, "fast")
  /\ UNCHANGED <<val, owner, reg, count, all, calls, spurious, posted, admitted>>

\* cnd_wait gives the mutex back and starts to wait in one step.
CndWait(t) ==
  /\ pc[t] = "test"
  /\ val <= 0
  /\ owner' = None
  /\ Goto(t, "waiting")
  /\ UNCHANGED <<val, reg, count, all, calls, spurious, posted, admitted>>

Load(t) ==
  /\ \/ pc[t] = "fast"  /\ Goto(t, "fast_store")
     \/ pc[t] = "green" /\ Goto(t, "green_store")
     \/ pc[t] = "add"   /\ Goto(t, "add_store")
  /\ reg' = [reg EXCEPT ![t] = val]
  /\ UNCHANGED <<val, owner, count, all, calls, spurious, posted, admitted>>

Decrease(t) ==
  /\ pc[t] \in {"fast_store", "green_store"}
  /\ val' = reg[t] - 1
  /\ admitted' = admitted + 1
  /\ Goto(t, "unlock")
  /\ UNCHANGED <<owner, reg, count, all, calls, spurious, posted>>

Increase(t) ==
  /\ pc[t] = "add_store"
  /\ val' = reg[t] + count[t]
  /\ posted' = posted + count[t]
  /\ Goto(t, "ping")
  /\ UNCHANGED <<owner, reg, count, all, calls, spurious, admitted>>

\* Mutant: signal only when the counter leaves zero.
PingOnFirstPermit(t) ==
  /\ pc[t] = "ping" /\ ~all[t]
  /\ \/ val # 1 /\ Goto(t, "unlock")
     \/ Waiting = {} /\ Goto(t, "unlock")
     \/ \E w \in Waiting : val = 1 /\ pc' = [pc EXCEPT ![t] = "unlock", ![w] = "relock"]
  /\ UNCHANGED <<val, owner, reg, count, all, calls, spurious, posted, admitted>>

\* uga_cnd_ping: one waiting thread, any, starts to compete for the mutex.
Ping(t) ==
  /\ pc[t] = "ping" /\ ~all[t]
  /\ \/ Waiting = {} /\ Goto(t, "unlock")
     \/ \E w \in Waiting : pc' = [pc EXCEPT ![t] = "unlock", ![w] = "relock"]
  /\ UNCHANGED <<val, owner, reg, count, all, calls, spurious, posted, admitted>>

\* Mutant: uga_sem_release_n wakes a single thread.
PingAllWakesOne(t) ==
  /\ pc[t] = "ping" /\ all[t]
  /\ \/ Waiting = {} /\ Goto(t, "unlock")
     \/ \E w \in Waiting : pc' = [pc EXCEPT ![t] = "unlock", ![w] = "relock"]
  /\ UNCHANGED <<val, owner, reg, count, all, calls, spurious, posted, admitted>>

\* uga_cnd_ping_all.
PingAll(t) ==
  /\ pc[t] = "ping" /\ all[t]
  /\ pc' = [u \in Threads |-> IF u = t THEN "unlock"
                              ELSE IF u \in Waiting THEN "relock" ELSE pc[u]]
  /\ UNCHANGED <<val, owner, reg, count, all, calls, spurious, posted, admitted>>

\* Mutant: a return that forgets the mutex.
MtxReleaseForgotten(t) ==
  /\ pc[t] = "unlock"
  /\ Goto(t, "idle")
  /\ UNCHANGED <<owner, val, reg, count, all, calls, spurious, posted, admitted>>

MtxRelease(t) ==
  /\ pc[t] = "unlock"
  /\ owner' = None
  /\ Goto(t, "idle")
  /\ UNCHANGED <<val, reg, count, all, calls, spurious, posted, admitted>>

\* C11 lets cnd_wait return although nobody signalled.
SpuriousWakeUp(t) ==
  /\ pc[t] = "waiting"
  /\ spurious < MaxSpurious
  /\ spurious' = spurious + 1
  /\ Goto(t, "relock")
  /\ UNCHANGED <<val, owner, reg, count, all, calls, posted, admitted>>

\* The calls a thread may decide to make.
Invoke(t) ==
  \/ CallAcquire(t)
  \/ CallRelease(t)
  \/ \E n \in Batches : CallReleaseN(t, n)

\* The steps of a call in progress.
Step(t) ==
  \/ MtxAcquire(t) \/ MtxRelease(t)
  \/ TestGreen(t) \/ CndWait(t)
  \/ Load(t) \/ Decrease(t) \/ Increase(t)
  \/ Ping(t) \/ PingAll(t)

Next == \E t \in Threads : Invoke(t) \/ Step(t) \/ SpuriousWakeUp(t)

Spec == Init /\ [][Next]_vars

(***************************************************************************)
(* The scheduler runs every thread that can run.  Nothing forces a thread  *)
(* to make a call, or a condition variable to wake without a signal.       *)
(***************************************************************************)
FairSpec == Spec /\ \A t \in Threads : WF_vars(Step(t))

-----------------------------------------------------------------------------
Labels == Holding \union {"idle", "acq_lock", "rel_lock", "waiting", "relock"}

\* Every variable has its type; a release in progress posts what it was asked to.
TypeOK ==
  /\ val \in Int
  /\ owner \in Threads \union {None}
  /\ pc \in [Threads -> Labels]
  /\ reg \in [Threads -> Int]
  /\ count \in [Threads -> Batches \union {1}]
  /\ all \in [Threads -> BOOLEAN]
  /\ calls \in [Threads -> 0..MaxCalls]
  /\ spurious \in 0..MaxSpurious
  /\ posted \in Nat
  /\ admitted \in Nat

(***************************************************************************)
(* No update of the counter is lost: whatever the interleaving of the      *)
(* loads and stores of `--sem->val' and `sem->val += count', the counter   *)
(* is its first value plus what was posted minus the acquires let through. *)
(***************************************************************************)
Conservation == val = InitVal + posted - admitted

(***************************************************************************)
(* No permit lies on the counter next to a sleeping thread: once a release *)
(* has pinged, every permit left has a thread already woken to take it.    *)
(* uga_sem_release pings one thread only, and an acquire may overtake the  *)
(* thread it pinged.                                                       *)
(***************************************************************************)
NoStrandedPost ==
  Waiting # {} /\ (\A t \in Threads : pc[t] # "ping") => val <= Cardinality(Woken)

(***************************************************************************)
(* What a counting semaphore is for: never more threads let through than   *)
(* permits were there to take.  uga_sem_acquire does not look at the       *)
(* counter again after uga_cnd_wait, so this holds for a single acquiring  *)
(* thread, without empty batches and spurious wake-ups, and for no two.    *)
(***************************************************************************)
AdmissionsWithinPosts == admitted <= InitVal + posted

(***************************************************************************)
(* The statements of a call take effect as if its critical section were    *)
(* one step: this module implements SemAtomic.  A release counts from its  *)
(* ping on, because a thread it wakes is released by that statement.       *)
(***************************************************************************)
valAtomic ==
  IF owner # None /\ pc[owner] = "ping" THEN val - count[owner] ELSE val

Atomic == INSTANCE SemAtomic WITH val <- valAtomic, waiting <- Waiting, woken <- Woken

AtomicSpec == Atomic!Spec

\* The semaphore of the textbooks, implemented when only one thread acquires.
Ideal == INSTANCE CountingSemaphore WITH permits <- val

IdealSpec == Ideal!Spec

(***************************************************************************)
(* Every call gets as far as returning, or sleeping in uga_cnd_wait.       *)
(***************************************************************************)
CallsSettle ==
  \A t \in Threads : pc[t] # "idle" ~> pc[t] \in {"idle", "waiting"}
=============================================================================
