--------------------------- MODULE SemaphoreProofs ---------------------------
(***************************************************************************)
(* Theorems about Semaphore, for any number of threads and any bounds.     *)
(*                                                                         *)
(* The inductive invariant says what the mutex gives: a thread inside the  *)
(* critical section is the owner, so what it has loaded from the counter   *)
(* is still the counter when it stores.                                    *)
(***************************************************************************)
EXTENDS Semaphore, FiniteSetTheorems, TLAPS

MutexInv == \A t \in Threads : pc[t] \in Holding => owner = t

LoadedInv ==
  \A t \in Threads : pc[t] \in {"fast_store", "green_store", "add_store"} => reg[t] = val

IInv == TypeOK /\ MutexInv /\ LoadedInv /\ Conservation

\* The initial state satisfies the inductive invariant.
LEMMA InitIInv == Init => IInv
BY SemaphoreConstants DEF Init, IInv, TypeOK, MutexInv, LoadedInv, Conservation, Holding, Labels

\* A release never takes permits away.
LEMMA CountNat == ASSUME TypeOK, NEW t \in Threads PROVE count[t] \in Nat
<1>1. count[t] \in Batches \union {1} BY DEF TypeOK
<1>2. Batches \union {1} \subseteq Nat BY SemaphoreConstants DEF SemaphoreConstants
<1>3. QED BY <1>1, <1>2

\* Every step keeps every variable in its type.
LEMMA TypeStep == ASSUME TypeOK, [Next]_vars PROVE TypeOK'
<1> USE SemaphoreConstants DEF TypeOK, Holding, Labels
<1>1. CASE UNCHANGED vars
  BY <1>1 DEF vars
<1>2. ASSUME NEW t \in Threads, Invoke(t) PROVE TypeOK'
  <2>1. CASE CallAcquire(t)
    BY <2>1 DEF CallAcquire, Call, Goto
  <2>2. CASE CallRelease(t)
    BY <2>2 DEF CallRelease, Call, Goto
  <2>3. ASSUME NEW n \in Batches, CallReleaseN(t, n) PROVE TypeOK'
    BY <2>3 DEF CallReleaseN, Call, Goto
  <2>4. QED BY <1>2, <2>1, <2>2, <2>3 DEF Invoke
<1>3. ASSUME NEW t \in Threads, SpuriousWakeUp(t) PROVE TypeOK'
  BY <1>3 DEF SpuriousWakeUp, Goto
<1>4. ASSUME NEW t \in Threads, Step(t) PROVE TypeOK'
  <2>1. CASE MtxAcquire(t)
    BY <2>1 DEF MtxAcquire, GotoLocked, Goto
  <2>2. CASE MtxRelease(t)
    BY <2>2 DEF MtxRelease, Goto
  <2>3. CASE TestGreen(t) \/ CndWait(t)
    BY <2>3 DEF TestGreen, CndWait, Goto
  <2>4. CASE Load(t)
    BY <2>4 DEF Load, Goto
  <2>5. CASE Decrease(t)
    BY <2>5 DEF Decrease, Goto
  <2>6. CASE Increase(t)
    <3>1. count[t] \in Nat BY CountNat
    <3>2. val' \in Int /\ posted' \in Nat BY <2>6, <3>1 DEF Increase
    <3>3. QED BY <2>6, <3>2 DEF Increase, Goto
  <2>7. CASE Ping(t)
    <3>1. CASE Goto(t, "unlock")
      BY <2>7, <3>1 DEF Ping, Goto
    <3>2. ASSUME NEW w \in Waiting, pc' = [pc EXCEPT ![t] = "unlock", ![w] = "relock"]
          PROVE  TypeOK'
      <4>1. w \in Threads BY DEF Waiting
      <4>2. pc' \in [Threads -> Labels] BY <3>2, <4>1
      <4>3. QED BY <2>7, <4>2 DEF Ping
    <3>3. QED BY <2>7, <3>1, <3>2 DEF Ping
  <2>8. CASE PingAll(t)
    <3>1. pc' \in [Threads -> Labels] BY <2>8 DEF PingAll, Waiting
    <3>2. QED BY <2>8, <3>1 DEF PingAll
  <2>9. QED BY <1>4, <2>1, <2>2, <2>3, <2>4, <2>5, <2>6, <2>7, <2>8 DEF Step
<1>5. QED BY <1>1, <1>2, <1>3, <1>4 DEF Next

\* Only the owner is inside the critical section, after every step.
LEMMA MutexStep == ASSUME TypeOK, MutexInv, [Next]_vars PROVE MutexInv'
<1> USE SemaphoreConstants DEF TypeOK, MutexInv, Holding
<1>1. CASE UNCHANGED vars
  BY <1>1 DEF vars
<1>2. ASSUME NEW t \in Threads, Invoke(t) PROVE MutexInv'
  <2>1. PICK l \in {"acq_lock", "rel_lock"} : Goto(t, l) /\ owner' = owner
    BY <1>2 DEF Invoke, CallAcquire, CallRelease, CallReleaseN, Call
  <2>2. QED BY <2>1 DEF Goto
<1>3. ASSUME NEW t \in Threads, SpuriousWakeUp(t) PROVE MutexInv'
  BY <1>3 DEF SpuriousWakeUp, Goto
<1>4. ASSUME NEW t \in Threads, Step(t) PROVE MutexInv'
  <2>1. CASE MtxAcquire(t)
    BY <2>1 DEF MtxAcquire, GotoLocked, Goto
  <2>2. CASE MtxRelease(t)
    BY <2>2 DEF MtxRelease, Goto
  <2>3. CASE TestGreen(t)
    BY <2>3 DEF TestGreen, Goto
  <2>4. CASE CndWait(t)
    BY <2>4 DEF CndWait, Goto
  <2>5. CASE Load(t)
    BY <2>5 DEF Load, Goto
  <2>6. CASE Decrease(t) \/ Increase(t)
    BY <2>6 DEF Decrease, Increase, Goto
  <2>7. CASE Ping(t)
    BY <2>7 DEF Ping, Waiting, Goto
  <2>8. CASE PingAll(t)
    BY <2>8 DEF PingAll, Waiting
  <2>9. QED BY <1>4, <2>1, <2>2, <2>3, <2>4, <2>5, <2>6, <2>7, <2>8 DEF Step
<1>5. QED BY <1>1, <1>2, <1>3, <1>4 DEF Next

\* What a thread has loaded is still the counter when it stores.
LEMMA LoadedStep ==
  ASSUME TypeOK, MutexInv, LoadedInv, [Next]_vars PROVE LoadedInv'
<1> USE SemaphoreConstants DEF TypeOK, LoadedInv
<1>1. CASE UNCHANGED vars
  BY <1>1 DEF vars
<1>2. ASSUME NEW t \in Threads, Invoke(t) PROVE LoadedInv'
  <2>1. PICK l \in {"acq_lock", "rel_lock"} : Goto(t, l) /\ reg' = reg /\ val' = val
    BY <1>2 DEF Invoke, CallAcquire, CallRelease, CallReleaseN, Call
  <2>2. QED BY <2>1 DEF Goto
<1>3. ASSUME NEW t \in Threads, SpuriousWakeUp(t) PROVE LoadedInv'
  BY <1>3 DEF SpuriousWakeUp, Goto
<1>4. ASSUME NEW t \in Threads, Step(t) PROVE LoadedInv'
  <2>1. CASE MtxAcquire(t)
    BY <2>1 DEF MtxAcquire, GotoLocked, Goto
  <2>2. CASE MtxRelease(t)
    BY <2>2 DEF MtxRelease, Goto
  <2>3. CASE TestGreen(t) \/ CndWait(t)
    BY <2>3 DEF TestGreen, CndWait, Goto
  <2>5. CASE Load(t)
    BY <2>5 DEF Load, Goto
  <2>6. CASE Decrease(t) \/ Increase(t)
    <3>1. \A u \in Threads \ {t} : pc[u] \notin Holding
      BY <2>6 DEF MutexInv, Decrease, Increase, Holding
    <3>2. QED BY <2>6, <3>1 DEF Decrease, Increase, Goto, Holding
  <2>7. CASE Ping(t)
    BY <2>7 DEF Ping, Waiting, Goto
  <2>8. CASE PingAll(t)
    BY <2>8 DEF PingAll, Waiting
  <2>9. QED BY <1>4, <2>1, <2>2, <2>3, <2>5, <2>6, <2>7, <2>8 DEF Step
<1>5. QED BY <1>1, <1>2, <1>3, <1>4 DEF Next

\* The counter balances the permits posted and taken, after every step.
LEMMA ConservationStep ==
  ASSUME IInv, [Next]_vars PROVE Conservation'
<1> USE SemaphoreConstants DEF IInv, TypeOK, Conservation
<1>1. CASE UNCHANGED <<val, posted, admitted>>
  BY <1>1
<1>2. ASSUME NEW t \in Threads, Decrease(t) PROVE Conservation'
  BY <1>2 DEF Decrease, LoadedInv
<1>3. ASSUME NEW t \in Threads, Increase(t) PROVE Conservation'
  <2>1. count[t] \in Nat BY CountNat
  <2>2. QED BY <1>3, <2>1 DEF Increase, LoadedInv
<1>4. QED
  BY <1>1, <1>2, <1>3 DEF Next, Invoke, CallAcquire, CallRelease, CallReleaseN, Call, Step,
     SpuriousWakeUp, MtxAcquire, MtxRelease, TestGreen, CndWait, Load, Ping, PingAll, vars

(***************************************************************************)
(* The inductive invariant holds in every reachable state: the types, the  *)
(* mutual exclusion of the critical sections of uga_semaphore, and what it *)
(* protects.                                                               *)
(***************************************************************************)
THEOREM Invariance == Spec => []IInv
<1>1. Init => IInv
  BY InitIInv
<1>2. IInv /\ [Next]_vars => IInv'
  BY TypeStep, MutexStep, LoadedStep, ConservationStep DEF IInv
<1>3. QED BY <1>1, <1>2, PTL DEF Spec

\* Type correctness of uga_semaphore.
THEOREM TypeCorrect == Spec => []TypeOK
<1>1. IInv => TypeOK BY DEF IInv
<1>2. QED BY <1>1, Invariance, PTL

(***************************************************************************)
(* No increment or decrement of sem->val is ever lost, with any number of  *)
(* threads acquiring, releasing and releasing batches.                     *)
(***************************************************************************)
THEOREM NoLostUpdate == Spec => []Conservation
<1>1. IInv => Conservation BY DEF IInv
<1>2. QED BY <1>1, Invariance, PTL

-----------------------------------------------------------------------------
(***************************************************************************)
(* A single acquiring thread.  The thread that is about to decrease the    *)
(* counter always finds a permit on it, although it does not look: it was  *)
(* woken by a release, and nobody else takes permits.                      *)
(***************************************************************************)
Lone ==
  /\ \A s, t \in Acquirers : s = t
  /\ InitVal >= 0
  /\ 0 \notin Batches
  /\ MaxSpurious = 0

AcquireLabels == {"acq_lock", "test", "fast", "fast_store",
                  "waiting", "relock", "green", "green_store"}

LoneInv ==
  /\ val >= 0
  /\ \A t \in Threads :
       /\ pc[t] \in {"fast", "fast_store", "relock", "green", "green_store", "ping"} => val >= 1
       /\ pc[t] \in AcquireLabels => t \in Acquirers

\* With a single acquirer, every step leaves a permit for a thread bound to take one.
LEMMA LoneStep == ASSUME Lone, IInv, LoneInv, [Next]_vars PROVE LoneInv'
<1> USE SemaphoreConstants DEF IInv, TypeOK, LoneInv, AcquireLabels
<1>1. CASE UNCHANGED vars
  BY <1>1 DEF vars
<1>2. ASSUME NEW t \in Threads, Invoke(t) PROVE LoneInv'
  BY <1>2 DEF Invoke, CallAcquire, CallRelease, CallReleaseN, Call, Goto
<1>3. ASSUME NEW t \in Threads, SpuriousWakeUp(t) PROVE LoneInv'
  BY <1>3 DEF SpuriousWakeUp, Lone
<1>4. ASSUME NEW t \in Threads, Step(t) PROVE LoneInv'
  <2>1. CASE MtxAcquire(t)
    BY <2>1 DEF MtxAcquire, GotoLocked, Goto
  <2>2. CASE MtxRelease(t)
    BY <2>2 DEF MtxRelease, Goto
  <2>3. CASE TestGreen(t) \/ CndWait(t)
    BY <2>3 DEF TestGreen, CndWait, Goto
  <2>4. CASE Load(t)
    BY <2>4 DEF Load, Goto
  <2>5. CASE Decrease(t)
    <3>1. t \in Acquirers /\ reg[t] = val /\ val >= 1
      BY <2>5 DEF Decrease, LoadedInv
    <3>2. \A u \in Threads \ {t} : pc[u] \notin AcquireLabels /\ pc[u] # "ping"
      BY <2>5, <3>1 DEF Lone, MutexInv, Holding, Decrease
    <3>3. QED BY <2>5, <3>1, <3>2 DEF Decrease, Goto
  <2>6. CASE Increase(t)
    <3>1. count[t] \in Nat /\ count[t] # 0
      BY CountNat DEF Lone
    <3>2. val' \in Int /\ val' >= val + 1
      BY <2>6, <3>1 DEF Increase, LoadedInv
    <3>3. QED BY <2>6, <3>2 DEF Increase, Goto
  <2>7. CASE Ping(t)
    <3>1. CASE Goto(t, "unlock")
      BY <2>7, <3>1 DEF Ping, Goto
    <3>2. ASSUME NEW w \in Waiting, pc' = [pc EXCEPT ![t] = "unlock", ![w] = "relock"]
          PROVE  LoneInv'
      BY <2>7, <3>2 DEF Ping, Waiting
    <3>3. QED BY <2>7, <3>1, <3>2 DEF Ping
  <2>8. CASE PingAll(t)
    BY <2>8 DEF PingAll, Waiting
  <2>9. QED BY <1>4, <2>1, <2>2, <2>3, <2>4, <2>5, <2>6, <2>7, <2>8 DEF Step
<1>5. QED BY <1>1, <1>2, <1>3, <1>4 DEF Next

\* The single-acquirer invariant holds in every reachable state.
LEMMA LoneInvariance == ASSUME Lone PROVE Spec => [](IInv /\ LoneInv)
<1>1. Init => IInv /\ LoneInv
  BY InitIInv, SemaphoreConstants DEF Init, LoneInv, AcquireLabels, Lone
<1>2. IInv /\ LoneInv /\ [Next]_vars => (IInv /\ LoneInv)'
  BY TypeStep, MutexStep, LoadedStep, ConservationStep, LoneStep DEF IInv
<1>3. QED BY <1>1, <1>2, PTL DEF Spec

(***************************************************************************)
(* With one acquiring thread, no empty batch and no spurious wake-up,      *)
(* uga_sem_acquire never lets more callers through than there were         *)
(* permits.                                                                *)
(***************************************************************************)
THEOREM LoneAcquirerAdmissions == ASSUME Lone PROVE Spec => []AdmissionsWithinPosts
<1>1. IInv /\ LoneInv => AdmissionsWithinPosts
  BY SemaphoreConstants DEF IInv, TypeOK, Conservation, LoneInv, AdmissionsWithinPosts
<1>2. QED BY <1>1, LoneInvariance, PTL

(***************************************************************************)
(* Under the same conditions uga_semaphore implements the semaphore of     *)
(* the textbooks.                                                          *)
(***************************************************************************)
THEOREM LoneAcquirerIdeal == ASSUME Lone PROVE Spec => IdealSpec
<1>1. Init => Ideal!Init
  BY DEF Init, Ideal!Init
<1>2. IInv /\ LoneInv /\ [Next]_vars => [Ideal!Next]_val
  <2> SUFFICES ASSUME IInv, LoneInv, [Next]_vars PROVE [Ideal!Next]_val
    OBVIOUS
  <2>1. CASE UNCHANGED val
    BY <2>1
  <2>2. ASSUME NEW t \in Threads, Decrease(t) PROVE Ideal!Next
    BY <2>2 DEF Decrease, IInv, TypeOK, LoadedInv, LoneInv, Ideal!Next, Ideal!Acquire
  <2>3. ASSUME NEW t \in Threads, Increase(t) PROVE Ideal!Next
    <3>1. count[t] \in Batches \union {1} BY DEF IInv, TypeOK
    <3>2. Ideal!Release(count[t])
      BY <2>3 DEF Increase, IInv, LoadedInv, Ideal!Release
    <3>3. QED BY <3>1, <3>2 DEF Ideal!Next
  <2>4. QED
    BY <2>1, <2>2, <2>3 DEF Next, Invoke, CallAcquire, CallRelease, CallReleaseN, Call, Step,
       SpuriousWakeUp, MtxAcquire, MtxRelease, TestGreen, CndWait, Load, Ping, PingAll, vars
<1>3. QED BY <1>1, <1>2, LoneInvariance, PTL DEF Spec, IdealSpec, Ideal!Spec

-----------------------------------------------------------------------------
(***************************************************************************)
(* Semaphore implements SemAtomic: each critical section is one step.  A   *)
(* thread on the fast path still finds the permit it saw when it stores.   *)
(***************************************************************************)
GreenInv ==
  \A t \in Threads :
    /\ pc[t] \in {"fast", "fast_store"} => val > 0
    /\ all[t] => count[t] \in Batches
    /\ ~all[t] => count[t] = 1

\* Every step keeps the permit a thread on the fast path has seen.
LEMMA GreenStep == ASSUME IInv, GreenInv, [Next]_vars PROVE GreenInv'
<1> USE SemaphoreConstants DEF IInv, TypeOK, GreenInv
<1>1. CASE UNCHANGED vars
  BY <1>1 DEF vars
<1>2. ASSUME NEW t \in Threads, Invoke(t) PROVE GreenInv'
  BY <1>2 DEF Invoke, CallAcquire, CallRelease, CallReleaseN, Call, Goto
<1>3. ASSUME NEW t \in Threads, SpuriousWakeUp(t) PROVE GreenInv'
  BY <1>3 DEF SpuriousWakeUp, Goto
<1>4. ASSUME NEW t \in Threads, Step(t) PROVE GreenInv'
  <2>1. CASE MtxAcquire(t)
    BY <2>1 DEF MtxAcquire, GotoLocked, Goto
  <2>2. CASE MtxRelease(t)
    BY <2>2 DEF MtxRelease, Goto
  <2>3. CASE TestGreen(t) \/ CndWait(t)
    BY <2>3 DEF TestGreen, CndWait, Goto
  <2>4. CASE Load(t)
    BY <2>4 DEF Load, Goto
  <2>5. CASE Decrease(t) \/ Increase(t)
    <3>1. \A u \in Threads \ {t} : pc[u] \notin Holding
      BY <2>5 DEF MutexInv, Decrease, Increase, Holding
    <3>2. QED BY <2>5, <3>1 DEF Decrease, Increase, Goto, Holding
  <2>7. CASE Ping(t)
    BY <2>7 DEF Ping, Waiting, Goto
  <2>8. CASE PingAll(t)
    BY <2>8 DEF PingAll, Waiting
  <2>9. QED BY <1>4, <2>1, <2>2, <2>3, <2>4, <2>5, <2>7, <2>8 DEF Step
<1>5. QED BY <1>1, <1>2, <1>3, <1>4 DEF Next

\* Steps outside the counter and the wait set are invisible to SemAtomic.
LEMMA HiddenStep ==
  ASSUME IInv, NEW t \in Threads,
         Invoke(t) \/ MtxAcquire(t) \/ MtxRelease(t) \/ TestGreen(t) \/ Load(t) \/ Increase(t)
  PROVE  UNCHANGED <<valAtomic, Waiting, Woken>>
<1> USE SemaphoreConstants DEF IInv, TypeOK, valAtomic, Waiting, Woken
<1>1. CASE Invoke(t)
  BY <1>1 DEF Invoke, CallAcquire, CallRelease, CallReleaseN, Call, Goto
<1>2. CASE MtxAcquire(t)
  BY <1>2 DEF MtxAcquire, GotoLocked, Goto
<1>3. CASE MtxRelease(t) \/ TestGreen(t) \/ Load(t)
  BY <1>3 DEF MtxRelease, TestGreen, Load, Goto, MutexInv, Holding
<1>4. CASE Increase(t)
  <2>1. owner = t /\ reg[t] = val /\ count[t] \in Nat
    BY <1>4, CountNat DEF Increase, MutexInv, LoadedInv, Holding
  <2>2. QED BY <1>4, <2>1 DEF Increase, Goto
<1>5. QED BY <1>1, <1>2, <1>3, <1>4

\* A thread that pings owns the mutex; afterwards nobody pings.
LEMMA PingStep ==
  ASSUME IInv, NEW t \in Threads, Ping(t) \/ PingAll(t)
  PROVE  /\ valAtomic = val - count[t]
         /\ valAtomic' = val
         /\ count[t] \in Nat
<1>1. owner = t /\ owner # None /\ pc[t] = "ping"
  BY SemaphoreConstants DEF IInv, MutexInv, Holding, Ping, PingAll, SemaphoreConstants
<1>2. pc'[t] = "unlock" /\ UNCHANGED <<val, owner>>
  BY <1>1 DEF IInv, TypeOK, Ping, PingAll, Goto, Waiting
<1>3. QED BY <1>1, <1>2, CountNat DEF IInv, valAtomic

\* Every step of the code is a step of SemAtomic or none.
LEMMA AtomicStep ==
  ASSUME IInv, GreenInv, [Next]_vars
  PROVE  [Atomic!Next]_<<valAtomic, Waiting, Woken>>
<1> DEFINE AVars == <<valAtomic, Waiting, Woken>>
<1> USE SemaphoreConstants
<1>1. CASE UNCHANGED vars
  BY <1>1 DEF vars, valAtomic, Waiting, Woken
<1>2. ASSUME NEW t \in Threads, SpuriousWakeUp(t) PROVE [Atomic!Next]_AVars
  <2>1. Atomic!Spurious(t)
    BY <1>2 DEF IInv, TypeOK, SpuriousWakeUp, Goto, Atomic!Spurious, valAtomic, Waiting, Woken
  <2>2. QED BY <2>1 DEF Atomic!Next
<1>3. ASSUME NEW t \in Threads, Decrease(t) PROVE [Atomic!Next]_AVars
  <2>0. owner = t /\ reg[t] = val /\ pc[t] # "ping"
    BY <1>3 DEF IInv, Decrease, MutexInv, LoadedInv, Holding
  <2>1. valAtomic = val /\ valAtomic' = val - 1
    BY <1>3, <2>0 DEF IInv, TypeOK, Decrease, Goto, valAtomic
  <2>2. CASE pc[t] = "fast_store"
    <3>1. Atomic!FastAcquire(t)
      BY <1>3, <2>1, <2>2 DEF IInv, TypeOK, GreenInv, Decrease, Goto, Atomic!FastAcquire,
         Atomic!Outside, Waiting, Woken
    <3>2. QED BY <3>1 DEF Atomic!Next
  <2>3. CASE pc[t] = "green_store"
    <3>1. Atomic!Resume(t)
      BY <1>3, <2>1, <2>3 DEF IInv, TypeOK, Decrease, Goto, Atomic!Resume, Waiting, Woken
    <3>2. QED BY <3>1 DEF Atomic!Next
  <2>4. QED BY <1>3, <2>2, <2>3 DEF Decrease
<1>4. ASSUME NEW t \in Threads, CndWait(t) PROVE [Atomic!Next]_AVars
  <2>1. valAtomic = val /\ valAtomic' = val
    BY <1>4 DEF IInv, MutexInv, Holding, CndWait, valAtomic
  <2>2. Atomic!Block(t)
    BY <1>4, <2>1 DEF IInv, TypeOK, CndWait, Goto, Atomic!Block, Atomic!Outside, Waiting, Woken
  <2>3. QED BY <2>2 DEF Atomic!Next
<1>5. ASSUME NEW t \in Threads, Ping(t) PROVE [Atomic!Next]_AVars
  <2>1. valAtomic' = valAtomic + 1
    BY <1>5, PingStep DEF Ping, IInv, GreenInv, TypeOK
  <2>2. CASE Waiting = {} /\ Goto(t, "unlock")
    <3>1. UNCHANGED <<Waiting, Woken>>
      BY <1>5, <2>2 DEF IInv, TypeOK, Ping, Goto, Waiting, Woken
    <3>2. Atomic!Post BY <2>1, <2>2, <3>1 DEF Atomic!Post
    <3>3. QED BY <3>2 DEF Atomic!Next
  <2>3. ASSUME NEW w \in Waiting, pc' = [pc EXCEPT ![t] = "unlock", ![w] = "relock"]
        PROVE  [Atomic!Next]_AVars
    <3>1. Waiting' = Waiting \ {w} /\ Woken' = Woken \union {w}
      BY <1>5, <2>3 DEF IInv, TypeOK, Ping, Waiting, Woken
    <3>2. Atomic!Post BY <2>1, <2>3, <3>1 DEF Atomic!Post
    <3>3. QED BY <3>2 DEF Atomic!Next
  <2>4. QED BY <1>5, <2>2, <2>3 DEF Ping
<1>6. ASSUME NEW t \in Threads, PingAll(t) PROVE [Atomic!Next]_AVars
  <2>1. valAtomic' = valAtomic + count[t]
    BY <1>6, PingStep DEF IInv, TypeOK
  <2>2. Waiting' = {} /\ Woken' = Woken \union Waiting
    BY <1>6 DEF IInv, TypeOK, PingAll, Waiting, Woken
  <2>3. count[t] \in Batches /\ Atomic!PostN(count[t])
    BY <1>6, <2>1, <2>2 DEF GreenInv, PingAll, Atomic!PostN
  <2>4. QED BY <2>3 DEF Atomic!Next
<1>7. QED BY <1>1, <1>2, <1>3, <1>4, <1>5, <1>6, HiddenStep DEF Next, Step

(***************************************************************************)
(* The load-and-store code of uga_semaphore implements the specification   *)
(* whose steps are whole critical sections.                                *)
(***************************************************************************)
THEOREM ImplementsAtomic == Spec => AtomicSpec
<1>1. Init => IInv /\ GreenInv /\ Atomic!Init
  <2>1. Init => GreenInv BY DEF Init, GreenInv
  <2>2. Init => Atomic!Init
    BY DEF Init, Atomic!Init, valAtomic, Waiting, Woken
  <2>3. QED BY <2>1, <2>2, InitIInv
<1>2. IInv /\ GreenInv /\ [Next]_vars => (IInv /\ GreenInv)'
  BY TypeStep, MutexStep, LoadedStep, ConservationStep, GreenStep DEF IInv
<1>3. IInv /\ GreenInv /\ [Next]_vars => [Atomic!Next]_<<valAtomic, Waiting, Woken>>
  BY AtomicStep
<1>4. QED BY <1>1, <1>2, <1>3, PTL DEF Spec, AtomicSpec, Atomic!Spec, Atomic!semVars

(***************************************************************************)
(* No permit is left beside a sleeping thread.  It is enough to look at    *)
(* the steps of SemAtomic: with the counter and the sets of waiting and    *)
(* woken threads the refinement gives them, they keep                      *)
(* NoStrandedAtomic, and between two pings it says what is wanted.         *)
(***************************************************************************)
NoStrandedAtomic == Waiting # {} => valAtomic <= Cardinality(Woken)

\* The atomic counter is an integer; the woken threads are finitely many.
LEMMA AtomicTypes ==
  ASSUME IInv
  PROVE  /\ valAtomic \in Int
         /\ IsFiniteSet(Woken)
         /\ Cardinality(Woken) \in Nat
         /\ Waiting \intersect Woken = {}
<1>1. valAtomic \in Int
  <2>1. CASE owner \in Threads
    BY <2>1, CountNat DEF IInv, TypeOK, valAtomic
  <2>2. CASE owner = None
    BY <2>2 DEF IInv, TypeOK, valAtomic
  <2>3. QED BY <2>1, <2>2 DEF IInv, TypeOK
<1>2. IsFiniteSet(Threads) /\ Woken \subseteq Threads
  BY SemaphoreConstants DEF SemaphoreConstants, Woken
<1>3. IsFiniteSet(Woken) BY <1>2, FS_Subset
<1>4. QED BY <1>1, <1>3, FS_CardinalityType DEF Waiting, Woken

\* A permit and the thread woken for it come together, in every step.
LEMMA StrandedStep ==
  ASSUME IInv, GreenInv, NoStrandedAtomic, [Next]_vars PROVE NoStrandedAtomic'
<1> USE DEF NoStrandedAtomic
<1>0. /\ valAtomic \in Int /\ Cardinality(Woken) \in Nat /\ IsFiniteSet(Woken)
      /\ Waiting \intersect Woken = {}
  BY AtomicTypes
<1>1. CASE UNCHANGED <<valAtomic, Waiting, Woken>>
  BY <1>1
<1>2. ASSUME NEW t \in Waiting, Woken' = Woken \union {t}
      PROVE  Cardinality(Woken') = Cardinality(Woken) + 1
  <2>1. t \notin Woken BY <1>0
  <2>2. QED BY <1>0, <1>2, <2>1, FS_AddElement
<1>3. CASE Atomic!Post
  BY <1>0, <1>2, <1>3 DEF Atomic!Post
<1>4. ASSUME NEW n \in Batches, Atomic!PostN(n) PROVE NoStrandedAtomic'
  BY <1>4 DEF Atomic!PostN
<1>5. ASSUME NEW t \in Threads, Atomic!FastAcquire(t) \/ Atomic!Block(t)
      PROVE  NoStrandedAtomic'
  BY <1>0, <1>5 DEF Atomic!FastAcquire, Atomic!Block
<1>6. ASSUME NEW t \in Threads, Atomic!Resume(t) PROVE NoStrandedAtomic'
  <2>1. t \in Woken /\ Woken' = Woken \ {t} BY <1>6 DEF Atomic!Resume
  <2>2. Cardinality(Woken') = Cardinality(Woken) - 1
    BY <1>0, <2>1, FS_RemoveElement
  <2>3. QED BY <1>0, <1>6, <2>2 DEF Atomic!Resume
<1>7. ASSUME NEW t \in Threads, Atomic!Spurious(t) PROVE NoStrandedAtomic'
  BY <1>0, <1>2, <1>7 DEF Atomic!Spurious
<1>8. QED BY <1>1, <1>3, <1>4, <1>5, <1>6, <1>7, AtomicStep DEF Atomic!Next

(***************************************************************************)
(* However acquires overtake the threads that releases have woken, no      *)
(* permit is ever left on the counter without a woken thread to take it    *)
(* while another thread sleeps.                                            *)
(***************************************************************************)
THEOREM NoStranded == Spec => []NoStrandedPost
<1>1. Init => IInv /\ GreenInv /\ NoStrandedAtomic
  BY InitIInv DEF Init, GreenInv, NoStrandedAtomic, Waiting
<1>2. IInv /\ GreenInv /\ NoStrandedAtomic /\ [Next]_vars
        => (IInv /\ GreenInv /\ NoStrandedAtomic)'
  BY TypeStep, MutexStep, LoadedStep, ConservationStep, GreenStep, StrandedStep DEF IInv
<1>3. IInv /\ NoStrandedAtomic => NoStrandedPost
  BY DEF IInv, TypeOK, NoStrandedAtomic, NoStrandedPost, valAtomic
<1>4. QED BY <1>1, <1>2, <1>3, PTL DEF Spec
=============================================================================
