------------------------------ MODULE PoolProofs ------------------------------
(***************************************************************************)
(* Theorems about ThreadPool, for any number of workers, tasks, spurious   *)
(* wake-ups and threads that could not be created.                         *)
(*                                                                         *)
(* The inductive invariant is the conjunction of what each device of the   *)
(* pool gives: the mutex (its holder and nobody else stands between lock   *)
(* and unlock), the semaphore (only a sleeping worker waits or is woken),  *)
(* the flag (until uga_pool_destroy clears it nobody can read FALSE) and   *)
(* the joins (past them every worker has returned).                        *)
(***************************************************************************)
EXTENDS ThreadPool, SequenceTheorems, FiniteSetTheorems, TLAPS

Holding == {"check", "leave", "pop", "unlock", "add_push", "add_post", "add_unlock"}

TypeOK ==
  /\ active \in BOOLEAN
  /\ allocated \in BOOLEAN
  /\ stale \subseteq Workers
  /\ tasks \in Seq(Nat)
  /\ dispatched \in Seq(Nat)
  /\ mtx \in Threads \union {None}
  /\ val \in Int
  /\ waiting \subseteq Workers
  /\ woken \subseteq Workers
  /\ pc \in [Threads -> WorkerLabels \union MainLabels]
  /\ task \in [Workers -> Nat]
  /\ submitted \in Nat
  /\ misses \in Nat
  /\ spurious \in Nat

LabelsOK ==
  /\ pc[Main] \in MainLabels
  /\ \A w \in Workers : pc[w] \in WorkerLabels

MutexInv ==
  /\ \A t \in Threads : pc[t] \in Holding => mtx = t
  /\ mtx # None => pc[mtx] \in Holding

SleepInv ==
  /\ waiting \intersect woken = {}
  /\ \A w \in waiting \union woken : pc[w] = "asleep"

ActiveInv ==
  /\ active => stale = {}
  /\ pc[Main] \in {"shutdown", "join", "crashed", "free", "freed"} => ~active

JoinedInv ==
  /\ ~allocated => pc[Main] = "freed"
  /\ pc[Main] \in {"free", "freed"} => \A w \in Workers : pc[w] \in {"done", "failed"}

WokenBound == val - Cardinality(woken) >= 1 - Cardinality(Workers) - spurious

IInv == /\ TypeOK /\ LabelsOK /\ MutexInv /\ SleepInv /\ ActiveInv /\ JoinedInv
        /\ FifoDispatch /\ PermitPerTask /\ WokenBound

-----------------------------------------------------------------------------
(* The initial state. *)

\* The pool as uga_pool_create_new starts it satisfies the inductive invariant.
LEMMA InitIInv == Init => IInv
<1> SUFFICES ASSUME Init PROVE IInv OBVIOUS
<1> USE PoolConstants DEF PoolConstants, Init, Sem!Init, Threads
<1>1. TypeOK /\ LabelsOK BY DEF TypeOK, LabelsOK, WorkerLabels, MainLabels
<1>2. MutexInv /\ SleepInv /\ ActiveInv /\ JoinedInv
  BY DEF MutexInv, SleepInv, ActiveInv, JoinedInv, Holding
<1>3. FifoDispatch
  <2>1. <<>> \o <<>> = [i \in 1..0 |-> i] OBVIOUS
  <2>2. QED BY <2>1 DEF FifoDispatch
<1>4. LetThrough = {} /\ Unposted = {} BY DEF LetThrough, Unposted
<1>5. PermitPerTask BY <1>4, FS_EmptySet DEF PermitPerTask
<1>6. WokenBound
  <2>1. Cardinality(Workers) \in Nat /\ Cardinality(Workers) # 0
    BY FS_CardinalityType, FS_EmptySet
  <2>2. QED BY <2>1, FS_EmptySet DEF WokenBound
<1>7. QED BY <1>1, <1>2, <1>3, <1>5, <1>6 DEF IInv

-----------------------------------------------------------------------------
(* Types, labels and the mutex. *)

\* What uga_sem_acquire, release and release_n do to the semaphore keeps its types.
LEMMA SemTypes ==
  ASSUME TypeOK,
         \/ \E w \in Workers : Sem!FastAcquire(w) \/ Sem!Block(w) \/ Sem!Resume(w) \/ Sem!Spurious(w)
         \/ Sem!Post \/ Sem!PostN(Cardinality(Workers))
  PROVE  val' \in Int /\ waiting' \subseteq Workers /\ woken' \subseteq Workers
<1>1. Cardinality(Workers) \in Nat
  BY PoolConstants, FS_CardinalityType DEF PoolConstants
<1>2. QED
  BY <1>1 DEF TypeOK, Sem!FastAcquire, Sem!Block, Sem!Resume, Sem!Spurious, Sem!Post, Sem!PostN

\* Every step keeps every variable in its type and every thread at its own labels.
LEMMA TypeStep ==
  ASSUME TypeOK, LabelsOK, [Next]_vars PROVE TypeOK' /\ LabelsOK'
<1> USE PoolConstants
    DEF PoolConstants, TypeOK, LabelsOK, Goto, Threads, WorkerLabels, MainLabels
<1>1. CASE UNCHANGED vars
  BY <1>1 DEF vars, semVars, history
<1>2. ASSUME NEW w \in Workers, CreateThread(w) \/ CreateFails(w)
      PROVE  TypeOK' /\ LabelsOK'
  BY <1>2 DEF CreateThread, CreateFails, semVars, history
<1>3. CASE CreateReturns \/ Deactivate \/ JoinAll \/ JoinCrashes \/ Free
  <2>1. CASE CreateReturns \/ JoinAll \/ JoinCrashes
    BY <2>1 DEF CreateReturns, JoinAll, JoinCrashes, semVars, history
  <2>2. CASE Deactivate
    BY <2>2 DEF Deactivate, semVars, history
  <2>3. CASE Free
    BY <2>3, EmptySeq DEF Free, semVars, history
  <2>4. QED BY <1>3, <2>1, <2>2, <2>3
<1>4. CASE PostShutdown
  BY <1>4, SemTypes DEF PostShutdown, history
<1>5. ASSUME NEW t \in Threads, AddTask(t) PROVE TypeOK' /\ LabelsOK'
  BY <1>5 DEF AddTask, semVars, history
<1>6. ASSUME NEW t \in Threads, AddStep(t) PROVE TypeOK' /\ LabelsOK'
  <2>1. CASE PushTask(t)
    BY <2>1, AppendProperties DEF PushTask, semVars
  <2>2. CASE PostTask(t)
    BY <2>2, SemTypes DEF PostTask, Synchronise, history
  <2>3. CASE AddReturns(t)
    BY <2>3 DEF AddReturns, semVars, history
  <2>4. QED BY <1>6, <2>1, <2>2, <2>3 DEF AddStep
<1>7. ASSUME NEW w \in Workers, WorkerStep(w) PROVE TypeOK' /\ LabelsOK'
  <2>1. CASE TestActive(w) \/ CheckActive(w)
    BY <2>1 DEF TestActive, CheckActive, semVars, history
  <2>2. CASE AcquireSem(w)
    BY <2>2, SemTypes DEF AcquireSem, Synchronise, history
  <2>3. CASE ResumeSem(w)
    BY <2>3, SemTypes DEF ResumeSem, Synchronise, history
  <2>4. CASE LockTasks(w) \/ Leave(w) \/ UnlockTasks(w) \/ FinishTask(w)
    BY <2>4 DEF LockTasks, Leave, UnlockTasks, FinishTask, semVars, history
  <2>5. CASE PopTask(w)
    <3>1. CASE tasks = <<>>
      BY <2>5, <3>1 DEF PopTask, semVars
    <3>2. CASE tasks # <<>>
      <4>1. Head(tasks) \in Nat /\ Tail(tasks) \in Seq(Nat)
        BY <3>2, HeadTailProperties
      <4>2. Append(dispatched, Head(tasks)) \in Seq(Nat)
        BY <4>1, AppendProperties
      <4>3. QED BY <2>5, <3>2, <4>1, <4>2 DEF PopTask, semVars
    <3>3. QED BY <3>1, <3>2
  <2>6. QED BY <1>6, <1>7, <2>1, <2>2, <2>3, <2>4, <2>5 DEF WorkerStep
<1>8. ASSUME NEW w \in Workers, SpuriousWakeUp(w) PROVE TypeOK' /\ LabelsOK'
  BY <1>8, SemTypes DEF SpuriousWakeUp
<1>9. QED
  BY <1>1, <1>2, <1>3, <1>4, <1>5, <1>6, <1>7, <1>8 DEF Next, MainStep

\* Only the holder of the mutex stands between its lock and its unlock.
LEMMA MutexStep ==
  ASSUME TypeOK, LabelsOK, MutexInv, [Next]_vars PROVE MutexInv'
<1> USE PoolConstants
    DEF PoolConstants, TypeOK, MutexInv, Goto, Threads, Holding
<1>1. CASE UNCHANGED vars
  BY <1>1 DEF vars
<1>2. ASSUME NEW w \in Workers, CreateThread(w) \/ CreateFails(w) PROVE MutexInv'
  BY <1>2 DEF CreateThread, CreateFails
<1>3. CASE CreateReturns \/ Deactivate \/ PostShutdown \/ JoinAll \/ JoinCrashes \/ Free
  BY <1>3 DEF CreateReturns, Deactivate, PostShutdown, JoinAll, JoinCrashes, Free
<1>4. ASSUME NEW t \in Threads, AddTask(t) PROVE MutexInv'
  BY <1>4 DEF AddTask
<1>5. ASSUME NEW t \in Threads, AddStep(t) PROVE MutexInv'
  BY <1>5 DEF AddStep, PushTask, PostTask, AddReturns
<1>6. ASSUME NEW w \in Workers, WorkerStep(w) PROVE MutexInv'
  <2>1. CASE TestActive(w) \/ AcquireSem(w) \/ ResumeSem(w) \/ FinishTask(w)
    BY <2>1 DEF TestActive, AcquireSem, ResumeSem, FinishTask
  <2>2. CASE LockTasks(w)
    BY <2>2 DEF LockTasks
  <2>3. CASE CheckActive(w) \/ PopTask(w)
    BY <2>3 DEF CheckActive, PopTask
  <2>4. CASE Leave(w) \/ UnlockTasks(w)
    BY <2>4 DEF Leave, UnlockTasks
  <2>5. QED BY <1>5, <1>6, <2>1, <2>2, <2>3, <2>4 DEF WorkerStep
<1>7. ASSUME NEW w \in Workers, SpuriousWakeUp(w) PROVE MutexInv'
  BY <1>7 DEF SpuriousWakeUp
<1>8. QED
  BY <1>1, <1>2, <1>3, <1>4, <1>5, <1>6, <1>7 DEF Next, MainStep
-----------------------------------------------------------------------------
(* Sleepers, the flag and the joins. *)

\* Whoever waits on the semaphore or was woken from it is asleep in uga_sem_acquire.
LEMMA SleepStep ==
  ASSUME TypeOK, LabelsOK, SleepInv, [Next]_vars PROVE SleepInv'
<1> USE PoolConstants
    DEF PoolConstants, TypeOK, LabelsOK, SleepInv, Goto, Threads, MainLabels
<1>1. CASE UNCHANGED vars
  BY <1>1 DEF vars, semVars
<1>2. ASSUME NEW w \in Workers, CreateThread(w) \/ CreateFails(w) PROVE SleepInv'
  BY <1>2 DEF CreateThread, CreateFails, semVars
<1>3. CASE CreateReturns \/ Deactivate \/ JoinAll \/ JoinCrashes \/ Free
  BY <1>3 DEF CreateReturns, Deactivate, JoinAll, JoinCrashes, Free, semVars
<1>4. CASE PostShutdown
  BY <1>4 DEF PostShutdown, Sem!PostN
<1>5. ASSUME NEW t \in Threads, AddTask(t) PROVE SleepInv'
  BY <1>5 DEF AddTask, semVars
<1>6. ASSUME NEW t \in Threads, AddStep(t) PROVE SleepInv'
  <2>1. CASE PushTask(t) \/ AddReturns(t)
    BY <2>1 DEF PushTask, AddReturns, semVars
  <2>2. CASE PostTask(t)
    BY <2>2 DEF PostTask, Sem!Post
  <2>3. QED BY <1>6, <2>1, <2>2 DEF AddStep
<1>7. ASSUME NEW w \in Workers, WorkerStep(w) PROVE SleepInv'
  <2>1. CASE TestActive(w) \/ LockTasks(w) \/ CheckActive(w) \/ Leave(w)
    BY <2>1 DEF TestActive, LockTasks, CheckActive, Leave, semVars
  <2>2. CASE PopTask(w) \/ UnlockTasks(w) \/ FinishTask(w)
    BY <2>2 DEF PopTask, UnlockTasks, FinishTask, semVars
  <2>3. CASE AcquireSem(w)
    BY <2>3 DEF AcquireSem, Sem!FastAcquire, Sem!Block, Sem!Outside
  <2>4. CASE ResumeSem(w)
    BY <2>4 DEF ResumeSem, Sem!Resume
  <2>5. QED BY <1>6, <1>7, <2>1, <2>2, <2>3, <2>4 DEF WorkerStep
<1>8. ASSUME NEW w \in Workers, SpuriousWakeUp(w) PROVE SleepInv'
  BY <1>8 DEF SpuriousWakeUp, Sem!Spurious
<1>9. QED
  BY <1>1, <1>2, <1>3, <1>4, <1>5, <1>6, <1>7, <1>8 DEF Next, MainStep

\* Only uga_pool_destroy clears the flag, and nobody reads an old value before.
LEMMA ActiveStep ==
  ASSUME TypeOK, LabelsOK, ActiveInv, [Next]_vars PROVE ActiveInv'
<1> USE PoolConstants
    DEF PoolConstants, TypeOK, LabelsOK, ActiveInv, Goto, Threads, WorkerLabels
<1>1. CASE UNCHANGED vars
  BY <1>1 DEF vars
<1>2. ASSUME NEW w \in Workers, CreateThread(w) \/ CreateFails(w) PROVE ActiveInv'
  BY <1>2 DEF CreateThread, CreateFails
<1>3. CASE CreateReturns \/ Deactivate \/ PostShutdown \/ JoinAll \/ JoinCrashes \/ Free
  BY <1>3 DEF CreateReturns, Deactivate, PostShutdown, JoinAll, JoinCrashes, Free
<1>4. ASSUME NEW t \in Threads, AddTask(t) PROVE ActiveInv'
  BY <1>4 DEF AddTask
<1>5. ASSUME NEW t \in Threads, AddStep(t) PROVE ActiveInv'
  BY <1>5 DEF AddStep, PushTask, PostTask, AddReturns, Synchronise
<1>6. ASSUME NEW w \in Workers, WorkerStep(w) PROVE ActiveInv'
  <2>1. CASE TestActive(w) \/ CheckActive(w)
    <3>1. active' = active /\ stale' \subseteq stale /\ pc'[Main] = pc[Main]
      BY <2>1 DEF TestActive, CheckActive
    <3>2. QED BY <3>1
  <2>2. CASE AcquireSem(w) \/ ResumeSem(w)
    BY <2>2 DEF AcquireSem, ResumeSem, Synchronise
  <2>3. CASE LockTasks(w) \/ Leave(w)
    BY <2>3 DEF LockTasks, Leave
  <2>4. CASE PopTask(w) \/ UnlockTasks(w) \/ FinishTask(w)
    BY <2>4 DEF PopTask, UnlockTasks, FinishTask
  <2>5. QED BY <1>5, <1>6, <2>1, <2>2, <2>3, <2>4 DEF WorkerStep
<1>7. ASSUME NEW w \in Workers, SpuriousWakeUp(w) PROVE ActiveInv'
  BY <1>7 DEF SpuriousWakeUp
<1>8. QED
  BY <1>1, <1>2, <1>3, <1>4, <1>5, <1>6, <1>7 DEF Next, MainStep

\* Past the joins no worker moves any more, and only then is the pool freed.
LEMMA JoinedStep ==
  ASSUME TypeOK, LabelsOK, JoinedInv, [Next]_vars PROVE JoinedInv'
<1> USE PoolConstants
    DEF PoolConstants, TypeOK, LabelsOK, JoinedInv, Goto, Threads, WorkerLabels
<1>1. CASE UNCHANGED vars
  BY <1>1 DEF vars
<1>2. ASSUME NEW w \in Workers, CreateThread(w) \/ CreateFails(w) PROVE JoinedInv'
  BY <1>2 DEF CreateThread, CreateFails
<1>3. CASE CreateReturns \/ Deactivate \/ PostShutdown \/ JoinAll \/ JoinCrashes \/ Free
  BY <1>3 DEF CreateReturns, Deactivate, PostShutdown, JoinAll, JoinCrashes, Free
<1>4. ASSUME NEW t \in Threads, AddTask(t) PROVE JoinedInv'
  BY <1>4 DEF AddTask
<1>5. ASSUME NEW t \in Threads, AddStep(t) PROVE JoinedInv'
  BY <1>5 DEF AddStep, PushTask, PostTask, AddReturns
<1>6. ASSUME NEW w \in Workers, WorkerStep(w) PROVE JoinedInv'
  <2>1. CASE TestActive(w) \/ CheckActive(w) \/ AcquireSem(w) \/ ResumeSem(w)
    BY <2>1 DEF TestActive, CheckActive, AcquireSem, ResumeSem
  <2>2. CASE LockTasks(w) \/ Leave(w)
    BY <2>2 DEF LockTasks, Leave
  <2>3. CASE PopTask(w) \/ UnlockTasks(w) \/ FinishTask(w)
    BY <2>3 DEF PopTask, UnlockTasks, FinishTask
  <2>4. QED BY <1>5, <1>6, <2>1, <2>2, <2>3 DEF WorkerStep
<1>7. ASSUME NEW w \in Workers, SpuriousWakeUp(w) PROVE JoinedInv'
  BY <1>7 DEF SpuriousWakeUp
<1>8. QED
  BY <1>1, <1>2, <1>3, <1>4, <1>5, <1>6, <1>7 DEF Next, MainStep
-----------------------------------------------------------------------------
(* The queue. *)

\* Appending to the second of two sequences appends to both of them together.
LEMMA AppendToConcat ==
  ASSUME NEW d \in Seq(Nat), NEW q \in Seq(Nat), NEW e \in Nat
  PROVE  d \o Append(q, e) = Append(d \o q, e)
OBVIOUS

\* Adding the next number at the end of the queue continues the numbering.
LEMMA NumberedAppend ==
  ASSUME NEW d \in Seq(Nat), NEW q \in Seq(Nat), NEW n \in Nat,
         d \o q = [i \in 1..n |-> i]
  PROVE  d \o Append(q, n + 1) = [i \in 1..(n + 1) |-> i]
<1> DEFINE s == d \o q
<1>1. s \in Seq(Nat) /\ <<n + 1>> \in Seq(Nat) /\ n + 1 \in Nat BY ConcatProperties
<1>2. d \o Append(q, n + 1) = Append(s, n + 1)
  BY <1>1, AppendToConcat
<1>3. Len(s) = n
  <2>1. DOMAIN s = 1..n OBVIOUS
  <2>2. DOMAIN s = 1..Len(s) /\ Len(s) \in Nat BY <1>1, LenProperties
  <2>3. QED BY <2>1, <2>2
<1>4. /\ DOMAIN Append(s, n + 1) = 1..(n + 1)
      /\ \A i \in 1..(n + 1) : Append(s, n + 1)[i] = i
  BY <1>1, <1>3, AppendProperties, LenProperties
<1>5. Append(s, n + 1) = [i \in 1..(n + 1) |-> Append(s, n + 1)[i]]
  BY <1>1, <1>4, AppendProperties, LenProperties
<1>6. QED BY <1>2, <1>4, <1>5

\* Moving the head of the queue to the end of what was dispatched keeps their order.
LEMMA HeadMoves ==
  ASSUME NEW d \in Seq(Nat), NEW q \in Seq(Nat), q # <<>>
  PROVE  Append(d, Head(q)) \o Tail(q) = d \o q
<1>1. Head(q) \in Nat /\ Tail(q) \in Seq(Nat) /\ <<Head(q)>> \in Seq(Nat)
  BY HeadTailProperties
<1>2. <<Head(q)>> \o Tail(q) = q
  BY <1>1, HeadTailProperties, ConcatProperties, SeqEqual
<1>3. Append(d, Head(q)) = d \o <<Head(q)>> BY <1>1, AppendIsConcat
<1>4. (d \o <<Head(q)>>) \o Tail(q) = d \o (<<Head(q)>> \o Tail(q))
  BY <1>1, ConcatAssociative
<1>5. QED BY <1>2, <1>3, <1>4

\* No step loses, doubles or overtakes a task.
LEMMA FifoStep ==
  ASSUME TypeOK, FifoDispatch, [Next]_vars PROVE FifoDispatch'
<1> USE DEF FifoDispatch
<1> DEFINE Kept == /\ allocated' = allocated /\ dispatched' = dispatched
                   /\ tasks' = tasks /\ submitted' = submitted
<1>1. Kept => FifoDispatch'
  OBVIOUS
<1>2. UNCHANGED vars => Kept
  BY DEF vars, history
<1>3. ASSUME NEW w \in Workers, CreateThread(w) \/ CreateFails(w) PROVE Kept
  BY <1>3 DEF CreateThread, CreateFails, history
<1>4. CreateReturns \/ Deactivate \/ PostShutdown \/ JoinAll \/ JoinCrashes => Kept
  BY DEF CreateReturns, Deactivate, PostShutdown, JoinAll, JoinCrashes, history
<1>5. Free => FifoDispatch'
  BY DEF Free
<1>6. ASSUME NEW t \in Threads, AddTask(t) PROVE Kept
  BY <1>6 DEF AddTask, history
<1>7. ASSUME NEW t \in Threads, AddStep(t) PROVE FifoDispatch'
  <2>1. CASE PushTask(t)
    BY <2>1, NumberedAppend DEF PushTask, TypeOK
  <2>2. CASE PostTask(t) \/ AddReturns(t)
    BY <2>2, <1>1 DEF PostTask, AddReturns, history
  <2>3. QED BY <1>7, <2>1, <2>2 DEF AddStep
<1>8. ASSUME NEW w \in Workers, WorkerStep(w) PROVE FifoDispatch'
  <2>1. CASE TestActive(w) \/ CheckActive(w) \/ AcquireSem(w) \/ ResumeSem(w)
    BY <2>1, <1>1 DEF TestActive, CheckActive, AcquireSem, ResumeSem, history
  <2>2. CASE LockTasks(w) \/ Leave(w) \/ UnlockTasks(w) \/ FinishTask(w)
    BY <2>2, <1>1 DEF LockTasks, Leave, UnlockTasks, FinishTask, history
  <2>3. CASE PopTask(w)
    <3>1. CASE tasks = <<>>
      BY <2>3, <3>1 DEF PopTask
    <3>2. CASE tasks # <<>>
      BY <2>3, <3>2, HeadMoves DEF PopTask, TypeOK
    <3>3. QED BY <3>1, <3>2
  <2>4. QED BY <1>7, <1>8, <2>1, <2>2, <2>3 DEF WorkerStep, Threads
<1>9. ASSUME NEW w \in Workers, SpuriousWakeUp(w) PROVE Kept
  BY <1>9 DEF SpuriousWakeUp
<1>10. QED
  BY <1>1, <1>2, <1>3, <1>4, <1>5, <1>6, <1>7, <1>8, <1>9 DEF Next, MainStep, Threads

-----------------------------------------------------------------------------
(* The permits. *)

\* Both sets of threads that PermitPerTask counts are finite.
LEMMA Counted ==
  /\ IsFiniteSet(Workers) /\ IsFiniteSet(LetThrough) /\ IsFiniteSet(Unposted)
  /\ Cardinality(Workers) \in Nat \ {0}
  /\ Cardinality(LetThrough) \in Nat /\ Cardinality(Unposted) \in Nat
<1>1. IsFiniteSet(Workers) /\ Workers # {} BY PoolConstants DEF PoolConstants
<1>2. IsFiniteSet(Threads) BY <1>1, FS_AddElement DEF Threads
<1>3. IsFiniteSet(LetThrough) /\ IsFiniteSet(Unposted)
  BY <1>1, <1>2, FS_Subset DEF LetThrough, Unposted
<1>4. QED BY <1>1, <1>3, FS_CardinalityType, FS_EmptySet

\* While the pool is active every task in the queue has its permit, after every step.
LEMMA PermitStep ==
  ASSUME TypeOK, LabelsOK, ActiveInv, PermitPerTask, [Next]_vars
  PROVE  PermitPerTask'
<1> SUFFICES ASSUME active'
    PROVE  val' + Cardinality(LetThrough') + misses' = Len(tasks') - Cardinality(Unposted')
  BY DEF PermitPerTask
<1> DEFINE Kept == /\ active' = active
                   /\ val' = val /\ misses' = misses /\ tasks' = tasks
                   /\ LetThrough' = LetThrough /\ Unposted' = Unposted
<1> DEFINE Goal ==
      val' + Cardinality(LetThrough') + misses' = Len(tasks') - Cardinality(Unposted')
<1> USE PoolConstants DEF PoolConstants, TypeOK, Goto, Threads
<1>1. Kept => Goal
  BY DEF PermitPerTask
<1>2. UNCHANGED vars => Kept
  BY DEF vars, semVars, history, LetThrough, Unposted
<1>3. ASSUME NEW w \in Workers, CreateThread(w) \/ CreateFails(w) PROVE Kept
  BY <1>3 DEF CreateThread, CreateFails, semVars, history, LetThrough, Unposted
<1>4. CreateReturns => Kept
  BY DEF CreateReturns, semVars, history, LetThrough, Unposted
<1>5. ~Deactivate /\ ~PostShutdown /\ ~JoinAll /\ ~JoinCrashes /\ ~Free
  BY DEF Deactivate, PostShutdown, JoinAll, JoinCrashes, Free, ActiveInv
<1>6. ASSUME NEW t \in Threads, AddTask(t) PROVE Kept
  BY <1>6 DEF AddTask, semVars, history, LetThrough, Unposted
<1>7. ASSUME NEW t \in Threads, AddStep(t) PROVE Goal
  <2>1. CASE PushTask(t)
    <3>1. active /\ val' = val /\ misses' = misses /\ LetThrough' = LetThrough
      BY <2>1 DEF PushTask, semVars, LetThrough
    <3>2. Unposted' = Unposted \union {t} /\ t \notin Unposted
      BY <2>1 DEF PushTask, Unposted
    <3>3. Cardinality(Unposted') = Cardinality(Unposted) + 1
      BY <3>2, Counted, FS_AddElement
    <3>4. Len(tasks') = Len(tasks) + 1 /\ Len(tasks) \in Nat
      BY <2>1, AppendProperties, LenProperties DEF PushTask
    <3>5. QED BY <3>1, <3>3, <3>4, Counted DEF PermitPerTask
  <2>2. CASE PostTask(t)
    <3>1. /\ active /\ val' = val + 1 /\ misses' = misses /\ tasks' = tasks
          /\ LetThrough' = LetThrough
      BY <2>2 DEF PostTask, Sem!Post, history, LetThrough
    <3>2. Unposted' = Unposted \ {t} /\ t \in Unposted
      BY <2>2 DEF PostTask, Unposted
    <3>3. Cardinality(Unposted') = Cardinality(Unposted) - 1
      BY <3>2, Counted, FS_RemoveElement
    <3>4. QED BY <3>1, <3>3, Counted, LenProperties DEF PermitPerTask
  <2>3. CASE AddReturns(t)
    BY <2>3, <1>1 DEF AddReturns, semVars, history, LetThrough, Unposted
  <2>4. QED BY <1>7, <2>1, <2>2, <2>3 DEF AddStep
<1>8. ASSUME NEW w \in Workers, WorkerStep(w) PROVE Goal
  <2>1. CASE TestActive(w) \/ LockTasks(w) \/ Leave(w) \/ UnlockTasks(w) \/ FinishTask(w)
    <3>1. CASE TestActive(w) \/ LockTasks(w)
      BY <3>1, <1>1 DEF TestActive, LockTasks, semVars, history, LetThrough, Unposted
    <3>2. CASE Leave(w) \/ UnlockTasks(w) \/ FinishTask(w)
      BY <3>2, <1>1 DEF Leave, UnlockTasks, FinishTask, semVars, history, LetThrough, Unposted
    <3>3. QED BY <2>1, <3>1, <3>2
  <2>2. CASE CheckActive(w)
    <3>1. active /\ stale = {} BY <2>2 DEF CheckActive, ActiveInv
    <3>2. Goto(w, "pop") BY <2>2, <3>1 DEF CheckActive, Seen
    <3>3. QED BY <2>2, <3>2, <1>1 DEF CheckActive, semVars, history, LetThrough, Unposted
  <2>3. ASSUME pc[w] \in {"sem", "asleep"}, Goto(w, "lock"), val' = val - 1,
               active' = active, misses' = misses, tasks' = tasks
        PROVE  Goal
    <3>1. LetThrough' = LetThrough \union {w} /\ w \notin LetThrough
      BY <2>3 DEF LetThrough
    <3>2. Cardinality(LetThrough') = Cardinality(LetThrough) + 1
      BY <3>1, Counted, FS_AddElement
    <3>3. Unposted' = Unposted BY <2>3 DEF Unposted
    <3>4. QED BY <2>3, <3>2, <3>3, Counted, LenProperties DEF PermitPerTask
  <2>4. CASE AcquireSem(w)
    <3>1. CASE Sem!FastAcquire(w) /\ Goto(w, "lock")
      BY <2>4, <3>1, <2>3 DEF AcquireSem, Sem!FastAcquire, history
    <3>2. CASE Sem!Block(w) /\ Goto(w, "asleep")
      BY <2>4, <3>2, <1>1 DEF AcquireSem, Sem!Block, history, LetThrough, Unposted
    <3>3. QED BY <2>4, <3>1, <3>2 DEF AcquireSem
  <2>5. CASE ResumeSem(w)
    BY <2>5, <2>3 DEF ResumeSem, Sem!Resume, history
  <2>6. CASE PopTask(w)
    <3>1. active /\ val' = val BY <2>6 DEF PopTask, semVars
    <3>2. LetThrough' = LetThrough \ {w} /\ w \in LetThrough
      BY <2>6 DEF PopTask, LetThrough
    <3>3. Cardinality(LetThrough') = Cardinality(LetThrough) - 1
      BY <3>2, Counted, FS_RemoveElement
    <3>4. Unposted' = Unposted BY <2>6 DEF PopTask, Unposted
    <3>5. Len(tasks) \in Nat /\ val \in Int /\ misses \in Nat BY LenProperties
    <3>6. val + Cardinality(LetThrough) + misses = Len(tasks) - Cardinality(Unposted)
      BY <3>1 DEF PermitPerTask
    <3> HIDE DEF TypeOK, PoolConstants
    <3>7. CASE tasks = <<>>
      <4>1. misses' = misses + 1 /\ tasks' = tasks BY <2>6, <3>7 DEF PopTask
      <4>2. QED BY <3>1, <3>3, <3>4, <3>5, <3>6, <4>1, Counted
    <3>8. CASE tasks # <<>>
      <4>1. misses' = misses BY <2>6, <3>8 DEF PopTask
      <4>2. Len(tasks') = Len(tasks) - 1
        BY <2>6, <3>8, HeadTailProperties DEF PopTask, TypeOK
      <4>3. QED BY <3>1, <3>3, <3>4, <3>5, <3>6, <4>1, <4>2, Counted
    <3>9. QED BY <3>7, <3>8
  <2>7. QED BY <1>7, <1>8, <2>1, <2>2, <2>4, <2>5, <2>6 DEF WorkerStep
<1>9. ASSUME NEW w \in Workers, SpuriousWakeUp(w) PROVE Kept
  BY <1>9 DEF SpuriousWakeUp, Sem!Spurious, LetThrough, Unposted
<1>10. QED
  BY <1>1, <1>2, <1>3, <1>4, <1>5, <1>6, <1>7, <1>8, <1>9 DEF Next, MainStep

\* A woken worker that is overtaken pushes the counter down, but by one at most for
\* every other worker, after every step.
LEMMA WokenStep ==
  ASSUME TypeOK, SleepInv, WokenBound, [Next]_vars PROVE WokenBound'
<1> USE PoolConstants DEF PoolConstants, TypeOK
<1>0. IsFiniteSet(woken) /\ IsFiniteSet(waiting)
      /\ Cardinality(woken) \in Nat /\ Cardinality(waiting) \in Nat
  BY FS_Subset, FS_CardinalityType
<1> DEFINE Kept == UNCHANGED <<val, waiting, woken, spurious>>
<1>1. Kept => WokenBound'
  BY DEF WokenBound
<1>2. UNCHANGED vars => Kept
  BY DEF vars, semVars, history
<1>3. ASSUME NEW w \in Workers, CreateThread(w) \/ CreateFails(w) PROVE Kept
  BY <1>3 DEF CreateThread, CreateFails, semVars, history
<1>4. CreateReturns \/ Deactivate \/ JoinAll \/ JoinCrashes \/ Free => Kept
  BY DEF CreateReturns, Deactivate, JoinAll, JoinCrashes, Free, semVars, history
<1>5. CASE PostShutdown
  <2>1. Cardinality(waiting) <= Cardinality(Workers) BY FS_Subset
  <2>2. Cardinality(woken \union waiting) = Cardinality(woken) + Cardinality(waiting)
    <3>1. woken \intersect waiting = {} BY DEF SleepInv
    <3>2. Cardinality(woken \union waiting)
            = Cardinality(woken) + Cardinality(waiting) - Cardinality(woken \intersect waiting)
      BY <1>0, FS_Union
    <3>3. Cardinality(woken \intersect waiting) = 0 BY <3>1, FS_EmptySet
    <3>4. QED BY <1>0, <3>2, <3>3
  <2>3. QED BY <1>0, <1>5, <2>1, <2>2, Counted DEF PostShutdown, Sem!PostN, history, WokenBound
<1>6. ASSUME NEW t \in Threads, AddTask(t) PROVE Kept
  BY <1>6 DEF AddTask, semVars, history
<1>7. ASSUME NEW t \in Workers, t \in waiting
      PROVE  Cardinality(woken \union {t}) = Cardinality(woken) + 1
  BY <1>0, <1>7, FS_AddElement DEF SleepInv
<1>8. ASSUME NEW t \in Threads, AddStep(t) PROVE WokenBound'
  <2>1. CASE PushTask(t) \/ AddReturns(t)
    BY <2>1, <1>1 DEF PushTask, AddReturns, semVars, history
  <2>2. CASE PostTask(t)
    <3>1. val' = val + 1 /\ spurious' = spurious BY <2>2 DEF PostTask, Sem!Post, history
    <3>2. CASE UNCHANGED woken
      BY <3>1, <3>2, <1>0, Counted DEF WokenBound
    <3>3. ASSUME NEW w \in waiting, woken' = woken \union {w} PROVE WokenBound'
      <4>1. Cardinality(woken') = Cardinality(woken) + 1 BY <3>3, <1>7
      <4>2. QED BY <3>1, <4>1, <1>0, Counted DEF WokenBound
    <3>4. QED BY <2>2, <3>2, <3>3 DEF PostTask, Sem!Post
  <2>3. QED BY <1>8, <2>1, <2>2 DEF AddStep
<1>9. ASSUME NEW w \in Workers, WorkerStep(w) PROVE WokenBound'
  <2>1. CASE TestActive(w) \/ LockTasks(w) \/ CheckActive(w) \/ Leave(w)
    BY <2>1, <1>1 DEF TestActive, LockTasks, CheckActive, Leave, semVars, history
  <2>2. CASE PopTask(w) \/ UnlockTasks(w) \/ FinishTask(w)
    BY <2>2, <1>1 DEF PopTask, UnlockTasks, FinishTask, semVars, history
  <2>3. CASE AcquireSem(w)
    <3>1. CASE Sem!FastAcquire(w)
      <4>1. val' >= 0 /\ val' \in Int /\ woken' = woken /\ spurious' = spurious /\ w \notin woken
        BY <2>3, <3>1 DEF AcquireSem, Sem!FastAcquire, Sem!Outside, history
      <4>2. Cardinality(Workers \ {w}) = Cardinality(Workers) - 1 /\ IsFiniteSet(Workers \ {w})
        BY FS_RemoveElement
      <4>3. Cardinality(woken) <= Cardinality(Workers) - 1
        BY <4>1, <4>2, FS_Subset
      <4>4. QED BY <1>0, <4>1, <4>3, Counted DEF WokenBound
    <3>2. CASE Sem!Block(w)
      BY <2>3, <3>2 DEF AcquireSem, Sem!Block, history, WokenBound
    <3>3. QED BY <2>3, <3>1, <3>2 DEF AcquireSem
  <2>4. CASE ResumeSem(w)
    <3>1. Cardinality(woken \ {w}) = Cardinality(woken) - 1
      BY <1>0, <2>4, FS_RemoveElement DEF ResumeSem, Sem!Resume
    <3>2. QED BY <1>0, <2>4, <3>1, Counted DEF ResumeSem, Sem!Resume, history, WokenBound
  <2>5. QED BY <1>8, <1>9, <2>1, <2>2, <2>3, <2>4 DEF WorkerStep, Threads
<1>10. ASSUME NEW w \in Workers, SpuriousWakeUp(w) PROVE WokenBound'
  <2>1. Cardinality(woken') = Cardinality(woken) + 1
    BY <1>7, <1>10 DEF SpuriousWakeUp, Sem!Spurious
  <2>2. QED BY <1>0, <1>10, <2>1, Counted DEF SpuriousWakeUp, Sem!Spurious, WokenBound
<1>11. QED
  BY <1>1, <1>2, <1>3, <1>4, <1>5, <1>6, <1>8, <1>9, <1>10 DEF Next, MainStep, Threads

-----------------------------------------------------------------------------
(* The theorems. *)

\* The inductive invariant is preserved by every step.
LEMMA StepIInv == IInv /\ [Next]_vars => IInv'
BY TypeStep, MutexStep, SleepStep, ActiveStep, JoinedStep, FifoStep, PermitStep, WokenStep
   DEF IInv

\* The inductive invariant holds in every reachable state of the pool.
THEOREM PoolInvariant == Spec => []IInv
BY InitIInv, StepIInv, PTL DEF Spec

\* The tasks popped so far, followed by the queue, are the tasks in the order they
\* were added, however many workers, tasks and wake-ups there are.
THEOREM PoolFifo == Spec => []FifoDispatch
<1>1. IInv => FifoDispatch BY DEF IInv
<1>2. QED BY <1>1, PoolInvariant, PTL

\* While the pool is active its permits and the workers let through account for
\* every task in the queue.
THEOREM PoolPermits == Spec => []PermitPerTask
<1>1. IInv => PermitPerTask BY DEF IInv
<1>2. QED BY <1>1, PoolInvariant, PTL

\* The counter of the pool's semaphore never goes further below zero than the number
\* of workers but one, spurious wake-ups aside.
THEOREM PoolOverAdmission == Spec => []OverAdmissionBounded
<1>1. ASSUME IInv PROVE OverAdmissionBounded
  <2>1. Cardinality(woken) \in Nat
    BY <1>1, Counted, FS_Subset, FS_CardinalityType DEF IInv, TypeOK
  <2>2. QED BY <1>1, <2>1, Counted DEF IInv, TypeOK, WokenBound, OverAdmissionBounded
<1>2. QED BY <1>1, PoolInvariant, PTL

\* When the pool is freed every worker has returned, nobody holds its mutex and
\* nobody waits on its semaphore.
THEOREM PoolFreedLast == Spec => []NoUseAfterFree
<1>1. ASSUME IInv, ~allocated
      PROVE  /\ \A w \in Workers : pc[w] \in {"done", "failed"}
             /\ mtx = None
             /\ waiting \union woken = {}
  <2> USE <1>1 DEF IInv
  <2>1. pc[Main] = "freed" BY DEF JoinedInv
  <2>2. \A w \in Workers : pc[w] \in {"done", "failed"} BY <2>1 DEF JoinedInv
  <2>3. mtx = None BY <2>1, <2>2 DEF MutexInv, TypeOK, Threads, Holding
  <2>4. waiting \union woken = {} BY <2>2 DEF SleepInv, TypeOK
  <2>5. QED BY <2>2, <2>3, <2>4
<1>2. IInv => NoUseAfterFree BY <1>1 DEF NoUseAfterFree
<1>3. QED BY <1>2, PoolInvariant, PTL
=============================================================================
