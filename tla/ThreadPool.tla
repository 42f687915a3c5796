----------------------------- MODULE ThreadPool ------------------------------
(***************************************************************************)
(* uga_thread_pool (uga_pool.c): the main thread creates the workers, adds *)
(* tasks and destroys the pool; each worker runs _uga_pool_poll; a task    *)
(* may add further tasks.  The pool composes a FIFO of tasks, its mutex,   *)
(* a semaphore with one permit per task (SemAtomic) and the flag           *)
(* is_active, which uga_pool_destroy clears without any lock.              *)
(*                                                                         *)
(* The unlocked flag is a data race.  A worker that has not taken the      *)
(* semaphore's mutex since uga_pool_destroy released it is not             *)
(* synchronised with the store and may read the old value: `stale'.        *)
(*                                                                         *)
(* thrd_create may fail.  uga_thread_do_task returns a thread all the same *)
(* and the pool goes on with a worker less, until uga_pool_destroy joins   *)
(* the thread that never was.  That is undefined: the process crashes, or  *)
(* the join returns.                                                       *)
(***************************************************************************)
EXTENDS Integers, Sequences, FiniteSets

CONSTANTS Workers,      \* the threads of the pool
          Main,         \* the thread that owns the pool
          Submitters,   \* workers whose tasks call uga_pool_add_task
          MaxTasks,     \* bound: tasks added in all
          MaxSpurious,  \* bound: spurious wake-ups of the semaphore
          MaxFailed,    \* bound: threads that could not be created
          None          \* owner of a free mutex

Threads == Workers \union {Main}

ASSUME PoolConstants ==
  /\ IsFiniteSet(Workers) /\ Workers # {}
  /\ Submitters \subseteq Workers
  /\ MaxTasks \in Nat /\ MaxSpurious \in Nat /\ MaxFailed \in Nat
  /\ Main \notin Workers /\ None \notin Threads

VARIABLES active,      \* pool->is_active
          stale,       \* workers that may still read it as TRUE once it is FALSE
          tasks,       \* pool->tasks, tasks numbered in the order they were added
          mtx,         \* holder of pool->task_mtx
          val, waiting, woken,   \* pool->t_sem
          pc,          \* next statement of each thread
          task,        \* the local `task' of each worker; 0: { 0 }
          allocated,   \* the pool and its members have not been freed
          submitted,   \* history: tasks added
          dispatched,  \* history: tasks popped, in order
          misses,      \* history: times a worker was let through and found no task
          spurious     \* spurious wake-ups so far, for the bound

semVars == <<val, waiting, woken>>
history == <<submitted, dispatched, misses, spurious>>
vars == <<active, stale, tasks, mtx, semVars, pc, task, allocated, history>>

Sem == INSTANCE SemAtomic
         WITH Threads <- Workers, InitVal <- 0, Batches <- {Cardinality(Workers)}

Goto(t, label) == pc' = [pc EXCEPT ![t] = label]

ShutdownPosted == pc[Main] \in {"join", "free", "freed"}

\* What a read of pool->is_active by worker w may return.
Seen(w) == {active} \union (IF w \in stale THEN {TRUE} ELSE {})

\* w locks t_sem.mtx: if uga_pool_destroy has released it, w is now synchronised.
Synchronise(w) == stale' = IF ShutdownPosted THEN stale \ {w} ELSE stale

Init ==
  /\ active = TRUE /\ stale = {}
  /\ tasks = <<>> /\ mtx = None
  /\ Sem!Init
  /\ pc = [t \in Threads |-> IF t = Main THEN "create" ELSE "none"]
  /\ task = [w \in Workers |-> 0]
  /\ allocated = TRUE
  /\ submitted = 0 /\ dispatched = <<>> /\ misses = 0 /\ spurious = 0

-----------------------------------------------------------------------------
(* uga_pool_create_new: the loop that starts the workers. *)
CreateThread(w) ==
  /\ pc[Main] = "create"
  /\ pc[w] = "none"
  /\ Goto(w, "loop")
  /\ UNCHANGED <<active, stale, tasks, mtx, semVars, task, allocated, history>>

Failed == {w \in Workers : pc[w] = "failed"}

\* uga_thread_do_task when thrd_create fails.
CreateFails(w) ==
  /\ pc[Main] = "create"
  /\ pc[w] = "none"
  /\ Cardinality(Failed) < MaxFailed
  /\ Goto(w, "failed")
  /\ UNCHANGED <<active, stale, tasks, mtx, semVars, task, allocated, history>>

CreateReturns ==
  /\ pc[Main] = "create"
  /\ \A w \in Workers : pc[w] # "none"
  /\ Goto(Main, "ready")
  /\ UNCHANGED <<active, stale, tasks, mtx, semVars, task, allocated, history>>

-----------------------------------------------------------------------------
(* uga_pool_add_task, called by the main thread or from a running task. *)
InTransit == {t \in Threads : pc[t] = "add_push"}

AddTask(t) ==
  /\ \/ t = Main /\ pc[t] = "ready"
     \/ t \in Submitters /\ pc[t] = "run"
  /\ pc[Main] # "crashed"
  /\ submitted + Cardinality(InTransit) < MaxTasks
  /\ mtx = None
  /\ mtx' = t
  /\ Goto(t, "add_push")
  /\ UNCHANGED <<active, stale, tasks, semVars, task, allocated, history>>

\* Mutant: the task is put at the wrong end of the queue.
PushTaskFront(t) ==
  /\ pc[t] = "add_push"
  /\ submitted' = submitted + 1
  /\ tasks' = <<submitted'>> \o tasks
  /\ Goto(t, "add_post")
  /\ UNCHANGED <<active, stale, mtx, semVars, task, allocated, dispatched, misses, spurious>>

PushTask(t) ==
  /\ pc[t] = "add_push"
  /\ submitted' = submitted + 1
  /\ tasks' = Append(tasks, submitted')
  /\ Goto(t, "add_post")
  /\ UNCHANGED <<active, stale, mtx, semVars, task, allocated, dispatched, misses, spurious>>

\* Mutant: the semaphore is released only when the queue was empty.
PostFirstTask(t) ==
  /\ pc[t] = "add_post"
  /\ IF Len(tasks) = 1 THEN Sem!Post ELSE UNCHANGED semVars
  /\ Synchronise(t)
  /\ Goto(t, "add_unlock")
  /\ UNCHANGED <<active, tasks, mtx, task, allocated, history>>

PostTask(t) ==
  /\ pc[t] = "add_post"
  /\ Sem!Post
  /\ Synchronise(t)
  /\ Goto(t, "add_unlock")
  /\ UNCHANGED <<active, tasks, mtx, task, allocated, history>>

AddReturns(t) ==
  /\ pc[t] = "add_unlock"
  /\ mtx' = None
  /\ Goto(t, IF t = Main THEN "ready" ELSE "run")
  /\ UNCHANGED <<active, stale, tasks, semVars, task, allocated, history>>

-----------------------------------------------------------------------------
(* _uga_pool_poll *)

\* while( pool->is_active )
TestActive(w) ==
  /\ pc[w] = "loop"
  /\ \/ TRUE \in Seen(w)  /\ Goto(w, "sem")  /\ UNCHANGED stale
     \/ FALSE \in Seen(w) /\ Goto(w, "done") /\ stale' = stale \ {w}
  /\ UNCHANGED <<active, tasks, mtx, semVars, task, allocated, history>>

\* uga_sem_acquire: through at once, or asleep ...
AcquireSem(w) ==
  /\ pc[w] = "sem"
  /\ \/ Sem!FastAcquire(w) /\ Goto(w, "lock")
     \/ Sem!Block(w)       /\ Goto(w, "asleep")
  /\ Synchronise(w)
  /\ UNCHANGED <<active, tasks, mtx, task, allocated, history>>

\* ... until it is woken.
ResumeSem(w) ==
  /\ pc[w] = "asleep"
  /\ Sem!Resume(w)
  /\ Synchronise(w)
  /\ Goto(w, "lock")
  /\ UNCHANGED <<active, tasks, mtx, task, allocated, history>>

SpuriousWakeUp(w) ==
  /\ spurious < MaxSpurious /\ pc[Main] # "crashed"
  /\ Sem!Spurious(w)
  /\ spurious' = spurious + 1
  /\ UNCHANGED <<active, stale, tasks, mtx, pc, task, allocated,
                 submitted, dispatched, misses>>

LockTasks(w) ==
  /\ pc[w] = "lock"
  /\ mtx = None
  /\ mtx' = w
  /\ Goto(w, "check")
  /\ UNCHANGED <<active, stale, tasks, semVars, task, allocated, history>>

\* if( !pool->is_active )
CheckActive(w) ==
  /\ pc[w] = "check"
  /\ \/ TRUE \in Seen(w)  /\ Goto(w, "pop")   /\ UNCHANGED stale
     \/ FALSE \in Seen(w) /\ Goto(w, "leave") /\ stale' = stale \ {w}
  /\ UNCHANGED <<active, tasks, mtx, semVars, task, allocated, history>>

Leave(w) ==
  /\ pc[w] = "leave"
  /\ mtx' = None
  /\ Goto(w, "done")
  /\ UNCHANGED <<active, stale, tasks, semVars, task, allocated, history>>

\* if( !uga_dl_list_empty( &pool->tasks ) ) uga_dl_list_pop_front( ... )
PopTask(w) ==
  /\ pc[w] = "pop"
  /\ IF tasks = <<>>
     THEN misses' = misses + 1 /\ UNCHANGED <<task, tasks, dispatched>>
     ELSE /\ task' = [task EXCEPT ![w] = Head(tasks)]
          /\ tasks' = Tail(tasks)
          /\ dispatched' = Append(dispatched, Head(tasks))
          /\ UNCHANGED misses
  /\ Goto(w, "unlock")
  /\ UNCHANGED <<active, stale, mtx, semVars, allocated, submitted, spurious>>

UnlockTasks(w) ==
  /\ pc[w] = "unlock"
  /\ mtx' = None
  /\ Goto(w, IF task[w] = 0 THEN "loop" ELSE "run")
  /\ UNCHANGED <<active, stale, tasks, semVars, task, allocated, history>>

\* task.run returns, and the next iteration starts with an empty `task'.
FinishTask(w) ==
  /\ pc[w] = "run"
  /\ task' = [task EXCEPT ![w] = 0]
  /\ Goto(w, "loop")
  /\ UNCHANGED <<active, stale, tasks, mtx, semVars, allocated, history>>

-----------------------------------------------------------------------------
(* uga_pool_destroy *)
Deactivate ==
  /\ pc[Main] = "ready"
  /\ active' = FALSE
  /\ stale' = {w \in Workers : pc[w] \notin {"done", "failed"}}
  /\ Goto(Main, "shutdown")
  /\ UNCHANGED <<tasks, mtx, semVars, task, allocated, history>>

\* Mutant: one permit too few for the workers.
PostShutdownShort ==
  /\ pc[Main] = "shutdown"
  /\ val' = val + Cardinality(Workers) - 1
  /\ waiting' = {} /\ woken' = woken \union waiting
  /\ Goto(Main, "join")
  /\ UNCHANGED <<active, stale, tasks, mtx, task, allocated, history>>

PostShutdown ==
  /\ pc[Main] = "shutdown"
  /\ Sem!PostN(Cardinality(Workers))
  /\ Goto(Main, "join")
  /\ UNCHANGED <<active, stale, tasks, mtx, task, allocated, history>>

\* Mutant: the loop that joins the workers misses one of them.
JoinAllButOne ==
  /\ pc[Main] = "join"
  /\ \E last \in Workers : \A w \in Workers \ {last} : pc[w] \in {"done", "failed"}
  /\ Goto(Main, "free")
  /\ UNCHANGED <<active, stale, tasks, mtx, semVars, task, allocated, history>>

\* The loop of joins ends when the last worker has returned.
JoinAll ==
  /\ pc[Main] = "join"
  /\ \A w \in Workers : pc[w] \in {"done", "failed"}
  /\ Goto(Main, "free")
  /\ UNCHANGED <<active, stale, tasks, mtx, semVars, task, allocated, history>>

\* thrd_join of a thread that was never created.
JoinCrashes ==
  /\ pc[Main] = "join"
  /\ Failed # {}
  /\ Goto(Main, "crashed")
  /\ UNCHANGED <<active, stale, tasks, mtx, semVars, task, allocated, history>>

\* Thread data, vector, queue, mutex, semaphore and the pool itself.
Free ==
  /\ pc[Main] = "free"
  /\ allocated' = FALSE
  /\ tasks' = <<>>
  /\ Goto(Main, "freed")
  /\ UNCHANGED <<active, stale, mtx, semVars, task, history>>

-----------------------------------------------------------------------------
AddStep(t) == PushTask(t) \/ PostTask(t) \/ AddReturns(t)

WorkerStep(w) ==
  /\ pc[Main] # "crashed"
  /\ \/ TestActive(w) \/ AcquireSem(w) \/ ResumeSem(w)
     \/ LockTasks(w) \/ CheckActive(w) \/ Leave(w) \/ PopTask(w) \/ UnlockTasks(w)
     \/ FinishTask(w)
     \/ AddStep(w)

MainStep ==
  \/ (\E w \in Workers : CreateThread(w) \/ CreateFails(w)) \/ CreateReturns
  \/ AddStep(Main)
  \/ PostShutdown \/ JoinAll \/ JoinCrashes \/ Free

Next ==
  \/ MainStep \/ Deactivate
  \/ \E t \in Threads : AddTask(t)
  \/ \E w \in Workers : WorkerStep(w) \/ SpuriousWakeUp(w)

Spec == Init /\ [][Next]_vars

(***************************************************************************)
(* Threads that can run do run, and tasks return.  Nothing forces anybody  *)
(* to add a task or to destroy the pool.                                   *)
(***************************************************************************)
FairSpec == Spec /\ WF_vars(MainStep) /\ \A w \in Workers : WF_vars(WorkerStep(w))

-----------------------------------------------------------------------------
WorkerLabels == {"none", "loop", "sem", "asleep", "lock", "check", "leave", "pop",
                 "unlock", "run", "done", "failed", "add_push", "add_post", "add_unlock"}
MainLabels == {"create", "ready", "add_push", "add_post", "add_unlock",
               "shutdown", "join", "crashed", "free", "freed"}

(***************************************************************************)
(* README: "a simple thread pool implementation with FIFO task scheduling".*)
(* The tasks popped so far, followed by the queue, are the tasks in the    *)
(* order they were added: none lost, none run twice, none overtaken.       *)
(***************************************************************************)
FifoDispatch ==
  allocated => dispatched \o tasks = [i \in 1..submitted |-> i]

(***************************************************************************)
(* While the pool is active, the permits on the semaphore, the workers     *)
(* let through that have not popped yet and the workers let through in     *)
(* vain add up to the tasks in the queue.  A worker let through in vain    *)
(* therefore costs the pool a permit for good.                             *)
(***************************************************************************)
LetThrough == {w \in Workers : pc[w] \in {"lock", "check", "pop"}}
Unposted   == {t \in Threads : pc[t] = "add_post"}

PermitPerTask ==
  active =>
    val + Cardinality(LetThrough) + misses = Len(tasks) - Cardinality(Unposted)

(***************************************************************************)
(* Workers that overtake a woken one push the counter below zero, but,     *)
(* spurious wake-ups aside, never further than all workers but one: so     *)
(* many tasks at most are left in the queue while every worker sleeps.     *)
(***************************************************************************)
OverAdmissionBounded == val >= 1 - Cardinality(Workers) - spurious

(***************************************************************************)
(* Every access to the pool ends before it is freed: then all workers have *)
(* left _uga_pool_poll, nobody holds its mutex or waits on its semaphore.  *)
(***************************************************************************)
NoUseAfterFree ==
  ~allocated => /\ \A w \in Workers : pc[w] \in {"done", "failed"}
                /\ mtx = None
                /\ waiting \union woken = {}

(***************************************************************************)
(* Every task is taken by a worker, unless the pool is destroyed first or  *)
(* no worker could be created.                                             *)
(***************************************************************************)
Started(i) == \E k \in DOMAIN dispatched : dispatched[k] = i

EveryTaskRuns ==
  \A i \in 1..MaxTasks : submitted >= i ~> (Started(i) \/ ~active \/ Failed = Workers)

(***************************************************************************)
(* uga_pool_destroy returns: every worker notices, however it was caught;  *)
(* only the join of a thread that was never created may crash it.          *)
(***************************************************************************)
DestroyReturns == ~active ~> (~allocated \/ (Failed # {} /\ pc[Main] = "crashed"))

(***************************************************************************)
(* With several workers a task may never run.  Every task runs, with any   *)
(* number of workers, some of them missing, as long as the semaphore never *)
(* goes below zero, that is, as long as no acquire overtakes a woken       *)
(* worker.                                                                 *)
(***************************************************************************)
NeverOvertaken == [](val >= 0)
TasksRunUnlessOvertaken == NeverOvertaken => EveryTaskRuns

(***************************************************************************)
(* uga_pool_destroy returns under the same condition.                      *)
(***************************************************************************)
DestroyReturnsUnlessOvertaken == NeverOvertaken => DestroyReturns
=============================================================================
