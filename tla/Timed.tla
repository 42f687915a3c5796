-------------------------------- MODULE Timed --------------------------------
(***************************************************************************)
(* The calls of uga_thread that wait for a limited time: acquiring a mutex *)
(* and waiting on a condition with a timeout, and sleeping.  The clock is  *)
(* counted in ticks, `Second' of which are a second; a time is a timespec. *)
(* Nanoseconds and milliseconds are added to tv_nsec, with no carry into   *)
(* tv_sec, so the sum may be no valid time.                                *)
(*                                                                         *)
(* The clients look at what the calls return: who did not get the mutex    *)
(* does not go on.  Each step of theirs is what happens between two waits. *)
(***************************************************************************)
EXTENDS Naturals

CONSTANTS Threads,
          Second,   \* ticks in a second
          Nanos,    \* how many ticks clients ask for by the _ns and _ms calls
          Secs,     \* how many seconds by the _s calls
          MaxTime,  \* bound: the clock, and the ends of valid timeouts
          None      \* owner of a free mutex

ASSUME TimedConstants ==
  /\ Second \in Nat \ {0} /\ MaxTime \in Nat
  /\ Nanos \subseteq Nat /\ Secs \subseteq Nat
  /\ None \notin Threads

VARIABLES now,      \* CLOCK_REALTIME
          mtx,      \* holder of the mutex
          waiting,  \* threads blocked on the condition
          where,    \* where each thread is
          timeout,  \* the timespec of its call
          result,   \* what its last timed call returned
          asked     \* history: that call, when it was made, and for how long

timedVars == <<now, mtx, waiting, where, timeout, result, asked>>

Time(sec, nsec) == [tv_sec |-> sec, tv_nsec |-> nsec]

Ticks(time) == time.tv_sec * Second + time.tv_nsec

\* What the C library accepts.
Valid(time) == time.tv_nsec < Second

uga_time_empty   == Time(0, 0)
uga_time_current == Time(now \div Second, now % Second)

Durations == [secs : {0}, nanos : Nanos] \union [secs : Secs, nanos : {0}]

Nothing == [secs |-> 0, nanos |-> 0]

Length(d) == d.secs * Second + d.nanos

\* Mutant: seconds are converted like milliseconds.
AddSecondsToNanos(time, d) == Time(time.tv_sec, time.tv_nsec + Length(d))

\* timeout.tv_nsec += nanos, or timeout.tv_sec += secs
Add(time, d) == Time(time.tv_sec + d.secs, time.tv_nsec + d.nanos)

InitTimed ==
  /\ now = 0 /\ mtx = None /\ waiting = {}
  /\ where = [t \in Threads |-> "idle"]
  /\ timeout = [t \in Threads |-> uga_time_empty]
  /\ result = [t \in Threads |-> "none"]
  /\ asked = [t \in Threads |-> [op |-> "none", at |-> 0, time |-> Nothing]]

\* Thread t makes a timed call.
Call(t, from, op, time, d) ==
  /\ where[t] = from
  /\ Valid(time) => Ticks(time) <= MaxTime
  /\ where' = [where EXCEPT ![t] = op]
  /\ timeout' = [timeout EXCEPT ![t] = time]
  /\ result' = [result EXCEPT ![t] = "none"]
  /\ asked' = [asked EXCEPT ![t] = [op |-> op, at |-> now, time |-> d]]
  /\ UNCHANGED <<now, mtx, waiting>>

\* It returns, and the thread goes on at label.
Returns(t, value, label) ==
  /\ result' = [result EXCEPT ![t] = value]
  /\ where' = [where EXCEPT ![t] = label]
  /\ UNCHANGED <<now, timeout, asked>>

Over(t) == now >= Ticks(timeout[t])

-----------------------------------------------------------------------------
(* uga_mtx_acquire_timed_ns, _ms and _s. *)
MtxAcquireTimed(t, d) == Call(t, "idle", "acquire", Add(uga_time_current, d), d)

Acquired(t) ==
  /\ where[t] = "acquire"
  /\ mtx = None
  /\ mtx' = t
  /\ Returns(t, "success", "critical")
  /\ UNCHANGED waiting

\* Mutant: returns thrd_success for any failure but a timeout.
NotAcquiredUntold(t) ==
  /\ where[t] = "acquire"
  /\ mtx # None
  /\ \/ ~Valid(timeout[t]) /\ Returns(t, "success", "critical")
     \/ Valid(timeout[t]) /\ Over(t) /\ Returns(t, "timedout", "idle")
  /\ UNCHANGED <<mtx, waiting>>

\* Mutant: tried again after any failure but a timeout.
NotAcquiredRetried(t) ==
  /\ where[t] = "acquire"
  /\ mtx # None
  /\ Valid(timeout[t]) /\ Over(t) /\ Returns(t, "timedout", "idle")
  /\ UNCHANGED <<mtx, waiting>>

\* The timeout is looked at only if there is something to wait for.
NotAcquired(t) ==
  /\ where[t] = "acquire"
  /\ mtx # None
  /\ \/ ~Valid(timeout[t]) /\ Returns(t, "error", "idle")
     \/ Valid(timeout[t]) /\ Over(t) /\ Returns(t, "timedout", "idle")
  /\ UNCHANGED <<mtx, waiting>>

MtxRelease(t) ==
  /\ where[t] = "critical"
  /\ mtx' = IF mtx = t THEN None ELSE mtx
  /\ where' = [where EXCEPT ![t] = "idle"]
  /\ UNCHANGED <<now, waiting, timeout, result, asked>>

-----------------------------------------------------------------------------
(* uga_cnd_wait_timed_ns, _ms and _s, uga_cnd_ping and _ping_all. *)
CndWaitTimed(t, d) == Call(t, "critical", "wait", Add(uga_time_current, d), d)

\* The mutex is given up if the timeout is valid.
WaitBegins(t) ==
  /\ where[t] = "wait"
  /\ IF Valid(timeout[t])
     THEN /\ mtx' = None /\ waiting' = waiting \union {t}
          /\ where' = [where EXCEPT ![t] = "waiting"]
          /\ UNCHANGED <<now, timeout, result, asked>>
     ELSE Returns(t, "error", "critical") /\ UNCHANGED <<mtx, waiting>>

\* Time is up, or the wake-up is a spurious one.
WaitEnds(t) ==
  /\ t \in waiting
  /\ waiting' = waiting \ {t}
  /\ \/ Over(t) /\ Returns(t, "timedout", "woken")
     \/ Returns(t, "success", "woken")
  /\ UNCHANGED mtx

Wake(woken) ==
  /\ waiting' = waiting \ woken
  /\ where' = [u \in Threads |-> IF u \in woken THEN "woken" ELSE where[u]]
  /\ result' = [u \in Threads |-> IF u \in woken THEN "success" ELSE result[u]]
  /\ UNCHANGED <<now, mtx, timeout, asked>>

\* With or without the mutex.
CndPing(t) ==
  /\ where[t] \in {"idle", "critical"} /\ waiting # {}
  /\ \E u \in waiting : Wake({u})

CndPingAll(t) ==
  /\ where[t] \in {"idle", "critical"} /\ waiting # {}
  /\ Wake(waiting)

\* The wait returns with the mutex held, whatever ended it.
Reacquired(t) ==
  /\ where[t] = "woken"
  /\ mtx = None
  /\ mtx' = t
  /\ where' = [where EXCEPT ![t] = "critical"]
  /\ UNCHANGED <<now, waiting, timeout, result, asked>>

-----------------------------------------------------------------------------
(* uga_thread_sleep_ns, _ms and _s: not until a time but for one. *)
ThreadSleep(t, d) ==
  /\ Valid(Add(uga_time_empty, d)) => now + Length(d) <= MaxTime
  /\ Call(t, "idle", "sleep", Add(uga_time_empty, d), d)

SleptEnough(t) == now >= asked[t].at + Ticks(timeout[t])

\* A signal may interrupt it.  It returns nothing; result is that of thrd_sleep.
SleepEnds(t) ==
  /\ where[t] = "sleep"
  /\ IF ~Valid(timeout[t]) THEN Returns(t, "error", "idle")
     ELSE \/ SleptEnough(t) /\ Returns(t, "success", "idle")
          \/ Returns(t, "interrupted", "idle")
  /\ UNCHANGED <<mtx, waiting>>

-----------------------------------------------------------------------------
Tick == now < MaxTime /\ now' = now + 1 /\ UNCHANGED <<mtx, waiting, where, timeout, result, asked>>

\* The steps of calls; spurious wake-ups and signals happen but do not have to.
GoesOn(t) ==
  \/ Acquired(t) \/ NotAcquired(t) \/ WaitBegins(t)
  \/ Over(t) /\ WaitEnds(t)
  \/ (~Valid(timeout[t]) \/ SleptEnough(t)) /\ SleepEnds(t)

NextTimed ==
  \/ Tick
  \/ \E t \in Threads :
       \/ Acquired(t) \/ NotAcquired(t) \/ MtxRelease(t)
       \/ WaitBegins(t) \/ WaitEnds(t) \/ Reacquired(t)
       \/ CndPing(t) \/ CndPingAll(t)
       \/ SleepEnds(t)
       \/ \E d \in Durations : MtxAcquireTimed(t, d) \/ CndWaitTimed(t, d) \/ ThreadSleep(t, d)

TimedSpec == InitTimed /\ [][NextTimed]_timedVars

-----------------------------------------------------------------------------
(***************************************************************************)
(* A client that looks at what the calls return is alone between acquiring *)
(* and releasing the mutex, and a wait on the condition returns to it with *)
(* the mutex held, timed out, refused or not.                              *)
(***************************************************************************)
Inside == {t \in Threads : where[t] \in {"critical", "wait"}}

Exclusion == \A t \in Inside : mtx = t

(***************************************************************************)
(* No call gives up early: it reports a timeout, or a sleep its end, only  *)
(* after the time asked for.  It fails without waiting only if the ticks   *)
(* added to those of the current second, or for a sleep the ticks alone,   *)
(* make a second or more; and then it never waits.  Whole seconds can      *)
(* always be waited for.                                                   *)
(***************************************************************************)
Carries(call) ==
  (IF call.op = "sleep" THEN 0 ELSE call.at % Second) + call.time.nanos >= Second

Ended(t) == result[t] = "timedout" \/ (result[t] = "success" /\ asked[t].op = "sleep")

WaitsAsAsked ==
  \A t \in Threads :
    /\ Ended(t) => now >= asked[t].at + Length(asked[t].time)
    /\ result[t] = "error" => Carries(asked[t])
    /\ result[t] = "timedout" => ~Carries(asked[t])

(***************************************************************************)
(* A call with a timeout comes to an end: nobody waits for ever for the    *)
(* mutex, the condition or the end of a sleep.  (Whoever is woken on the   *)
(* condition has the mutex to wait for, and for that there is no limit.)   *)
(***************************************************************************)
TimedReturns ==
  \A t \in Threads :
    where[t] \in {"acquire", "waiting", "sleep"} ~> where[t] \notin {"acquire", "waiting", "sleep"}
=============================================================================
