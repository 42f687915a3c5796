----------------------------- MODULE SharedProofs -----------------------------
(***************************************************************************)
(* Theorems about what the threads of a program share beside the pool: the *)
(* mutex and the clock of the timed calls (Timed), and the error record of *)
(* the process (Errors).  They hold for any number of threads, any         *)
(* durations and length of a second, and any functions.                    *)
(*                                                                         *)
(* Exclusion needs no more than the types to be inductive.  For            *)
(* WaitsAsAsked the invariant says where the timespec of a call comes from *)
(* (AskedInv): until the call ends it is the time asked for, added to the  *)
(* moment of the call or, for a sleep, to nothing; and only a valid one is *)
(* waited for.                                                             *)
(*                                                                         *)
(* For the error record the invariant says what a thread knows of it at    *)
(* each stage as long as no other thread has written to it (Known): a      *)
(* write of another thread makes the thread `disturbed', so that only its  *)
(* own steps matter to what it knows.                                      *)
(***************************************************************************)
EXTENDS Timed, Errors, TLAPS

-----------------------------------------------------------------------------
(* The timed calls. *)

Times == [tv_sec : Nat, tv_nsec : Nat]
Ops == {"none", "acquire", "wait", "sleep"}

TypeOK ==
  /\ now \in Nat
  /\ mtx \in Threads \union {None}
  /\ waiting \subseteq Threads
  /\ where \in [Threads -> {"idle", "acquire", "critical", "wait", "waiting", "woken", "sleep"}]
  /\ timeout \in [Threads -> Times]
  /\ result \in [Threads -> {"none", "success", "timedout", "error", "interrupted"}]
  /\ asked \in [Threads -> [op : Ops, at : Nat, time : [secs : Nat, nanos : Nat]]]

\* The timespec a call made at that time waits until.
Until(made) == Add(Time(made.at \div Second, made.at % Second), made.time)

AskedOf(t) ==
  /\ asked[t].at <= now
  /\ where[t] \in {"acquire", "wait", "waiting"} =>
       asked[t].op # "sleep" /\ timeout[t] = Until(asked[t])
  /\ where[t] = "sleep" =>
       asked[t].op = "sleep" /\ timeout[t] = Add(uga_time_empty, asked[t].time)
  /\ where[t] = "waiting" => Valid(timeout[t])
  /\ t \in waiting => where[t] = "waiting"

\* WaitsAsAsked of one thread.
WaitedAsAsked(t) ==
  /\ Ended(t) => now >= asked[t].at + Length(asked[t].time)
  /\ result[t] = "error" => Carries(asked[t])
  /\ result[t] = "timedout" => ~Carries(asked[t])

AskedInv == \A t \in Threads : AskedOf(t) /\ WaitedAsAsked(t)

IInv == TypeOK /\ Exclusion /\ AskedInv

-----------------------------------------------------------------------------
(* The times of calls. *)

\* A moment is its seconds and the rest.
LEMMA SplitTime ==
  ASSUME NEW n \in Nat
  PROVE  /\ n \div Second \in Nat /\ n % Second \in Nat
         /\ (n \div Second) * Second + (n % Second) = n
<1> Second \in Nat /\ Second > 0 BY TimedConstants DEF TimedConstants
<1>1. n \div Second \in Nat /\ n % Second \in Nat OBVIOUS
<1>2. ASSUME NEW q \in Nat, NEW r \in Nat, q = n \div Second, r = n % Second
      PROVE  n = Second * q + r
  BY <1>2, SMT
<1>3. n = Second * (n \div Second) + (n % Second) BY <1>1, <1>2
<1>4. QED BY <1>1, <1>3

\* Adding seconds and ticks to a timespec adds to the moment it stands for, carry or not.
LEMMA AddTicks ==
  ASSUME NEW sec \in Nat, NEW nsec \in Nat, NEW d \in [secs : Nat, nanos : Nat]
  PROVE  /\ Add(Time(sec, nsec), d) \in Times
         /\ Ticks(Add(Time(sec, nsec), d)) = sec * Second + nsec + Length(d)
         /\ Add(Time(sec, nsec), d).tv_nsec = nsec + d.nanos
         /\ Length(d) \in Nat
<1> Second \in Nat BY TimedConstants DEF TimedConstants
<1>1. Add(Time(sec, nsec), d) = [tv_sec |-> sec + d.secs, tv_nsec |-> nsec + d.nanos]
  BY DEF Add, Time
<1>2. (sec + d.secs) * Second = sec * Second + d.secs * Second
  OBVIOUS
<1>3. sec * Second \in Nat /\ d.secs * Second \in Nat
  OBVIOUS
<1>4. QED BY <1>1, <1>2, <1>3 DEF Times, Ticks, Length

\* While a call goes on, its timespec is over after the time asked for, and valid
\* unless the ticks carry.
LEMMA TimespecOfCall ==
  ASSUME TypeOK, NEW t \in Threads, AskedOf(t)
  PROVE  /\ where[t] \in {"acquire", "wait", "waiting"} =>
              /\ Ticks(timeout[t]) = asked[t].at + Length(asked[t].time)
              /\ Valid(timeout[t]) <=> ~Carries(asked[t])
         /\ where[t] = "sleep" =>
              /\ Ticks(timeout[t]) = Length(asked[t].time)
              /\ Valid(timeout[t]) <=> ~Carries(asked[t])
<1> DEFINE at == asked[t].at
           d == asked[t].time
<1>1. at \in Nat /\ d \in [secs : Nat, nanos : Nat] BY DEF TypeOK
<1>2. Second \in Nat BY TimedConstants DEF TimedConstants
<1>3. CASE where[t] \in {"acquire", "wait", "waiting"}
  <2>1. asked[t].op # "sleep" /\ timeout[t] = Add(Time(at \div Second, at % Second), d)
    BY <1>3 DEF AskedOf, Until
  <2>2. at \div Second \in Nat /\ at % Second \in Nat
        /\ (at \div Second) * Second + (at % Second) = at
    BY <1>1, SplitTime
  <2>3. /\ Ticks(timeout[t]) = at + Length(d)
        /\ timeout[t].tv_nsec = (at % Second) + d.nanos
    <3> HIDE DEF at, d
    <3>1. /\ Ticks(timeout[t]) = (at \div Second) * Second + (at % Second) + Length(d)
          /\ timeout[t].tv_nsec = (at % Second) + d.nanos
      BY <1>1, <2>1, <2>2, AddTicks
    <3>2. QED BY <2>2, <3>1
  <2>4. Valid(timeout[t]) <=> ~Carries(asked[t])
    BY <1>1, <1>2, <2>1, <2>2, <2>3 DEF Valid, Carries
  <2>5. QED BY <1>3, <2>3, <2>4
<1>4. CASE where[t] = "sleep"
  <2>1. asked[t].op = "sleep" /\ timeout[t] = Add(Time(0, 0), d)
    BY <1>4 DEF AskedOf, uga_time_empty
  <2>2. Ticks(timeout[t]) = 0 * Second + 0 + Length(d) /\ timeout[t].tv_nsec = 0 + d.nanos
        /\ Length(d) \in Nat
    <3> HIDE DEF at, d
    <3>1. 0 \in Nat OBVIOUS
    <3>2. QED BY <1>1, <2>1, <3>1, AddTicks
  <2>3. Ticks(timeout[t]) = Length(d)
    BY <1>2, <2>2
  <2>4. Valid(timeout[t]) <=> ~Carries(asked[t])
    BY <1>1, <1>2, <2>1, <2>2 DEF Valid, Carries
  <2>5. QED BY <1>4, <2>3, <2>4
<1>5. QED BY <1>3, <1>4

\* What a call stores is of the right types.
LEMMA CallTypes ==
  ASSUME TypeOK, NEW d \in Durations
  PROVE  /\ d \in [secs : Nat, nanos : Nat]
         /\ Add(uga_time_current, d) \in Times /\ Add(uga_time_empty, d) \in Times
<1>1. d \in [secs : Nat, nanos : Nat]
  <2>1. \A n \in Nanos \union Secs \union {0} : n \in Nat
    BY TimedConstants DEF TimedConstants
  <2>2. ASSUME NEW s \in {0}, NEW n \in Nanos, d = [secs |-> s, nanos |-> n]
        PROVE  d \in [secs : Nat, nanos : Nat]
    BY <2>1, <2>2
  <2>3. ASSUME NEW s \in Secs, NEW n \in {0}, d = [secs |-> s, nanos |-> n]
        PROVE  d \in [secs : Nat, nanos : Nat]
    BY <2>1, <2>3
  <2>4. \/ \E s \in {0}, n \in Nanos : d = [secs |-> s, nanos |-> n]
        \/ \E s \in Secs, n \in {0} : d = [secs |-> s, nanos |-> n]
    BY DEF Durations
  <2>5. QED BY <2>2, <2>3, <2>4
<1>2. now \div Second \in Nat /\ now % Second \in Nat BY SplitTime DEF TypeOK
<1>3. QED BY <1>1, <1>2, AddTicks DEF uga_time_current, uga_time_empty

-----------------------------------------------------------------------------
(* The invariant. *)

\* Nobody has called anything in the initial state.
LEMMA InitIInv == InitTimed => IInv
<1> SUFFICES ASSUME InitTimed PROVE IInv OBVIOUS
<1> USE TimedConstants DEF TimedConstants, InitTimed
<1>1. TypeOK BY DEF TypeOK, Times, Ops, uga_time_empty, Time, Nothing
<1>2. Exclusion BY DEF Exclusion, Inside
<1>3. AskedInv
  <2> SUFFICES ASSUME NEW t \in Threads PROVE AskedOf(t) /\ WaitedAsAsked(t) BY DEF AskedInv
  <2>1. AskedOf(t) BY DEF AskedOf
  <2>2. WaitedAsAsked(t) BY DEF WaitedAsAsked, Ended
  <2>3. QED BY <2>1, <2>2
<1>4. QED BY <1>1, <1>2, <1>3 DEF IInv

\* Every step keeps every variable in its type.
LEMMA TypeStep == ASSUME TypeOK, [NextTimed]_timedVars PROVE TypeOK'
<1> USE DEF TypeOK, Returns
<1>1. CASE UNCHANGED timedVars
  BY <1>1 DEF timedVars
<1>2. CASE Tick
  BY <1>2 DEF Tick
<1>3. ASSUME NEW t \in Threads, Acquired(t) \/ NotAcquired(t) \/ MtxRelease(t) PROVE TypeOK'
  BY <1>3 DEF Acquired, NotAcquired, MtxRelease
<1>4. ASSUME NEW t \in Threads, WaitBegins(t) \/ WaitEnds(t) \/ Reacquired(t) PROVE TypeOK'
  BY <1>4 DEF WaitBegins, WaitEnds, Reacquired
<1>5. ASSUME NEW t \in Threads, CndPing(t) \/ CndPingAll(t) PROVE TypeOK'
  <2>1. PICK woken : Wake(woken) BY <1>5 DEF CndPing, CndPingAll
  <2>2. QED BY <2>1 DEF Wake
<1>6. ASSUME NEW t \in Threads, SleepEnds(t) PROVE TypeOK'
  BY <1>6 DEF SleepEnds
<1>7. ASSUME NEW t \in Threads, NEW d \in Durations,
             MtxAcquireTimed(t, d) \/ CndWaitTimed(t, d) \/ ThreadSleep(t, d)
      PROVE  TypeOK'
  <2>1. d \in [secs : Nat, nanos : Nat] BY CallTypes
  <2>2. CASE MtxAcquireTimed(t, d)
    BY <2>1, <2>2, CallTypes DEF MtxAcquireTimed, Call, Ops
  <2>3. CASE CndWaitTimed(t, d)
    BY <2>1, <2>3, CallTypes DEF CndWaitTimed, Call, Ops
  <2>4. CASE ThreadSleep(t, d)
    BY <2>1, <2>4, CallTypes DEF ThreadSleep, Call, Ops
  <2>5. QED BY <1>7, <2>2, <2>3, <2>4
<1>8. QED BY <1>1, <1>2, <1>3, <1>4, <1>5, <1>6, <1>7 DEF NextTimed

\* Only the holder of the mutex is past the call that acquires it, after every step.
LEMMA ExclusionStep == ASSUME TypeOK, Exclusion, [NextTimed]_timedVars PROVE Exclusion'
<1> USE TimedConstants DEF TimedConstants, TypeOK, Exclusion, Inside, Returns
<1>1. CASE UNCHANGED timedVars
  BY <1>1 DEF timedVars
<1>2. CASE Tick
  BY <1>2 DEF Tick
<1>3. ASSUME NEW t \in Threads, Acquired(t) \/ NotAcquired(t) PROVE Exclusion'
  BY <1>3 DEF Acquired, NotAcquired
<1>4. ASSUME NEW t \in Threads, MtxRelease(t) PROVE Exclusion'
  BY <1>4 DEF MtxRelease
<1>5. ASSUME NEW t \in Threads, WaitBegins(t) PROVE Exclusion'
  BY <1>5 DEF WaitBegins
<1>6. ASSUME NEW t \in Threads, WaitEnds(t) \/ Reacquired(t) PROVE Exclusion'
  BY <1>6 DEF WaitEnds, Reacquired
<1>7. ASSUME NEW t \in Threads, CndPing(t) \/ CndPingAll(t) PROVE Exclusion'
  <2>1. PICK woken : Wake(woken) BY <1>7 DEF CndPing, CndPingAll
  <2>2. QED BY <2>1 DEF Wake
<1>8. ASSUME NEW t \in Threads, SleepEnds(t) PROVE Exclusion'
  BY <1>8 DEF SleepEnds
<1>9. ASSUME NEW t \in Threads, NEW d \in Durations,
             MtxAcquireTimed(t, d) \/ CndWaitTimed(t, d) \/ ThreadSleep(t, d)
      PROVE  Exclusion'
  <2>1. CASE MtxAcquireTimed(t, d) \/ ThreadSleep(t, d)
    BY <2>1 DEF MtxAcquireTimed, ThreadSleep, Call
  <2>2. CASE CndWaitTimed(t, d)
    BY <2>2 DEF CndWaitTimed, Call
  <2>3. QED BY <1>9, <2>1, <2>2
<1>10. QED BY <1>1, <1>2, <1>3, <1>4, <1>5, <1>6, <1>7, <1>8, <1>9 DEF NextTimed

\* What a thread keeps, whatever the others do: its call, its timespec and its result;
\* if its label changes, then because it was woken.
Untouched(u) ==
  /\ asked'[u] = asked[u] /\ timeout'[u] = timeout[u] /\ now' >= now
  /\ \/ where'[u] = where[u] /\ result'[u] = result[u] /\ (u \in waiting' => u \in waiting)
     \/ u \in waiting /\ u \notin waiting' /\ where'[u] = "woken" /\ result'[u] = "success"

\* A thread that nothing but a ping touched waited as it asked if it did before.
LEMMA UntouchedAsked ==
  ASSUME TypeOK, TypeOK', NEW u \in Threads, AskedOf(u), WaitedAsAsked(u), Untouched(u)
  PROVE  (AskedOf(u) /\ WaitedAsAsked(u))'
<1>1. /\ now \in Nat /\ now' \in Nat /\ asked[u].at \in Nat
      /\ asked[u].time \in [secs : Nat, nanos : Nat]
  BY DEF TypeOK
<1>2. Length(asked[u].time) \in Nat
  BY <1>1, AddTicks
<1>3. AskedOf(u)'
  BY <1>1 DEF AskedOf, Untouched, Valid, Until
<1>4. WaitedAsAsked(u)'
  BY <1>1, <1>2 DEF WaitedAsAsked, AskedOf, Untouched, Ended, Carries
<1>5. QED BY <1>3, <1>4

\* A thread that makes a call has all of it before it.
LEMMA CallAsked ==
  ASSUME TypeOK, NEW t \in Threads, NEW d \in Durations, NEW from, NEW op \in Ops, NEW time,
         Call(t, from, op, time, d), t \notin waiting, op # "none",
         time = Add(IF op = "sleep" THEN uga_time_empty ELSE uga_time_current, d)
  PROVE  (AskedOf(t) /\ WaitedAsAsked(t))'
<1>1. /\ now' = now /\ where'[t] = op /\ timeout'[t] = time /\ result'[t] = "none"
      /\ asked'[t] = [op |-> op, at |-> now, time |-> d] /\ waiting' = waiting
  BY DEF Call, TypeOK
<1>2. op # "sleep" => time = Until(asked'[t])
  BY <1>1 DEF Until, uga_time_current
<1>3. AskedOf(t)'
  BY <1>1, <1>2 DEF AskedOf, TypeOK, Ops, Until
<1>4. WaitedAsAsked(t)'
  BY <1>1 DEF WaitedAsAsked, Ended
<1>5. QED BY <1>3, <1>4

\* After every step the timespec of a call is the one it made, and its result true.
LEMMA AskedStep == ASSUME TypeOK, AskedInv, [NextTimed]_timedVars PROVE AskedInv'
<1>0. TypeOK' BY TypeStep
<1> DEFINE Fine(u) == (AskedOf(u) /\ WaitedAsAsked(u))'
<1>1. ASSUME NEW u \in Threads, Untouched(u) PROVE Fine(u)
  BY <1>0, <1>1, UntouchedAsked DEF AskedInv
<1>2. SUFFICES \A u \in Threads : Fine(u)
  BY DEF AskedInv
<1> USE DEF TypeOK, Returns, Untouched
<1>3. CASE UNCHANGED timedVars
  BY <1>1, <1>3 DEF timedVars
<1>4. CASE Tick
  BY <1>1, <1>4 DEF Tick
<1>5. ASSUME NEW t \in Threads, Acquired(t) PROVE \A u \in Threads : Fine(u)
  <2>1. ASSUME NEW u \in Threads, u # t PROVE Untouched(u)
    BY <1>5, <2>1 DEF Acquired
  <2>2. AskedOf(t) BY DEF AskedInv
  <2>3. where'[t] = "critical" /\ result'[t] = "success" /\ asked'[t] = asked[t]
        /\ now' = now /\ waiting' = waiting /\ asked[t].op # "sleep" /\ t \notin waiting
    BY <1>5, <2>2 DEF Acquired, AskedOf
  <2>4. Fine(t) BY <2>2, <2>3 DEF AskedOf, WaitedAsAsked, Ended
  <2>5. QED BY <2>1, <2>4, <1>1
<1>6. ASSUME NEW t \in Threads, NotAcquired(t) PROVE \A u \in Threads : Fine(u)
  <2>1. ASSUME NEW u \in Threads, u # t PROVE Untouched(u)
    BY <1>6, <2>1 DEF NotAcquired
  <2>2. AskedOf(t) BY DEF AskedInv
  <2>3. /\ where[t] = "acquire" /\ where'[t] = "idle" /\ asked'[t] = asked[t]
        /\ now' = now /\ waiting' = waiting /\ t \notin waiting
        /\ \/ ~Valid(timeout[t]) /\ result'[t] = "error"
           \/ Valid(timeout[t]) /\ now >= Ticks(timeout[t]) /\ result'[t] = "timedout"
    BY <1>6, <2>2 DEF NotAcquired, AskedOf, Over
  <2>4. AskedOf(t)' BY <2>2, <2>3 DEF AskedOf
  <2>5. WaitedAsAsked(t)'
    BY <2>2, <2>3, TimespecOfCall DEF WaitedAsAsked, Ended, Carries
  <2>6. QED BY <2>1, <2>4, <2>5, <1>1
<1>7. ASSUME NEW t \in Threads, MtxRelease(t) \/ Reacquired(t) PROVE \A u \in Threads : Fine(u)
  <2>1. ASSUME NEW u \in Threads, u # t PROVE Untouched(u)
    BY <1>7, <2>1 DEF MtxRelease, Reacquired
  <2>2. AskedOf(t) /\ WaitedAsAsked(t) BY DEF AskedInv
  <2>3. /\ where'[t] \in {"idle", "critical"} /\ asked'[t] = asked[t] /\ result'[t] = result[t]
        /\ now' = now /\ waiting' = waiting /\ t \notin waiting
    BY <1>7, <2>2 DEF MtxRelease, Reacquired, AskedOf
  <2>4. AskedOf(t)' BY <2>2, <2>3 DEF AskedOf
  <2>5. WaitedAsAsked(t)' BY <2>2, <2>3 DEF WaitedAsAsked, Ended, Carries
  <2>6. QED BY <2>1, <2>4, <2>5, <1>1
<1>8. ASSUME NEW t \in Threads, WaitBegins(t) PROVE \A u \in Threads : Fine(u)
  <2>1. ASSUME NEW u \in Threads, u # t PROVE Untouched(u)
    BY <1>8, <2>1 DEF WaitBegins
  <2>2. AskedOf(t) /\ WaitedAsAsked(t) BY DEF AskedInv
  <2>3. ASSUME Valid(timeout[t]) PROVE Fine(t)
    <3>1. /\ where[t] = "wait" /\ where'[t] = "waiting" /\ asked'[t] = asked[t]
          /\ result'[t] = result[t] /\ now' = now /\ timeout'[t] = timeout[t]
      BY <1>8, <2>3 DEF WaitBegins
    <3>2. AskedOf(t)' BY <2>2, <2>3, <3>1 DEF AskedOf, Until, Valid
    <3>3. WaitedAsAsked(t)' BY <2>2, <3>1 DEF WaitedAsAsked, Ended, Carries
    <3>4. QED BY <3>2, <3>3
  <2>4. ASSUME ~Valid(timeout[t]) PROVE Fine(t)
    <3>1. /\ where[t] = "wait" /\ where'[t] = "critical" /\ asked'[t] = asked[t]
          /\ result'[t] = "error" /\ now' = now /\ waiting' = waiting /\ t \notin waiting
      BY <1>8, <2>2, <2>4 DEF WaitBegins, AskedOf
    <3>2. AskedOf(t)' BY <2>2, <3>1 DEF AskedOf
    <3>3. WaitedAsAsked(t)'
      BY <2>2, <2>4, <3>1, TimespecOfCall DEF WaitedAsAsked, Ended, Carries
    <3>4. QED BY <3>2, <3>3
  <2>5. QED BY <2>1, <2>3, <2>4, <1>1
<1>9. ASSUME NEW t \in Threads, WaitEnds(t) PROVE \A u \in Threads : Fine(u)
  <2>1. ASSUME NEW u \in Threads, u # t PROVE Untouched(u)
    BY <1>9, <2>1 DEF WaitEnds
  <2>2. AskedOf(t) BY DEF AskedInv
  <2>3. /\ where[t] = "waiting" /\ where'[t] = "woken" /\ asked'[t] = asked[t]
        /\ now' = now /\ t \notin waiting' /\ Valid(timeout[t]) /\ asked[t].op # "sleep"
        /\ \/ now >= Ticks(timeout[t]) /\ result'[t] = "timedout"
           \/ result'[t] = "success"
    BY <1>9, <2>2 DEF WaitEnds, AskedOf, Over
  <2>4. AskedOf(t)' BY <2>2, <2>3 DEF AskedOf
  <2>5. WaitedAsAsked(t)'
    BY <2>2, <2>3, TimespecOfCall DEF WaitedAsAsked, Ended, Carries
  <2>6. QED BY <2>1, <2>4, <2>5, <1>1
<1>10. ASSUME NEW t \in Threads, CndPing(t) \/ CndPingAll(t) PROVE \A u \in Threads : Fine(u)
  <2>1. PICK woken \in SUBSET waiting : Wake(woken)
    BY <1>10 DEF CndPing, CndPingAll
  <2>2. ASSUME NEW u \in Threads PROVE Untouched(u)
    BY <2>1, <2>2 DEF Wake
  <2>3. QED BY <2>2, <1>1
<1>11. ASSUME NEW t \in Threads, SleepEnds(t) PROVE \A u \in Threads : Fine(u)
  <2>1. ASSUME NEW u \in Threads, u # t PROVE Untouched(u)
    BY <1>11, <2>1 DEF SleepEnds
  <2>2. AskedOf(t) BY DEF AskedInv
  <2>3. /\ where[t] = "sleep" /\ where'[t] = "idle" /\ asked'[t] = asked[t]
        /\ now' = now /\ waiting' = waiting /\ t \notin waiting
        /\ \/ ~Valid(timeout[t]) /\ result'[t] = "error"
           \/ now >= asked[t].at + Ticks(timeout[t]) /\ result'[t] = "success"
           \/ result'[t] = "interrupted"
    BY <1>11, <2>2 DEF SleepEnds, AskedOf, SleptEnough
  <2>4. AskedOf(t)' BY <2>2, <2>3 DEF AskedOf
  <2>5. WaitedAsAsked(t)'
    BY <2>2, <2>3, TimespecOfCall DEF WaitedAsAsked, Ended, Carries
  <2>6. QED BY <2>1, <2>4, <2>5, <1>1
<1>12. ASSUME NEW t \in Threads, NEW d \in Durations,
              MtxAcquireTimed(t, d) \/ CndWaitTimed(t, d) \/ ThreadSleep(t, d)
       PROVE  \A u \in Threads : Fine(u)
  <2>1. ASSUME NEW u \in Threads, u # t PROVE Untouched(u)
    BY <1>12, <2>1 DEF MtxAcquireTimed, CndWaitTimed, ThreadSleep, Call
  <2>2. where[t] \in {"idle", "critical"}
    BY <1>12 DEF MtxAcquireTimed, CndWaitTimed, ThreadSleep, Call
  <2>3. t \notin waiting BY <2>2 DEF AskedInv, AskedOf
  <2>4. Fine(t)
    <3>1. CASE MtxAcquireTimed(t, d)
      BY <2>3, <3>1, CallAsked DEF MtxAcquireTimed, Ops
    <3>2. CASE CndWaitTimed(t, d)
      BY <2>3, <3>2, CallAsked DEF CndWaitTimed, Ops
    <3>3. CASE ThreadSleep(t, d)
      BY <2>3, <3>3, CallAsked DEF ThreadSleep, Ops
    <3>4. QED BY <1>12, <3>1, <3>2, <3>3
  <2>5. QED BY <2>1, <2>4, <1>1
<1>13. QED
  BY <1>3, <1>4, <1>5, <1>6, <1>7, <1>8, <1>9, <1>10, <1>11, <1>12 DEF NextTimed

-----------------------------------------------------------------------------
\* The inductive invariant is preserved by every step.
LEMMA StepIInv == IInv /\ [NextTimed]_timedVars => IInv'
BY TypeStep, ExclusionStep, AskedStep DEF IInv

\* The inductive invariant holds in every reachable state.
THEOREM TimedInvariant == TimedSpec => []IInv
BY InitIInv, StepIInv, PTL DEF TimedSpec

\* A client that looks at what the timed calls return is alone inside the mutex.
THEOREM TimedExclusion == TimedSpec => []Exclusion
<1>1. IInv => Exclusion BY DEF IInv
<1>2. QED BY <1>1, TimedInvariant, PTL

\* No timed call gives up early, and none fails but for ticks that make a second.
THEOREM TimedWaits == TimedSpec => []WaitsAsAsked
<1>1. IInv => WaitsAsAsked BY DEF IInv, AskedInv, WaitedAsAsked, WaitsAsAsked
<1>2. QED BY <1>1, TimedInvariant, PTL

-----------------------------------------------------------------------------
(* The error record. *)

ErrLabels == {"idle", "clear", "work", "log", "set_type", "set_cat", "check", "returned",
           "print", "exit", "exit_printed"}

ErrTypeOK ==
  /\ logging \in BOOLEAN
  /\ errdata = Error(errdata.type, errdata.cat)
  /\ stage \in [Callers -> ErrLabels]
  /\ call \in [Callers -> Calls]
  /\ failed \in [Callers -> BOOLEAN]
  /\ disturbed \in [Callers -> BOOLEAN]

\* A function stores an error only if its work failed, and looks for one only if it
\* ends in UGA_RETURN_ON_ERR.
PathInv ==
  \A t \in Callers :
    /\ stage[t] \in {"log", "set_type", "set_cat"} => failed[t]
    /\ stage[t] = "check" => call[t].prints

\* What an undisturbed thread knows of the error record.
Known(t) ==
  ~disturbed[t] =>
    /\ stage[t] = "set_cat" => errdata.type = call[t].error.type
    /\ stage[t] # "set_cat" /\ HadErrs => \E c \in Calls : errdata = c.error
    /\ stage[t] \in {"work", "check", "returned"} /\ call[t].clears /\ HadErrs => failed[t]
    /\ stage[t] \in {"check", "returned"} /\ failed[t] /\ Reporting(call[t]) => HadErrs
    /\ stage[t] \in {"print", "exit"} => HadErrs
    /\ stage[t] = "exit_printed" => (HadErrs <=> ~logging)

KnownInv == \A t \in Callers : Known(t)

ErrInv == ErrTypeOK /\ PathInv /\ KnownInv /\ ExitTellsError

-----------------------------------------------------------------------------
\* The steps of thread t.
StepOf(t) ==
  \/ \E c \in Calls, f \in BOOLEAN : Invoke(t, c, f)
  \/ ClrErrs(t) \/ Work(t) \/ LogFailure(t) \/ SetType(t) \/ SetCat(t) \/ ReturnOnErr(t)
  \/ CheckNothing(t) \/ PrintIfErr(t) \/ AbortIfErr(t) \/ PrintAbortIfErr(t)
  \/ PrintError(t) \/ Exit(t)

\* A cleared error record is one, and shows no error.
LEMMA NoErrorType ==
  NoError = Error(NoError.type, NoError.cat) /\ NoError.type = "NONE"
BY DEF NoError, Error

\* The process starts without an error, and no thread knows of one.
LEMMA ErrInit == InitErrors => ErrInv
<1> SUFFICES ASSUME InitErrors PROVE ErrInv OBVIOUS
<1> USE NoErrorType DEF InitErrors
<1>1. ErrTypeOK BY DEF ErrTypeOK, ErrLabels
<1>2. PathInv BY DEF PathInv
<1>3. KnownInv BY DEF KnownInv, Known, HadErrs
<1>4. ExitTellsError BY DEF ExitTellsError
<1>5. QED BY <1>1, <1>2, <1>3, <1>4 DEF ErrInv

\* What the functions of the library do about errors is of the right kind.
LEMMA FunctionTypes ==
  ASSUME ErrTypeOK, NEW t \in Callers
  PROVE  /\ call[t] \in Calls
         /\ call[t].clears \in BOOLEAN /\ call[t].prints \in BOOLEAN
         /\ call[t].error = Error(call[t].error.type, call[t].error.cat)
BY ErrorsConstants DEF ErrTypeOK

\* Every step keeps every variable in its type.
LEMMA ErrTypeStep == ASSUME ErrTypeOK, [NextErrors]_errorsVars PROVE ErrTypeOK'
<1> USE NoErrorType, FunctionTypes DEF ErrTypeOK, ErrLabels, Goto
<1>1. CASE UNCHANGED errorsVars
  BY <1>1 DEF errorsVars
<1>2. ASSUME NEW t \in Callers, NEW c \in Calls, NEW f \in BOOLEAN, Invoke(t, c, f)
      PROVE  ErrTypeOK'
  BY <1>2 DEF Invoke
<1>3. ASSUME NEW t \in Callers, ClrErrs(t) \/ Work(t) \/ CheckNothing(t) PROVE ErrTypeOK'
  BY <1>3 DEF ClrErrs, Work, AfterWork, CheckNothing
<1>4. ASSUME NEW t \in Callers, LogFailure(t) \/ PrintError(t) PROVE ErrTypeOK'
  BY <1>4 DEF LogFailure, PrintError, LogLine, Store
<1>5. ASSUME NEW t \in Callers, SetType(t) \/ SetCat(t) PROVE ErrTypeOK'
  <2>1. errdata' = Error(errdata'.type, errdata'.cat)
    BY <1>5 DEF SetType, SetCat, Store, Error
  <2>2. QED BY <1>5, <2>1 DEF SetType, SetCat, Store, AfterWork
<1>6. ASSUME NEW t \in Callers, ReturnOnErr(t) \/ PrintIfErr(t) PROVE ErrTypeOK'
  BY <1>6 DEF ReturnOnErr, PrintIfErr, LogLine, Store
<1>7. ASSUME NEW t \in Callers, AbortIfErr(t) \/ PrintAbortIfErr(t) \/ Exit(t) PROVE ErrTypeOK'
  BY <1>7 DEF AbortIfErr, PrintAbortIfErr, Exit
<1>8. QED BY <1>1, <1>2, <1>3, <1>4, <1>5, <1>6, <1>7 DEF NextErrors

\* A function stores an error only after its work failed, and looks for one only if
\* it ends in UGA_RETURN_ON_ERR, after every step.
LEMMA PathStep == ASSUME ErrTypeOK, PathInv, [NextErrors]_errorsVars PROVE PathInv'
<1> USE DEF ErrTypeOK, PathInv, Goto, At
<1>1. CASE UNCHANGED errorsVars
  BY <1>1 DEF errorsVars
<1>2. ASSUME NEW t \in Callers, NEW c \in Calls, NEW f \in BOOLEAN, Invoke(t, c, f)
      PROVE  PathInv'
  BY <1>2 DEF Invoke
<1>3. ASSUME NEW t \in Callers, Work(t) PROVE PathInv'
  BY <1>3 DEF Work, AfterWork
<1>4. ASSUME NEW t \in Callers, LogFailure(t) \/ SetType(t) \/ SetCat(t) PROVE PathInv'
  BY <1>4 DEF LogFailure, SetType, SetCat, AfterWork
<1>5. ASSUME NEW t \in Callers, ClrErrs(t) \/ ReturnOnErr(t) \/ CheckNothing(t) \/ PrintIfErr(t)
      PROVE  PathInv'
  BY <1>5 DEF ClrErrs, ReturnOnErr, CheckNothing, PrintIfErr
<1>6. ASSUME NEW t \in Callers, AbortIfErr(t) \/ PrintAbortIfErr(t) \/ PrintError(t) \/ Exit(t)
      PROVE  PathInv'
  BY <1>6 DEF AbortIfErr, PrintAbortIfErr, PrintError, Exit
<1>7. QED BY <1>1, <1>2, <1>3, <1>4, <1>5, <1>6 DEF NextErrors

-----------------------------------------------------------------------------
\* What a step of thread t leaves to the other threads.
OnlyBy(t) ==
  /\ logging' = logging
  /\ \A u \in Callers \ {t} :
       /\ stage'[u] = stage[u] /\ call'[u] = call[u] /\ failed'[u] = failed[u]
       /\ \/ disturbed'[u]
          \/ errdata' = errdata /\ disturbed'[u] = disturbed[u]

\* A step of another thread disturbs a thread or leaves it what it knows.
LEMMA KnownByOthers ==
  ASSUME KnownInv, NEW t \in Callers, OnlyBy(t), NEW u \in Callers, u # t
  PROVE  Known(u)'
BY DEF KnownInv, Known, OnlyBy, HadErrs, Reporting

\* Every step disturbs the other threads or leaves them what they know.
LEMMA StepsOnlyByOne ==
  ASSUME ErrTypeOK, NEW t \in Callers, StepOf(t)
  PROVE  OnlyBy(t)
<1> USE DEF ErrTypeOK, OnlyBy, Goto
<1>1. ASSUME NEW c \in Calls, NEW f \in BOOLEAN, Invoke(t, c, f) PROVE OnlyBy(t)
  BY <1>1 DEF Invoke
<1>2. CASE ClrErrs(t) \/ Work(t) \/ CheckNothing(t)
  BY <1>2 DEF ClrErrs, Work, CheckNothing
<1>3. CASE LogFailure(t) \/ PrintError(t)
  BY <1>3 DEF LogFailure, PrintError, LogLine, Store
<1>4. CASE SetType(t) \/ SetCat(t)
  BY <1>4 DEF SetType, SetCat, Store
<1>5. CASE ReturnOnErr(t) \/ PrintIfErr(t)
  BY <1>5 DEF ReturnOnErr, PrintIfErr, LogLine, Store
<1>6. CASE AbortIfErr(t) \/ PrintAbortIfErr(t) \/ Exit(t)
  BY <1>6 DEF AbortIfErr, PrintAbortIfErr, Exit
<1>7. QED BY <1>1, <1>2, <1>3, <1>4, <1>5, <1>6 DEF StepOf

\* What an undisturbed thread knows of the error record is so after every step.
LEMMA KnownStep ==
  ASSUME ErrTypeOK, PathInv, KnownInv, [NextErrors]_errorsVars PROVE KnownInv'
<1>1. CASE UNCHANGED errorsVars
  BY <1>1 DEF errorsVars, KnownInv, Known, HadErrs, Reporting
<1>2. CASE NextErrors
  <2>1. PICK t \in Callers : StepOf(t)
    BY <1>2 DEF NextErrors, StepOf
  <2>2. SUFFICES Known(t)'
    BY <2>1, StepsOnlyByOne, KnownByOthers DEF KnownInv
  <2>3. /\ Known(t)
        /\ stage[t] \in {"log", "set_type", "set_cat"} => failed[t]
        /\ stage[t] = "check" => call[t].prints
    BY DEF KnownInv, PathInv
  <2> USE <2>3, FunctionTypes, NoErrorType DEF ErrTypeOK, Known, Goto, At, HadErrs, Reporting
  <2>4. ASSUME NEW c \in Calls, NEW f \in BOOLEAN, Invoke(t, c, f) PROVE Known(t)'
    BY <2>4 DEF Invoke
  <2>5. CASE ClrErrs(t)
    BY <2>5 DEF ClrErrs
  <2>6. CASE Work(t)
    BY <2>6 DEF Work, AfterWork
  <2>7. CASE LogFailure(t)
    BY <2>7 DEF LogFailure, LogLine, Store
  <2>8. CASE SetType(t)
    BY <2>8 DEF SetType, Store, Error
  <2>9. CASE SetCat(t)
    <3>1. ~disturbed[t] => errdata' = call[t].error
      BY <2>9 DEF SetCat, Store, Error
    <3>2. QED BY <2>9, <3>1 DEF SetCat, Store, AfterWork
  <2>10. CASE ReturnOnErr(t)
    BY <2>10 DEF ReturnOnErr, LogLine, Store
  <2>11. CASE CheckNothing(t) \/ PrintIfErr(t)
    BY <2>11 DEF CheckNothing, PrintIfErr, Store
  <2>12. CASE AbortIfErr(t) \/ PrintAbortIfErr(t)
    BY <2>12 DEF AbortIfErr, PrintAbortIfErr
  <2>13. CASE PrintError(t)
    BY <2>13 DEF PrintError, LogLine, Store
  <2>14. CASE Exit(t)
    BY <2>14 DEF Exit
  <2>15. QED BY <2>1, <2>4, <2>5, <2>6, <2>7, <2>8, <2>9, <2>10, <2>11, <2>12, <2>13, <2>14 DEF StepOf
<1>3. QED BY <1>1, <1>2

\* Nothing happens after the exit, and its status tells what it should.
LEMMA ExitStep ==
  ASSUME ErrTypeOK, KnownInv, ExitTellsError, [NextErrors]_errorsVars PROVE ExitTellsError'
<1>1. CASE UNCHANGED errorsVars
  BY <1>1 DEF errorsVars, ExitTellsError
<1>2. ASSUME NEW t \in Callers, Exit(t) PROVE ExitTellsError'
  BY <1>2 DEF Exit, ExitTellsError, ErrTypeOK, KnownInv, Known, HadErrs
<1>3. ASSUME NEW t \in Callers,
             \/ \E c \in Calls, f \in BOOLEAN : Invoke(t, c, f)
             \/ ClrErrs(t) \/ Work(t) \/ LogFailure(t) \/ SetType(t) \/ SetCat(t)
             \/ ReturnOnErr(t) \/ CheckNothing(t) \/ PrintIfErr(t) \/ AbortIfErr(t)
             \/ PrintAbortIfErr(t) \/ PrintError(t)
      PROVE  exit' = Running
  BY <1>3 DEF Invoke, ClrErrs, Work, LogFailure, SetType, SetCat, ReturnOnErr, CheckNothing,
              PrintIfErr, AbortIfErr, PrintAbortIfErr, PrintError, At
<1>4. QED BY <1>1, <1>2, <1>3 DEF NextErrors, ExitTellsError

-----------------------------------------------------------------------------
\* The inductive invariant is preserved by every step.
LEMMA ErrStep == ErrInv /\ [NextErrors]_errorsVars => ErrInv'
BY ErrTypeStep, PathStep, KnownStep, ExitStep DEF ErrInv

\* The inductive invariant holds in every reachable state.
THEOREM ErrorsInvariant == ErrorsSpec => []ErrInv
BY ErrInit, ErrStep, PTL DEF ErrorsSpec

\* uga_had_errs tells whether the call that just returned failed, and the error it
\* finds is one of a function, with its own category, unless another thread has
\* written to the error record since.
THEOREM ErrorsReported == ErrorsSpec => []Reported
<1>1. ErrInv => Reported BY DEF ErrInv, KnownInv, Known, Reported
<1>2. QED BY <1>1, ErrorsInvariant, PTL

\* The status of a process that ended on an error tells so, unless it was printed.
THEOREM ErrorsExit == ErrorsSpec => []ExitTellsError
<1>1. ErrInv => ExitTellsError BY DEF ErrInv
<1>2. QED BY <1>1, ErrorsInvariant, PTL
=============================================================================
