------------------------------ MODULE AsyncProofs ------------------------------
(***************************************************************************)
(* Theorems about Async, for any sockets, any size of the handler array    *)
(* and whatever callbacks may do.                                          *)
(*                                                                         *)
(* That no handler is called twice in a round is not inductive: it rests   *)
(* on where the handlers already called are (AheadInv).  Those the loop    *)
(* has yet to come to were not called in this round, unless they were      *)
(* added in it, since the one that takes the place of a removed handler    *)
(* comes from further back and so was ahead before.  And what select found *)
(* ready stays so until its callback reads it or it is closed (FreshInv).  *)
(***************************************************************************)
EXTENDS Async, SequenceTheorems, WellFoundedInduction, TLAPS

\* The handlers the loop has yet to come to, by their place.
Ahead == {k \in DOMAIN handlers : k > i \/ (k = i /\ pc = "scan")}

NoneTwice == \A j, k \in DOMAIN handlers : handlers[j] = handlers[k] => j = k

AheadInv ==
  pc \in {"scan", "call"} =>
    \A k \in Ahead : handlers[k] \in round => handlers[k] \in late

FreshInv ==
  pc \in {"scan", "call"} => \A fd \in fdr \ round : fd \in open => fd \in ready

CallInv == pc = "call" => cur \in round /\ i <= MaxHandlers

IInv ==
  /\ TypeOK /\ NoneTwice /\ Registered \subseteq open
  /\ AheadInv /\ FreshInv /\ CallInv

\* CalledOnceOnData, of one step.
CalledOnData == pc = "scan" /\ pc' = "call" => cur' \in (ready \ round) \union late

-----------------------------------------------------------------------------
(* Lists of handlers. *)

LEMMA BoundedList ==
  ASSUME NEW s
  PROVE  s \in BoundedSeq(Fds, MaxHandlers) <=> s \in Seq(Fds) /\ Len(s) <= MaxHandlers
<1> USE AsyncConstants DEF AsyncConstants
<1>1. ASSUME s \in BoundedSeq(Fds, MaxHandlers)
      PROVE  s \in Seq(Fds) /\ Len(s) <= MaxHandlers
  <2>1. PICK m \in 0 .. MaxHandlers : s \in [1 .. m -> Fds] BY <1>1 DEF BoundedSeq, SeqOf
  <2>2. m \in Nat BY <2>1
  <2>3. s \in Seq(Fds) BY <2>1, <2>2
  <2>4. Len(s) = m BY <2>1, <2>2, <2>3
  <2> QED BY <2>1, <2>3, <2>4
<1>2. ASSUME s \in Seq(Fds), Len(s) <= MaxHandlers
      PROVE  s \in BoundedSeq(Fds, MaxHandlers)
  <2>1. Len(s) \in 0 .. MaxHandlers /\ s \in [1 .. Len(s) -> Fds] BY <1>2
  <2> QED BY <2>1 DEF BoundedSeq, SeqOf
<1> QED BY <1>1, <1>2

\* A list without its k-th element, whose place the last one has taken.
LEMMA ListRemoved ==
  ASSUME NEW s \in Seq(Fds), NEW k \in 1 .. Len(s)
  PROVE  LET r == Front([s EXCEPT ![k] = Last(s)]) IN
           /\ r \in Seq(Fds) /\ Len(r) = Len(s) - 1
           /\ \A j \in 1 .. Len(s) - 1 : r[j] = IF j = k THEN s[Len(s)] ELSE s[j]
<1> DEFINE t == [s EXCEPT ![k] = s[Len(s)]]
<1>1. Len(s) \in Nat /\ s[Len(s)] \in Fds OBVIOUS
<1>2. t \in Seq(Fds) /\ Len(t) = Len(s) BY <1>1, ExceptSeq
<1>3. \A j \in 1 .. Len(s) : t[j] = IF j = k THEN s[Len(s)] ELSE s[j] OBVIOUS
<1> HIDE DEF t
<1>4. /\ SubSeq(t, 1, Len(s) - 1) \in Seq(Fds) /\ Len(SubSeq(t, 1, Len(s) - 1)) = Len(s) - 1
      /\ \A j \in 1 .. Len(s) - 1 : SubSeq(t, 1, Len(s) - 1)[j] = t[j]
  BY <1>1, <1>2
<1> QED BY <1>2, <1>3, <1>4 DEF Front, Last, t

LEMMA ListType ==
  ASSUME TypeOK
  PROVE  /\ handlers \in Seq(Fds) /\ Len(handlers) \in Nat /\ Len(handlers) <= MaxHandlers
         /\ DOMAIN handlers = 1 .. Len(handlers)
         /\ Registered = {handlers[k] : k \in 1 .. Len(handlers)} /\ Registered \subseteq Fds
<1>1. handlers \in Seq(Fds) /\ Len(handlers) <= MaxHandlers BY BoundedList DEF TypeOK
<1>2. Len(handlers) \in Nat /\ DOMAIN handlers = 1 .. Len(handlers) BY <1>1, LenProperties
<1> QED BY <1>1, <1>2 DEF Registered, ToSet

\* Of places there is a first.
LEMMA FirstPlace ==
  ASSUME NEW I \in SUBSET Nat, I # {}
  PROVE  Min(I) \in I
<1>1. PICK x \in I : \A y \in I : ~(<<y, x>> \in OpToRel(<, Nat))
  BY NatLessThanWellFounded, WFMin
<1>2. ASSUME NEW y \in I PROVE x <= y
  <2>1. x \in Nat /\ y \in Nat OBVIOUS
  <2>2. y < x => <<y, x>> \in OpToRel(<, Nat) BY <2>1, Zenon DEF OpToRel
  <2>3. ~(y < x) BY <1>1, <2>2, Zenon
  <2> QED BY <2>1, <2>3
<1> QED BY <1>2 DEF Min

\* What uga_async_has_ready finds is a handler.
LEMMA FoundReady ==
  ASSUME TypeOK, Registered \intersect ready # {}
  PROVE  handlers[SelectInSeq(handlers, LAMBDA fd : fd \in ready)] \in Fds
<1> DEFINE I == {k \in 1 .. Len(handlers) : handlers[k] \in ready}
<1>1. I # {} /\ I \in SUBSET Nat BY ListType
<1>2. SelectInSeq(handlers, LAMBDA fd : fd \in ready) = Min(I) BY <1>1 DEF SelectInSeq
<1>3. Min(I) \in I BY <1>1, FirstPlace
<1> QED BY <1>2, <1>3, ListType

-----------------------------------------------------------------------------
(* The steps of a client and of callbacks. *)

LEMMA AddHandlerStep ==
  ASSUME IInv, NEW fd \in Fds, AddHandler(fd)
  PROVE  IInv' /\ CalledOnData
<1> USE ListType DEF IInv, AddHandler
<1>1. CASE Len(handlers) >= MaxHandlers
  <2>1. handlers' = handlers BY <1>1
  <2>2. Registered' = Registered /\ late' = late BY <2>1 DEF Registered
  <2>3. TypeOK' BY <2>1 DEF TypeOK
  <2>4. NoneTwice' BY <2>1 DEF NoneTwice
  <2>5. AheadInv' BY <2>1, <2>2 DEF AheadInv, Ahead
  <2> QED BY <2>1, <2>2, <2>3, <2>4, <2>5 DEF FreshInv, CallInv, CalledOnData
<1>2. CASE ~(Len(handlers) >= MaxHandlers)
  <2> DEFINE n == Len(handlers)
  <2>1. handlers' = Append(handlers, fd) /\ MaxHandlers \in Nat
    BY <1>2, AsyncConstants DEF AsyncConstants
  <2>2. /\ handlers' \in Seq(Fds) /\ Len(handlers') = n + 1
        /\ \A k \in 1 .. n : handlers'[k] = handlers[k]
        /\ handlers'[n + 1] = fd
    BY <2>1, AppendProperties
  <2>3. DOMAIN handlers' = 1 .. n + 1 BY <2>2, LenProperties
  <2>4. TypeOK'
    <3>1. n + 1 <= MaxHandlers BY <1>2, <2>1
    <3>2. (handlers \in BoundedSeq(Fds, MaxHandlers))' BY <2>2, <3>1, BoundedList, Zenon
    <3> QED BY <3>2 DEF TypeOK
  <2>5. fd \notin Registered /\ \A k \in 1 .. n : handlers[k] # fd OBVIOUS
  <2>6. NoneTwice' BY <2>2, <2>3, <2>5 DEF NoneTwice
  <2>7. Registered' = Registered \union {fd} BY <2>2, <2>3 DEF Registered, ToSet
  <2>8. fd \in late' /\ late \subseteq late' BY <2>5, <2>7 DEF Registered
  <2>9. AheadInv'
    <3> SUFFICES ASSUME pc \in {"scan", "call"}, NEW k \in Ahead', handlers'[k] \in round
                 PROVE  handlers'[k] \in late'
      BY DEF AheadInv
    <3>1. k \in 1 .. n + 1 BY <2>3 DEF Ahead
    <3>2. CASE k = n + 1 BY <2>2, <2>8, <3>2
    <3>3. CASE k # n + 1
      <4>1. k \in 1 .. n BY <3>1, <3>3
      <4>2. k \in Ahead /\ handlers'[k] = handlers[k] BY <2>2, <4>1 DEF Ahead
      <4> QED BY <2>8, <4>2 DEF AheadInv
    <3> QED BY <3>2, <3>3
  <2>10. (Registered \subseteq open)' BY <2>7
  <2> QED BY <2>4, <2>6, <2>9, <2>10 DEF FreshInv, CallInv, CalledOnData
<1> QED BY <1>1, <1>2

\* The one that takes the place of the removed comes from further back.
LEMMA RemoveHandlerStep ==
  ASSUME IInv, NEW fd \in Fds, RemoveHandler(fd)
  PROVE  IInv' /\ CalledOnData
<1> USE ListType DEF IInv
<1> DEFINE n == Len(handlers)
<1>1. PICK r \in DOMAIN handlers :
        handlers[r] = fd /\ handlers' = Front([handlers EXCEPT ![r] = Last(handlers)])
  BY DEF RemoveHandler
<1>2. r \in 1 .. n BY <1>1
<1>3. /\ handlers' \in Seq(Fds) /\ Len(handlers') = n - 1
      /\ \A k \in 1 .. n - 1 : handlers'[k] = IF k = r THEN handlers[n] ELSE handlers[k]
  BY <1>1, <1>2, ListRemoved
<1>4. DOMAIN handlers' = 1 .. n - 1 BY <1>3, LenProperties
<1>5. UNCHANGED <<open, ready, pc, fds, fdr, i, cur, ret, polled, round, late>>
  BY DEF RemoveHandler
<1>6. TypeOK'
  <2>1. (handlers \in BoundedSeq(Fds, MaxHandlers))'
    <3>1. MaxHandlers \in Nat BY AsyncConstants DEF AsyncConstants
    <3> QED BY <1>3, <3>1, BoundedList
  <2> QED BY <1>5, <2>1 DEF TypeOK
<1>7. NoneTwice' BY <1>2, <1>3, <1>4 DEF NoneTwice
<1>8. Registered' \subseteq Registered
  <2> SUFFICES ASSUME NEW k \in 1 .. n - 1 PROVE handlers'[k] \in Registered
    BY <1>4 DEF Registered, ToSet
  <2> QED BY <1>2, <1>3
<1>9. AheadInv'
  <2> SUFFICES ASSUME pc \in {"scan", "call"}, NEW k \in Ahead', handlers'[k] \in round
               PROVE  handlers'[k] \in late
    BY <1>5 DEF AheadInv
  <2>1. k \in 1 .. n - 1 /\ i \in Nat BY <1>4 DEF Ahead, TypeOK
  <2>2. CASE k = r
    <3>1. handlers'[k] = handlers[n] BY <1>3, <2>1, <2>2
    <3>2. k >= i BY <1>5, <2>1 DEF Ahead
    <3>3. n > i /\ n \in 1 .. n BY <1>2, <2>1, <3>2
    <3>4. n \in Ahead BY <3>3 DEF Ahead
    <3> QED BY <3>1, <3>4 DEF AheadInv
  <2>3. CASE k # r
    <3>1. k \in Ahead /\ handlers'[k] = handlers[k] BY <1>3, <1>5, <2>1, <2>3 DEF Ahead
    <3> QED BY <3>1 DEF AheadInv
  <2> QED BY <2>2, <2>3
<1> QED BY <1>5, <1>6, <1>7, <1>8, <1>9 DEF FreshInv, CallInv, CalledOnData

LEMMA CloseSocketStep ==
  ASSUME IInv, NEW fd \in Fds, CloseSocket(fd)
  PROVE  IInv' /\ CalledOnData
<1> USE DEF IInv, CloseSocket
<1>1. TypeOK' BY DEF TypeOK
<1>2. NoneTwice' /\ AheadInv' BY DEF NoneTwice, AheadInv, Ahead
<1>3. Registered' = Registered /\ fd \notin Registered BY DEF Registered
<1>4. FreshInv' BY DEF FreshInv
<1> QED BY <1>1, <1>2, <1>3, <1>4 DEF CallInv, CalledOnData

LEMMA DataArrivesStep ==
  ASSUME IInv, NEW fd \in Fds, DataArrives(fd)
  PROVE  IInv' /\ CalledOnData
<1> USE DEF IInv, DataArrives
<1>1. TypeOK' BY DEF TypeOK
<1>2. NoneTwice' /\ AheadInv' BY DEF NoneTwice, AheadInv, Ahead
<1>3. Registered' = Registered BY DEF Registered
<1>4. FreshInv' BY DEF FreshInv
<1> QED BY <1>1, <1>2, <1>3, <1>4 DEF CallInv, CalledOnData

LEMMA HasReadyStep ==
  ASSUME IInv, HasReady
  PROVE  IInv' /\ CalledOnData
<1> USE DEF IInv, HasReady
<1>1. polled' \in Fds \union {NoFd} BY FoundReady
<1>2. TypeOK' BY <1>1 DEF TypeOK
<1>3. NoneTwice' /\ AheadInv' BY DEF NoneTwice, AheadInv, Ahead
<1>4. Registered' = Registered BY DEF Registered
<1> QED BY <1>2, <1>3, <1>4 DEF FreshInv, CallInv, CalledOnData

-----------------------------------------------------------------------------
(* The steps of uga_async_run. *)

LEMMA RunBegins ==
  ASSUME IInv, Run
  PROVE  IInv' /\ CalledOnData
<1> USE DEF IInv, Run
<1>1. TypeOK' BY ListType DEF TypeOK
<1>2. Registered' = Registered BY DEF Registered
<1> QED BY <1>1, <1>2 DEF NoneTwice, AheadInv, FreshInv, CallInv, CalledOnData

LEMMA SelectStep ==
  ASSUME IInv, SelectReady \/ SelectFails
  PROVE  IInv' /\ CalledOnData
<1> USE DEF IInv
<1>1. CASE SelectReady
  <2>1. TypeOK' BY <1>1, AsyncConstants DEF SelectReady, TypeOK, AsyncConstants
  <2>2. Registered' = Registered BY <1>1 DEF SelectReady, Registered
  <2>3. AheadInv' /\ FreshInv' BY <1>1 DEF SelectReady, AheadInv, FreshInv
  <2> QED BY <1>1, <2>1, <2>2, <2>3 DEF SelectReady, NoneTwice, CallInv, CalledOnData
<1>2. CASE SelectFails
  <2>1. TypeOK' BY <1>2 DEF SelectFails, Return, TypeOK
  <2>2. Registered' = Registered BY <1>2 DEF SelectFails, Registered
  <2> QED BY <1>2, <2>1, <2>2
    DEF SelectFails, Return, NoneTwice, AheadInv, FreshInv, CallInv, CalledOnData
<1> QED BY <1>1, <1>2

LEMMA ScanStep ==
  ASSUME IInv, Scan
  PROVE  IInv' /\ CalledOnData
<1> USE ListType DEF IInv
<1>1. /\ handlers' = handlers /\ open' = open /\ ready' = ready /\ fdr' = fdr /\ late' = late
      /\ fds' = fds /\ ret' = ret /\ polled' = polled /\ pc = "scan"
  BY DEF Scan
<1>2. i \in 1 .. Len(handlers) /\ i <= MaxHandlers /\ MaxHandlers \in Nat
  BY AsyncConstants DEF Scan, TypeOK, AsyncConstants
<1>3. handlers[i] \in Registered /\ i \in Ahead BY <1>1, <1>2 DEF Ahead
<1>4. Registered' = Registered /\ NoneTwice' BY <1>1 DEF Registered, NoneTwice
<1>5. CASE handlers[i] \in fdr
  <2>1. /\ pc' = "call" /\ cur' = handlers[i] /\ round' = round \union {handlers[i]} /\ i' = i
    BY <1>5 DEF Scan
  <2>2. TypeOK' BY <1>1, <1>3, <2>1 DEF TypeOK
  <2>3. AheadInv'
    <3> SUFFICES ASSUME NEW k \in 1 .. Len(handlers), k > i, handlers[k] \in round'
                 PROVE  handlers[k] \in late
      BY <1>1, <2>1 DEF AheadInv, Ahead
    <3>1. handlers[k] # handlers[i] BY <1>2 DEF NoneTwice
    <3> QED BY <1>1, <2>1, <3>1 DEF AheadInv, Ahead
  <2>4. FreshInv' BY <1>1, <2>1 DEF FreshInv
  <2>5. CallInv' BY <1>2, <2>1 DEF CallInv
  <2>6. CalledOnData
    <3>1. CASE handlers[i] \in round BY <1>1, <1>3, <2>1, <3>1 DEF AheadInv, CalledOnData
    <3>2. CASE handlers[i] \notin round BY <1>1, <1>3, <1>5, <2>1, <3>2 DEF FreshInv, CalledOnData
    <3> QED BY <3>1, <3>2
  <2> QED BY <1>1, <1>4, <2>2, <2>3, <2>4, <2>5, <2>6
<1>6. CASE handlers[i] \notin fdr
  <2>1. pc' = pc /\ cur' = cur /\ round' = round /\ i' = i + 1 BY <1>6 DEF Scan
  <2>2. TypeOK' BY <1>1, <1>2, <2>1 DEF TypeOK
  <2>3. AheadInv' BY <1>1, <1>2, <2>1 DEF AheadInv, Ahead
  <2>4. FreshInv' /\ CallInv' BY <1>1, <2>1 DEF FreshInv, CallInv
  <2> QED BY <1>1, <1>4, <2>1, <2>2, <2>3, <2>4 DEF CalledOnData
<1> QED BY <1>5, <1>6

LEMMA LoopEndsStep ==
  ASSUME IInv, ScanEnds \/ CallbackFalse
  PROVE  IInv' /\ CalledOnData
<1> USE DEF IInv
<1>1. CASE ScanEnds
  BY <1>1 DEF ScanEnds, TypeOK, NoneTwice, Registered, AheadInv, FreshInv, CallInv, CalledOnData
<1>2. CASE CallbackFalse
  BY <1>2 DEF CallbackFalse, TypeOK, NoneTwice, Registered, AheadInv, FreshInv, CallInv, CalledOnData
<1> QED BY <1>1, <1>2

LEMMA CallbackTrueStep ==
  ASSUME IInv, CallbackTrue
  PROVE  IInv' /\ CalledOnData
<1> USE DEF IInv, CallbackTrue
<1>1. i \in 1 .. MaxHandlers /\ MaxHandlers \in Nat /\ cur \in round
  BY AsyncConstants DEF TypeOK, CallInv, AsyncConstants
<1>2. TypeOK' BY <1>1 DEF TypeOK
<1>3. Registered' = Registered /\ NoneTwice' BY DEF Registered, NoneTwice
<1>4. AheadInv'
  <2> SUFFICES ASSUME NEW k \in Ahead', handlers[k] \in round PROVE handlers[k] \in late
    BY DEF AheadInv
  <2>1. k \in DOMAIN handlers /\ k \in Nat BY ListType DEF Ahead
  <2>2. k \in Ahead BY <1>1, <2>1 DEF Ahead
  <2> QED BY <2>2 DEF AheadInv
<1>5. FreshInv' BY <1>1 DEF FreshInv
<1> QED BY <1>2, <1>3, <1>4, <1>5 DEF CallInv, CalledOnData

-----------------------------------------------------------------------------
LEMMA InitIInv == InitAsync => IInv
<1> SUFFICES ASSUME InitAsync PROVE IInv OBVIOUS
<1>1. handlers \in BoundedSeq(Fds, MaxHandlers) /\ MaxHandlers \in Nat
  <2>1. MaxHandlers \in Nat BY AsyncConstants DEF AsyncConstants
  <2>2. <<>> \in Seq(Fds) /\ Len(<<>>) = 0 BY EmptySeq
  <2>3. handlers \in Seq(Fds) /\ Len(handlers) <= MaxHandlers BY <2>1, <2>2 DEF InitAsync
  <2> QED BY <2>1, <2>3, BoundedList
<1>2. TypeOK BY <1>1 DEF InitAsync, TypeOK
<1>3. Registered = {} /\ NoneTwice
  <2>1. DOMAIN handlers = {}
    <3>1. handlers = <<>> BY DEF InitAsync
    <3>2. Len(handlers) = 0 BY <3>1
    <3> QED BY <1>2, <3>2, ListType
  <2> QED BY <2>1 DEF Registered, ToSet, NoneTwice
<1> QED BY <1>2, <1>3 DEF InitAsync, IInv, AheadInv, FreshInv, CallInv

LEMMA StepIInv == IInv /\ [NextAsync]_asyncVars => IInv' /\ [CalledOnData]_asyncVars
<1> SUFFICES ASSUME IInv, [NextAsync]_asyncVars PROVE IInv' /\ [CalledOnData]_asyncVars OBVIOUS
<1>1. CASE RunStep
  BY <1>1, SelectStep, ScanStep, LoopEndsStep, CallbackTrueStep DEF RunStep
<1>2. CASE Run BY <1>2, RunBegins
<1>3. CASE HasReady BY <1>3, HasReadyStep
<1>4. ASSUME NEW fd \in Fds, AddHandler(fd) \/ RemoveHandler(fd) \/ CloseSocket(fd) \/ DataArrives(fd)
      PROVE  IInv' /\ CalledOnData
  BY <1>4, AddHandlerStep, RemoveHandlerStep, CloseSocketStep, DataArrivesStep
<1>5. CASE UNCHANGED asyncVars
  BY <1>5 DEF asyncVars, IInv, TypeOK, NoneTwice, Registered, AheadInv, Ahead, FreshInv, CallInv
<1> QED BY <1>1, <1>2, <1>3, <1>4, <1>5 DEF NextAsync

(***************************************************************************)
(* IInv holds in every state of a program that waits for its sockets.      *)
(***************************************************************************)
THEOREM AsyncInvariant == AsyncSpec => []IInv
BY InitIInv, StepIInv, PTL DEF AsyncSpec

(***************************************************************************)
(* Every variable has its type; in particular the handlers never outgrow   *)
(* their array, and the loop ends with it.                                 *)
(***************************************************************************)
THEOREM AsyncTypes == AsyncSpec => []TypeOK
<1>1. IInv => TypeOK BY DEF IInv
<1> QED BY <1>1, AsyncInvariant, PTL

(***************************************************************************)
(* In a round no handler is called twice, and none without data, whatever  *)
(* callbacks add, remove and close in the middle of it.                    *)
(***************************************************************************)
THEOREM AsyncCalls == AsyncSpec => CalledOnceOnData
<1>1. IInv /\ [NextAsync]_asyncVars
        => [pc = "scan" /\ pc' = "call" => cur' \in (ready \ round) \union late]_asyncVars
  BY StepIInv DEF CalledOnData
<1> QED BY <1>1, AsyncInvariant, PTL DEF AsyncSpec, CalledOnceOnData
=============================================================================
