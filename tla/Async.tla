-------------------------------- MODULE Async --------------------------------
(***************************************************************************)
(* uga_async.c: a list of handlers, one per socket, and uga_async_run,     *)
(* which waits in select for any of them and calls the callbacks of those  *)
(* that are ready.  A callback may itself add and remove handlers, and     *)
(* close a socket it has removed, while the loop over the handlers is in   *)
(* the middle of them.                                                     *)
(*                                                                         *)
(* fds is computed once, before the loop; fdr is what select made of it.   *)
(* Data arriving, and signals interrupting select, are the environment.    *)
(***************************************************************************)
EXTENDS Integers, SequencesExt

CONSTANTS Fds,           \* the descriptors of the sockets
          MaxHandlers,   \* UGA_MAX_HANDLERS
          MayAdd, MayRemove, MayClose,   \* what callbacks do besides reading
          Signals,       \* whether select may be interrupted
          NoFd

ASSUME AsyncConstants ==
  /\ IsFiniteSet(Fds) /\ NoFd \notin Fds
  /\ MaxHandlers \in Nat \ {0}
  /\ {MayAdd, MayRemove, MayClose, Signals} \subseteq BOOLEAN

VARIABLES handlers,   \* handler_list, by descriptor
          open,       \* descriptors not closed
          ready,      \* descriptors with unread data
          pc,         \* "client", or where uga_async_run is
          fds, fdr,   \* the sets of the same name
          i,          \* loop index, counted from one
          cur,        \* descriptor whose callback runs
          ret,        \* value uga_async_run last returned; -1: none yet
          polled,     \* descriptor uga_async_has_ready last returned
          round,      \* history: descriptors called since the last select
          late        \* history: descriptors added since the last select

asyncVars == <<handlers, open, ready, pc, fds, fdr, i, cur, ret, polled, round, late>>

Registered == ToSet(handlers)

InitAsync ==
  /\ handlers = <<>> /\ open = Fds /\ ready = {}
  /\ pc = "client" /\ fds = {} /\ fdr = {} /\ i = 1 /\ cur = NoFd
  /\ ret = -1 /\ polled = NoFd /\ round = {} /\ late = {}

\* Mutant: the end of the array is not checked.
AddHandlerUnchecked(fd) ==
  /\ pc = "client" \/ (MayAdd /\ pc = "call")
  /\ fd \in open \ Registered
  /\ handlers' = Append(handlers, fd)
  /\ late' = late \union (ToSet(handlers') \ Registered)
  /\ UNCHANGED <<open, ready, pc, fds, fdr, i, cur, ret, polled, round>>

\* The client has no socket twice in the list.
AddHandler(fd) ==
  /\ pc = "client" \/ (MayAdd /\ pc = "call")
  /\ fd \in open \ Registered
  /\ handlers' = IF Len(handlers) >= MaxHandlers THEN handlers ELSE Append(handlers, fd)
  /\ late' = late \union (ToSet(handlers') \ Registered)
  /\ UNCHANGED <<open, ready, pc, fds, fdr, i, cur, ret, polled, round>>

\* Mutant: the number of handlers is not decreased.
RemoveHandlerKeepsLast(fd) ==
  /\ pc = "client" \/ (MayRemove /\ pc = "call")
  /\ \E k \in DOMAIN handlers :
       /\ handlers[k] = fd
       /\ handlers' = [handlers EXCEPT ![k] = Last(handlers)]
  /\ UNCHANGED <<open, ready, pc, fds, fdr, i, cur, ret, polled, round, late>>

\* The last handler takes the place of the one removed.
RemoveHandler(fd) ==
  /\ pc = "client" \/ (MayRemove /\ pc = "call")
  /\ \E k \in DOMAIN handlers :
       /\ handlers[k] = fd
       /\ handlers' = Front([handlers EXCEPT ![k] = Last(handlers)])
  /\ UNCHANGED <<open, ready, pc, fds, fdr, i, cur, ret, polled, round, late>>

CloseSocket(fd) ==
  /\ MayClose /\ pc = "call"
  /\ fd \in open \ Registered
  /\ open' = open \ {fd} /\ ready' = ready \ {fd}
  /\ UNCHANGED <<handlers, pc, fds, fdr, i, cur, ret, polled, round, late>>

\* select without waiting; the first handler in the list that is ready wins.
HasReady ==
  /\ pc = "client"
  /\ polled' = IF Registered \intersect ready = {} THEN NoFd
               ELSE handlers[SelectInSeq(handlers, LAMBDA fd : fd \in ready)]
  /\ UNCHANGED <<handlers, open, ready, pc, fds, fdr, i, cur, ret, round, late>>

-----------------------------------------------------------------------------
\* What uga_async_has_ready returned is of no use any more.
Run ==
  /\ pc = "client"
  /\ fds' = Registered /\ fdr' = {}
  /\ pc' = "select" /\ ret' = -1 /\ polled' = NoFd
  /\ UNCHANGED <<handlers, open, ready, i, cur, round, late>>

Return(value) == pc' = "client" /\ ret' = value /\ UNCHANGED <<fdr, i, cur, round, late>>

\* select returns a positive number: the loop over the handlers begins.
SelectReady ==
  /\ pc = "select" /\ fds \subseteq open
  /\ fds \intersect ready # {}
  /\ fdr' = fds \intersect ready
  /\ i' = 1 /\ round' = {} /\ late' = {} /\ pc' = "scan"
  /\ UNCHANGED <<handlers, open, ready, fds, cur, ret, polled>>

\* select returns -1: a closed descriptor is still in fds, or a signal came.
SelectFails ==
  /\ pc = "select"
  /\ Signals \/ ~(fds \subseteq open)
  /\ Return(0)
  /\ UNCHANGED <<handlers, open, ready, fds, polled>>

Scan ==
  /\ pc = "scan" /\ i <= Len(handlers)
  /\ IF handlers[i] \in fdr
     THEN /\ pc' = "call" /\ cur' = handlers[i]
          /\ round' = round \union {handlers[i]}
          /\ UNCHANGED i
     ELSE i' = i + 1 /\ UNCHANGED <<pc, cur, round>>
  /\ UNCHANGED <<handlers, open, ready, fds, fdr, ret, polled, late>>

ScanEnds ==
  /\ pc = "scan" /\ i > Len(handlers)
  /\ pc' = "select"
  /\ UNCHANGED <<handlers, open, ready, fds, fdr, i, cur, ret, polled, round, late>>

\* Mutant: select is called again after every callback.
CallbackTrueBreaks ==
  /\ pc = "call"
  /\ ready' = ready \ {cur}
  /\ pc' = "select" /\ cur' = NoFd
  /\ UNCHANGED <<i, handlers, open, fds, fdr, ret, polled, round, late>>

\* The callback has read its socket and returns true ...
CallbackTrue ==
  /\ pc = "call"
  /\ ready' = ready \ {cur}
  /\ i' = i + 1 /\ pc' = "scan" /\ cur' = NoFd
  /\ UNCHANGED <<handlers, open, fds, fdr, ret, polled, round, late>>

\* ... or false.
CallbackFalse ==
  /\ pc = "call"
  /\ ready' = ready \ {cur} /\ pc' = "client" /\ ret' = 1 /\ cur' = NoFd
  /\ UNCHANGED <<handlers, open, fds, fdr, i, polled, round, late>>

DataArrives(fd) ==
  /\ fd \in open \ ready
  /\ ready' = ready \union {fd}
  /\ UNCHANGED <<handlers, open, pc, fds, fdr, i, cur, ret, polled, round, late>>

\* The steps of uga_async_run, and a callback returning, go on by themselves.
RunStep == SelectReady \/ SelectFails \/ Scan \/ ScanEnds \/ CallbackTrue \/ CallbackFalse

NextAsync ==
  \/ RunStep \/ Run \/ HasReady
  \/ \E fd \in Fds : \/ AddHandler(fd) \/ RemoveHandler(fd)
                     \/ CloseSocket(fd) \/ DataArrives(fd)

AsyncSpec == InitAsync /\ [][NextAsync]_asyncVars

-----------------------------------------------------------------------------
\* Every variable has its type; a list never outgrows its array.
TypeOK ==
  /\ handlers \in BoundedSeq(Fds, MaxHandlers)
  /\ open \subseteq Fds /\ ready \subseteq open
  /\ pc \in {"client", "select", "scan", "call"}
  /\ fds \subseteq Fds /\ fdr \subseteq fds /\ round \subseteq Fds
  /\ i \in 1 .. MaxHandlers + 1
  /\ cur \in Fds \union {NoFd} /\ polled \in Fds \union {NoFd}
  /\ ret \in {-1, 0, 1}

(***************************************************************************)
(* Between a select and the next, no handler is called twice, although     *)
(* callbacks remove handlers (which moves the last one forward) while the  *)
(* loop is among them; and none is called without something to read,       *)
(* although fdr is as old as the select.  A handler that a callback        *)
(* removed and put back is a new one: it may be called at once, on the old *)
(* result, and find its socket read already.                               *)
(***************************************************************************)
CalledOnceOnData ==
  [][pc = "scan" /\ pc' = "call" => cur' \in (ready \ round) \union late]_asyncVars

(***************************************************************************)
(* README: "Once a socket becomes ready, the corresponding callback        *)
(* function is called and the wait continues."  No handler starves that    *)
(* was there when uga_async_run began, whatever the callbacks add, remove  *)
(* and close.  One that a callback adds is not in fds and never called.    *)
(***************************************************************************)
ReadyServed ==
  \A fd \in Fds :
    (pc # "client" /\ fd \in fds \intersect ready \intersect Registered)
      ~> (pc = "client" \/ cur = fd \/ fd \notin Registered)

(***************************************************************************)
(* README: "uga_async_run() only returns if a callback returns false."     *)
(***************************************************************************)
OnlyReturnsOnFalse == ret # 0
=============================================================================
