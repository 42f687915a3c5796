------------------------------- MODULE Errors --------------------------------
(***************************************************************************)
(* The library's error report: uga_errdata of uga_err.c, one variable for  *)
(* the whole process, not one per thread.  A library call clears it (most  *)
(* of them), does its work and, if that failed, stores an error there; the *)
(* client then asks uga_had_errs or one of the automatic handlers.         *)
(*                                                                         *)
(* One step is one access to uga_errdata.  Writing a log line is such an   *)
(* access: it allocates the string for its time stamp, and uga_allocate    *)
(* clears the error.                                                       *)
(***************************************************************************)
EXTENDS Naturals

CONSTANTS Callers,   \* the threads that call the library
          Calls      \* the functions they call, of those below

Error(type, cat) == [type |-> type, cat |-> cat]

NoError == Error("NONE", "NONE")

(***************************************************************************)
(* What a function does about errors: whether it begins with uga_clr_errs, *)
(* writes a log line when it fails, ends in UGA_RETURN_ON_ERR, and which   *)
(* error it stores.                                                        *)
(***************************************************************************)
Function(clears, logs, prints, error) ==
  [clears |-> clears, logs |-> logs, prints |-> prints, error |-> error]

ASSUME ErrorsConstants ==
  \A c \in Calls :
    /\ c.clears \in BOOLEAN /\ c.logs \in BOOLEAN /\ c.prints \in BOOLEAN
    /\ c.error = Error(c.error.type, c.error.cat)

uga_vec_at             == Function(TRUE,  FALSE, FALSE, Error("BAD_ACCESS", "MEM"))
uga_dl_list_peek_front == Function(FALSE, FALSE, FALSE, Error("BAD_ACCESS", "MEM"))
uga_dl_list_at         == Function(TRUE,  FALSE, TRUE,  Error("BAD_ACCESS", "MEM"))
uga_str_at             == Function(FALSE, TRUE,  FALSE, Error("BAD_ACCESS", "MEM"))
uga_recv               == Function(TRUE,  TRUE,  FALSE, Error("PARTIAL_READ", "IO"))
uga_mtx_acquire        == Function(TRUE,  TRUE,  FALSE, Error("NONE", "THREAD"))

VARIABLES logging,   \* whether UGA_LOG_LVL lets warnings and errors through
          errdata,   \* uga_errdata
          stage,     \* where in a call each thread is
          call,      \* the function it is in, or has come from
          failed,    \* whether its work fails
          exit,      \* the exit of the process: who, after printing or not, the status
          disturbed  \* history: another thread has written to errdata since this
                     \* one last cleared it

errorsVars == <<logging, errdata, stage, call, failed, exit, disturbed>>

Running == [by |-> "nobody", printed |-> FALSE, status |-> "running"]

InitErrors ==
  /\ logging \in BOOLEAN
  /\ errdata = NoError
  /\ stage = [t \in Callers |-> "idle"]
  /\ call \in [Callers -> Calls]
  /\ failed = [t \in Callers |-> FALSE]
  /\ exit = Running
  /\ disturbed = [t \in Callers |-> FALSE]

Goto(t, label) == stage' = [stage EXCEPT ![t] = label]

At(t, label) == stage[t] = label /\ exit = Running

\* Thread t writes e to errdata.
Store(t, e) ==
  /\ errdata' = e
  /\ disturbed' = [u \in Callers |-> disturbed[u] \/ u # t]

Invoke(t, c, f) ==
  /\ At(t, "idle")
  /\ call' = [call EXCEPT ![t] = c]
  /\ failed' = [failed EXCEPT ![t] = f]
  /\ Goto(t, IF c.clears THEN "clear" ELSE "work")
  /\ UNCHANGED <<logging, errdata, exit, disturbed>>

\* Mutant: uga_clr_errs takes the error for one of this call.
ClrErrsKeeps(t) ==
  /\ At(t, "clear")
  /\ Goto(t, "work")
  /\ disturbed' = [disturbed EXCEPT ![t] = FALSE]
  /\ UNCHANGED <<logging, errdata, call, failed, exit>>

ClrErrs(t) ==
  /\ At(t, "clear")
  /\ errdata' = NoError
  /\ disturbed' = [u \in Callers |-> u # t]
  /\ Goto(t, "work")
  /\ UNCHANGED <<logging, call, failed, exit>>

AfterWork(t) == IF call[t].prints THEN "check" ELSE "returned"

Work(t) ==
  /\ At(t, "work")
  /\ Goto(t, IF ~failed[t] THEN AfterWork(t)
             ELSE IF call[t].logs THEN "log" ELSE "set_type")
  /\ UNCHANGED <<logging, errdata, call, failed, exit, disturbed>>

\* uga_log_2 and _3: uga_time_string, uga_str_create_1, uga_allocate, uga_clr_errs.
LogLine(t) == IF logging THEN Store(t, NoError) ELSE UNCHANGED <<errdata, disturbed>>

LogFailure(t) ==
  /\ At(t, "log")
  /\ LogLine(t)
  /\ Goto(t, "set_type")
  /\ UNCHANGED <<logging, call, failed, exit>>

SetType(t) ==
  /\ At(t, "set_type")
  /\ Store(t, [errdata EXCEPT !.type = call[t].error.type])
  /\ Goto(t, "set_cat")
  /\ UNCHANGED <<logging, call, failed, exit>>

SetCat(t) ==
  /\ At(t, "set_cat")
  /\ Store(t, [errdata EXCEPT !.cat = call[t].error.cat])
  /\ Goto(t, AfterWork(t))
  /\ UNCHANGED <<logging, call, failed, exit>>

HadErrs == errdata.type # "NONE"

\* UGA_RETURN_ON_ERR: if there was an error, uga_print_error writes a log line.
ReturnOnErr(t) ==
  /\ At(t, "check")
  /\ IF HadErrs THEN LogLine(t) ELSE UNCHANGED <<errdata, disturbed>>
  /\ Goto(t, "returned")
  /\ UNCHANGED <<logging, call, failed, exit>>

-----------------------------------------------------------------------------
(* What the client does after the call. *)
CheckNothing(t) ==
  /\ At(t, "returned")
  /\ Goto(t, "idle")
  /\ UNCHANGED <<logging, errdata, call, failed, exit, disturbed>>

\* uga_print_if_err and uga_log_if_err: print, then clear.
PrintIfErr(t) ==
  /\ At(t, "returned")
  /\ IF HadErrs THEN Store(t, NoError) ELSE UNCHANGED <<errdata, disturbed>>
  /\ Goto(t, "idle")
  /\ UNCHANGED <<logging, call, failed, exit>>

AbortIfErr(t) ==
  /\ At(t, "returned")
  /\ Goto(t, IF HadErrs THEN "exit" ELSE "idle")
  /\ UNCHANGED <<logging, errdata, call, failed, exit, disturbed>>

PrintAbortIfErr(t) ==
  /\ At(t, "returned")
  /\ Goto(t, IF HadErrs THEN "print" ELSE "idle")
  /\ UNCHANGED <<logging, errdata, call, failed, exit, disturbed>>

PrintError(t) ==
  /\ At(t, "print")
  /\ LogLine(t)
  /\ Goto(t, "exit_printed")
  /\ UNCHANGED <<logging, call, failed, exit>>

\* Mutant: the status is that of success.
ExitQuietly(t) ==
  /\ stage[t] \in {"exit", "exit_printed"} /\ exit = Running
  /\ exit' = [by |-> t, printed |-> stage[t] = "exit_printed", status |-> "NONE"]
  /\ UNCHANGED <<logging, errdata, stage, call, failed, disturbed>>

\* exit( uga_errdata.type ); when it was printed, evaluated after that.
Exit(t) ==
  /\ stage[t] \in {"exit", "exit_printed"} /\ exit = Running
  /\ exit' = [by |-> t, printed |-> stage[t] = "exit_printed", status |-> errdata.type]
  /\ UNCHANGED <<logging, errdata, stage, call, failed, disturbed>>

NextErrors ==
  \E t \in Callers :
    \/ \E c \in Calls, f \in BOOLEAN : Invoke(t, c, f)
    \/ ClrErrs(t) \/ Work(t) \/ LogFailure(t) \/ SetType(t) \/ SetCat(t) \/ ReturnOnErr(t)
    \/ CheckNothing(t) \/ PrintIfErr(t) \/ AbortIfErr(t) \/ PrintAbortIfErr(t)
    \/ PrintError(t) \/ Exit(t)

ErrorsSpec == InitErrors /\ [][NextErrors]_errorsVars

-----------------------------------------------------------------------------
(***************************************************************************)
(* README: "After a call to a library function, you can check for errors   *)
(* by calling uga_had_errs()": it tells the client whether the call that   *)
(* just returned failed, whatever happened before, and an error found has  *)
(* the category of its type, by which README has uga_current_error cast.   *)
(* Not if another thread wrote to the one error record since the call      *)
(* began, which any library call of it does, and two setters may mix their *)
(* stores; and not for every function: one that does not clear the error   *)
(* may show an older one, one that ends in UGA_RETURN_ON_ERR prints its    *)
(* own away, and the type of thread errors is that of no error.            *)
(***************************************************************************)
Reporting(c) == ~(c.prints /\ logging) /\ c.error.type # "NONE"

Reported ==
  \A t \in Callers :
    stage[t] = "returned" /\ ~disturbed[t] =>
      /\ Reporting(call[t]) /\ failed[t] => HadErrs
      /\ call[t].clears /\ HadErrs => failed[t]
      /\ HadErrs => \E c \in Calls : errdata = c.error

(***************************************************************************)
(* README offers uga_abort_if_err and uga_print_abort_if_err to handle     *)
(* errors.  A process one of them ended tells by its status that there was *)
(* an error, unless the error was printed: then the status is that of      *)
(* success, as printing cleared the error before it was asked for.         *)
(***************************************************************************)
ExitTellsError ==
  exit # Running /\ ~disturbed[exit.by] =>
    (exit.status = "NONE" <=> exit.printed /\ logging)
=============================================================================
