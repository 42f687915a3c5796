------------------------------- MODULE System --------------------------------
(***************************************************************************)
(* What a client is told of the operating system: by the calls on sockets  *)
(* (Net) and on files (Files), each with an error record of its own for    *)
(* one thread, and by the record itself when threads share it (Errors).    *)
(* `area' says which of them a behaviour is about.                         *)
(***************************************************************************)
EXTENDS Net, Files, Errors

VARIABLE area

systemVars == <<vars, datagrams, part, filesVars, errorsVars, area>>

\* What is not used begins in one of its initial states.
NoCalls == ~logging /\ call = [t \in Callers |-> CHOOSE c \in Calls : TRUE]

SystemInit ==
  /\ AnyInit /\ InitFiles /\ InitErrors
  /\ \/ area = "sockets" /\ NoCalls
     \/ area = "files"   /\ NoCalls /\ part = "connections"
     \/ area = "errors"  /\ part = "connections"

SystemNext ==
  \/ /\ area = "sockets"
     /\ AnyNext /\ UNCHANGED <<part, filesVars, errorsVars>>
  \/ /\ area = "files"
     /\ NextFiles /\ UNCHANGED <<vars, datagrams, part, errorsVars>>
  \/ /\ area = "errors"
     /\ NextErrors /\ UNCHANGED <<vars, datagrams, part, filesVars>>

SystemSpec == SystemInit /\ [][SystemNext /\ UNCHANGED area]_systemVars
=============================================================================
