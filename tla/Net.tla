-------------------------------- MODULE Net ----------------------------------
(***************************************************************************)
(* The two ways of uga_talk side by side: a program talks over connections *)
(* (Talk) or over datagrams (Datagrams).  Its sockets of one kind share no *)
(* state with those of the other, so `part' says which kind a behaviour is *)
(* about.                                                                  *)
(***************************************************************************)
EXTENDS Talk

CONSTANTS Parties, Nobody, Payloads, MaxMail   \* of Datagrams

VARIABLES part,
          addr, mail, answer, heard   \* of Datagrams

datagrams == <<addr, mail, answer, heard>>

D == INSTANCE Datagrams WITH ret <- answer

ASSUME NetConstants ==
  /\ SockConstants
  /\ MaxMail \in Nat /\ Nobody \notin Parties
  /\ \A data \in Payloads : data \in Seq(Range(data))

AnyInit ==
  /\ Init /\ D!Init
  /\ \/ part = "connections" /\ addr = [p \in Parties |-> p]
     \/ part = "datagrams"

AnyNext ==
  \/ part = "connections" /\ Next   /\ UNCHANGED datagrams
  \/ part = "datagrams"   /\ D!Next /\ UNCHANGED vars

AnySpec == AnyInit /\ [][AnyNext /\ UNCHANGED part]_<<vars, datagrams, part>>

-----------------------------------------------------------------------------
(***************************************************************************)
(* A text received is the beginning of one datagram of the sender in the   *)
(* socket, and what is sent afterwards goes to that sender.                *)
(***************************************************************************)
AnswersOneSender == D!AnswersOneSender
=============================================================================
