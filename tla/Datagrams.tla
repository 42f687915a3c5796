------------------------------ MODULE Datagrams ------------------------------
(***************************************************************************)
(* uga_talk over datagrams: several programs, each with one socket, whose  *)
(* addr is where uga_send_to sends to and where uga_recv_from writes the   *)
(* sender of what it received.  The network loses, duplicates and reorders *)
(* datagrams: a datagram once sent may be received any number of times.    *)
(***************************************************************************)
EXTENDS Integers, Sequences, FiniteSets

CONSTANTS Parties,      \* the programs, which are their own addresses
          Nobody,
          Payloads,     \* the data that is sent: sequences of bytes
          BuffSize,     \* UGA_RECV_BUFF_SIZE
          MaxMail       \* bound: datagrams sent

VARIABLES addr,   \* of the socket of each program
          mail,   \* the datagrams sent, and whom their senders heard last
          ret,    \* what the last call returned, and the error it left
          heard   \* history: the sender of what a program received last

vars == <<addr, mail, ret, heard>>

Result(p, op, err, wanted, text) ==
  [p |-> p, op |-> op, err |-> err, wanted |-> wanted, text |-> text]

\* A bound socket begins with its own address, another with that of its host.
Init ==
  /\ addr \in [Parties -> Parties]
  /\ mail = {}
  /\ ret = Result(Nobody, "none", "NONE", 0, <<>>)
  /\ heard = [p \in Parties |-> Nobody]

\* The call fails; a string then has the size -1.
Fails(p, op) ==
  /\ ret' = Result(p, op, "STD", 0, <<>>)
  /\ UNCHANGED <<addr, mail, heard>>

\* uga_send_to and uga_send_str_to; a datagram is sent whole or not at all.
SendTo(p) ==
  \/ /\ Cardinality(mail) < MaxMail
     /\ \E data \in Payloads :
          mail' = mail \union {[from |-> p, to |-> addr[p], data |-> data, heard |-> heard[p]]}
     /\ ret' = Result(p, "send", "NONE", 0, <<>>)
     /\ UNCHANGED <<addr, heard>>
  \/ Fails(p, "send")

\* Mutant: once somebody was heard the address is theirs.
SenderFirst(p, d) == IF heard[p] = Nobody THEN d.from ELSE addr[p]

\* What recvfrom writes to the address of the socket.
Sender(p, d) == d.from

Beginning(s, n) == SubSeq(s, 1, IF n < Len(s) THEN n ELSE Len(s))

\* uga_recv_from: the rest of the datagram is lost.
Takes(p, d, op, err, wanted) ==
  /\ addr' = [addr EXCEPT ![p] = Sender(p, d)]
  /\ heard' = [heard EXCEPT ![p] = d.from]
  /\ ret' = Result(p, op, err, wanted, Beginning(d.data, wanted))
  /\ UNCHANGED mail

ToRead(p) == {d \in mail : d.to = p}

RecvdErr(wanted, d) == IF Len(d.data) < wanted THEN "PARTIAL" ELSE "NONE"

\* Without memory for the string the datagram is read into nothing.
NoString(p, d, op) == Takes(p, d, op, "NONE", 0)

\* uga_recv_from into a buffer of the client, and uga_recv_strn_from.
RecvFrom(p, wanted) ==
  \/ \E d \in ToRead(p) : Takes(p, d, "recv_from", RecvdErr(wanted, d), wanted) \/ NoString(p, d, "recv_from")
  \/ Fails(p, "recv_from")

\* A partial read is shrunk to fit, whose allocation clears the error or fails.
RecvStrFrom(p) ==
  \/ \E d \in ToRead(p) :
       \/ \E err \in IF RecvdErr(BuffSize, d) = "PARTIAL" THEN {"NONE", "STD"} ELSE {"NONE"} :
            Takes(p, d, "recv_str_from", err, BuffSize)
       \/ NoString(p, d, "recv_str_from")
  \/ Fails(p, "recv_str_from")

Next ==
  \E p \in Parties :
    SendTo(p) \/ RecvStrFrom(p) \/ \E wanted \in 1 .. BuffSize : RecvFrom(p, wanted)

-----------------------------------------------------------------------------
(***************************************************************************)
(* mrepro/server.c answers a datagram with uga_recv_str_from and           *)
(* uga_send_str_to on the same socket.  Whatever the network does and      *)
(* whichever calls fail between, what a program sends after it received    *)
(* goes to the sender of what it received last, whoever that was.  And a   *)
(* text received is the beginning of one datagram, sent to this program    *)
(* from the address now in the socket.  It is the whole datagram if it is  *)
(* shorter than what there was memory for: a cut one is never shorter, and *)
(* nothing else tells it from a whole one.                                 *)
(***************************************************************************)
RepliesToSender == \A d \in mail : d.heard # Nobody => d.to = d.heard

TextOfOneDatagram ==
  ret.op \in {"recv_from", "recv_str_from"} /\ ~(ret.err = "STD" /\ ret.wanted = 0) =>
    \E d \in ToRead(ret.p) :
      /\ d.from = addr[ret.p]
      /\ ret.text = Beginning(d.data, Len(ret.text))
      /\ (Len(ret.text) < ret.wanted \/ ret.err = "PARTIAL") => ret.text = d.data

AnswersOneSender == RepliesToSender /\ TextOfOneDatagram
=============================================================================
