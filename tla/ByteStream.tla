----------------------------- MODULE ByteStream ------------------------------
(***************************************************************************)
(* What uga_send and uga_recv promise over a connection: one sequence of   *)
(* bytes in each direction.  What a client was told it sent is added at    *)
(* one end; what a client was given to read is, in the same order and      *)
(* without gaps, the beginning of it.  Talk implements this.                *)
(***************************************************************************)
EXTENDS Naturals, Sequences

CONSTANT Directions

VARIABLES sent,      \* the bytes sent in each direction
          received   \* the bytes received of them

Init ==
  /\ sent = [d \in Directions |-> <<>>]
  /\ received = [d \in Directions |-> <<>>]

Beginning(s, n) == SubSeq(s, 1, n)

Send(d) ==
  /\ Beginning(sent'[d], Len(sent[d])) = sent[d]
  /\ sent' = [sent EXCEPT ![d] = sent'[d]]
  /\ UNCHANGED received

Receive(d) ==
  /\ \E n \in Len(received[d]) + 1 .. Len(sent[d]) :
       received' = [received EXCEPT ![d] = Beginning(sent[d], n)]
  /\ UNCHANGED sent

Next == \E d \in Directions : Send(d) \/ Receive(d)
=============================================================================
