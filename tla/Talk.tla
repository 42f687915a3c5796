-------------------------------- MODULE Talk ---------------------------------
(***************************************************************************)
(* uga_talk over the connections of Sock: sending and receiving on a       *)
(* stream, which takes and gives bytes in pieces of its own choice, and    *)
(* the peers.  Sending and receiving datagrams is in Datagrams.            *)
(***************************************************************************)
EXTENDS Sock

Outwards(f) == <<fds[f].conn, "out">>
Inwards(f)  == <<fds[f].conn, "in">>

First(s, n) == SubSeq(s, 1, n)
From(s, n)  == SubSeq(s, n + 1, Len(s))

\* A call that was to move `wanted' bytes returned `size' and left the error e.
Moved(op, e, wanted, size) ==
  /\ err' = e
  /\ errno' = (errno \/ size = -1)
  /\ ret' = [Result(op, size = -1 \/ wanted = 0) EXCEPT !.wanted = wanted, !.size = size]
  /\ UNCHANGED <<fds, held>>

Room(n) == n + FoldFunction(LAMBDA s, k : Len(s) + k, 0, sent) <= MaxSent

\* Bytes are put on a stream, and the sender is told how many.
Put(s, bytes, told) ==
  /\ s \notin net.ended /\ Room(Len(bytes))
  /\ net' = [net EXCEPT !.wire[s] = @ \o bytes]
  /\ sent' = [sent EXCEPT ![s] = @ \o told]
  /\ UNCHANGED received

\* Bytes are taken from a stream and given to the receiver.
Take(s, bytes) ==
  /\ net' = [net EXCEPT !.wire[s] = From(@, Len(bytes))]
  /\ received' = [received EXCEPT ![s] = @ \o bytes]
  /\ UNCHANGED sent

-----------------------------------------------------------------------------
(* uga_send and uga_send_str. *)

SentErr(wanted, n) == IF n < wanted THEN "PARTIAL" ELSE "NONE"

\* Mutant: returns the length it was given.
BytesSentAll(message, n) == Len(message)

\* What the call returns when the kernel took n bytes.
BytesSent(message, n) == n

Send(f) ==
  \E message \in Messages :
    \/ /\ fds[f].st = "connected"
       /\ \E n \in 1 .. Len(message) :
            LET size == BytesSent(message, n) IN
              /\ Put(Outwards(f), First(message, n), First(message, size))
              /\ Moved("send", SentErr(Len(message), n), Len(message), size)
    \/ /\ Moved("send", "STD", Len(message), -1)
       /\ UNCHANGED <<net, streams>>

-----------------------------------------------------------------------------
(* uga_recv, uga_recv_strn, uga_recv_str. *)

\* At its end, and when the own side was shut down, a stream gives 0 bytes.
AtEnd(f) == net.wire[Inwards(f)] = <<>> /\ {Inwards(f), Outwards(f)} \cap net.ended # {}

\* The bytes a receive may get from the kernel.
Available(f, most) ==
  LET wire == net.wire[Inwards(f)] IN
    {First(wire, n) : n \in {k \in 0 .. most : k <= Len(wire) /\ (k > 0 \/ AtEnd(f))}}

RecvdErr(wanted, n) == IF n < wanted THEN "PARTIAL" ELSE "NONE"

\* The receive fails; a string then has the size -1.
RecvFails(op, wanted) == Moved(op, "STD", wanted, -1) /\ UNCHANGED <<net, streams>>

\* There was no memory for the string: nothing is received into nothing, and
\* uga_recv cleared the error.
NoString(f, op) ==
  /\ fds[f].st = "connected"
  /\ Moved(op, "NONE", 0, 0) /\ UNCHANGED <<net, streams>>

\* uga_recv into a buffer of the client, and uga_recv_strn.
RecvStrn(f, capacity) ==
  \/ /\ fds[f].st = "connected"
     /\ \E bytes \in Available(f, capacity) :
          /\ Moved("recv", RecvdErr(capacity, Len(bytes)), capacity, Len(bytes))
          /\ Take(Inwards(f), bytes)
  \/ RecvFails("recv", capacity) \/ NoString(f, "recv")

\* A partial read is shrunk to fit, whose allocation clears the error or fails.
RecvStr(f) ==
  \/ /\ fds[f].st = "connected"
     /\ \E bytes \in Available(f, BuffSize) :
          /\ \E e \in IF RecvdErr(BuffSize, Len(bytes)) = "PARTIAL" THEN {"NONE", "STD"} ELSE {"NONE"} :
               Moved("recv_str", e, BuffSize, Len(bytes))
          /\ Take(Inwards(f), bytes)
  \/ RecvFails("recv_str", BuffSize) \/ NoString(f, "recv_str")

-----------------------------------------------------------------------------
(* The peers: they connect to a listening socket, send, read and close. *)
PeerConnects(f) ==
  /\ fds[f].st = "listening" /\ Len(fds[f].pending) < Backlog /\ net.conns < MaxConns
  /\ net' = [net EXCEPT !.conns = @ + 1]
  /\ fds' = [fds EXCEPT ![f].pending = Append(@, net.conns + 1)]
  /\ UNCHANGED <<err, errno, held, ret, streams>>

PeerSends(k)  == \E message \in Messages : Put(<<k, "in">>, message, message)
PeerCloses(k) == net' = [net EXCEPT !.ended = @ \union {<<k, "in">>}] /\ UNCHANGED streams

PeerReads(k) ==
  \E n \in 1 .. Len(net.wire[<<k, "out">>]) :
    Take(<<k, "out">>, First(net.wire[<<k, "out">>], n))

PeerStep ==
  \/ \E f \in DOMAIN fds : PeerConnects(f)
  \/ /\ \E k \in 1 .. net.conns : PeerSends(k) \/ PeerCloses(k) \/ PeerReads(k)
     /\ UNCHANGED <<fds, err, errno, held, ret>>

Next ==
  \/ SockNext
  \/ \E f \in held :
       Send(f) \/ RecvStr(f) \/ \E capacity \in 1 .. BuffSize : RecvStrn(f, capacity)
  \/ PeerStep

Spec == Init /\ [][Next]_vars

-----------------------------------------------------------------------------
(***************************************************************************)
(* "Just don't forget to call the destructors": a client can close every   *)
(* open descriptor, as it is in a socket it was given, also with an error. *)
(* README: uga_sock_create_and_listen, then uga_print_abort_if_err, then   *)
(* uga_sock_accept.  A socket that came without an error is in the state   *)
(* its function promises, whichever of its system calls may fail.          *)
(***************************************************************************)
Promised ==
  [create |-> "created", create_and_bind |-> "bound", bind |-> "bound",
   create_and_listen |-> "listening", listen |-> "listening",
   create_and_connect |-> "connected", connect |-> "connected", accept |-> "connected"]

ClientHasSockets ==
  /\ DOMAIN fds = held
  /\ ret.op \in DOMAIN Promised /\ err = "NONE" =>
       ret.fd \in held /\ fds[ret.fd].st = Promised[ret.op]

(***************************************************************************)
(* A call that failed left an error, and one that did not left none.  But  *)
(* uga_get_nameinfo asks errno, and may fail in silence or report an error *)
(* of some earlier call, as uga_ipv4_from_str may; a receive without       *)
(* memory for its string fails in silence; uga_recv_str may leave the      *)
(* error of shrinking a string it did receive; and some functions leave an *)
(* earlier error in place.  A send or receive has no error exactly if it   *)
(* moved all it was asked to.  Only uga_recv_str gives less without an     *)
(* error; its size tells how much, and is -1 only with an error.           *)
(***************************************************************************)
Recvs         == {"recv", "recv_str"}
ClearsNothing == {"none", "close", "shutdown", "set_ttl", "get_nameinfo"}

FailsSilently == \/ ret.op \in {"get_nameinfo", "reverse_lookup"}
                 \/ ret.op \in Recvs /\ ret.wanted = 0

MayComplain == \/ ret.op \in ClearsNothing
               \/ ret.op = "from_str" /\ errno
               \/ ret.op = "recv_str" /\ ret.size < BuffSize

FailureTold ==
  /\ ret.failed /\ err = "NONE" => FailsSilently
  /\ ~ret.failed /\ err = "STD" => MayComplain
  /\ ret.op \in {"send", "recv"} => (err = "NONE" <=> ret.size = ret.wanted)
  /\ ret.op = "recv_str" => (err = "NONE" => ret.size >= 0)

(***************************************************************************)
(* What senders are told they sent and what receivers are given to read is *)
(* a stream in each direction, and what was sent and not yet read is on    *)
(* the way: nothing is lost or made up, whatever the kernel takes and      *)
(* gives at a time and whichever calls fail.                               *)
(***************************************************************************)
Stream == INSTANCE ByteStream WITH Directions <- Streams

OnTheWay == \A s \in Streams : sent[s] = received[s] \o net.wire[s]

IsStream == Stream!Init /\ [][(Stream!Next \/ UNCHANGED streams) /\ OnTheWay']_vars
=============================================================================
