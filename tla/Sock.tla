-------------------------------- MODULE Sock ---------------------------------
(***************************************************************************)
(* uga_sock in a program whose peers are any programs: its descriptors,    *)
(* errno, the library's error, and a kernel with queues of connections to  *)
(* accept and a stream of bytes in each direction of a connection.  Talk   *)
(* has the calls that use the streams.                                     *)
(*                                                                         *)
(* One step is one call of the library, or of a peer.  As in Str, a call   *)
(* is put together from operators that take its state (descriptors,        *)
(* kernel, errors) to the set of states it may end in; every system call   *)
(* may fail.                                                               *)
(***************************************************************************)
EXTENDS Integers, Sequences, FiniteSets, Functions

CONSTANTS Messages,   \* what is sent: sequences of bytes
          BuffSize,   \* UGA_RECV_BUFF_SIZE
          Backlog,    \* connections the kernel keeps for accept
          MaxFds,     \* descriptors of the program
          MaxConns,   \* bound: connections made
          MaxSent     \* bound: bytes sent over all connections

SockConstants ==
  /\ {BuffSize, Backlog, MaxFds, MaxConns, MaxSent} \subseteq Nat
  /\ \A m \in Messages : m \in Seq(Range(m))

VARIABLES fds,       \* open descriptors: their sockets
          net,       \* the kernel: connections made, wires, ends of streams
          err,       \* uga_current_errtype(): one of Errtypes
          errno,     \* whether errno is not 0
          held,      \* the descriptors in the sockets the client was given
          ret,       \* what the last call returned
          sent,      \* history: the bytes a sender was told it sent
          received   \* history: the bytes a receiver was given to read

streams == <<sent, received>>
vars    == <<fds, net, err, errno, held, ret, streams>>

\* No error, a partial read or write, and all other errors.
Errtypes == {"NONE", "PARTIAL", "STD"}

Conns == 1 .. MaxConns

\* The streams of a connection, from the program and to it.
Streams == Conns \X {"out", "in"}

\* A socket, with the connections that wait for accept if it listens.
Socket(st, conn) == [st |-> st, conn |-> conn, pending |-> <<>>]

\* `failed' is history: whether the call could not do what it is for.  A call that
\* returns no socket has fd -1, one that moves no bytes sizes of 0.
Result(op, failed) == [op |-> op, failed |-> failed, fd |-> -1, wanted |-> 0, size |-> 0]

Init ==
  /\ fds = <<>>
  /\ net = [conns |-> 0, wire |-> [s \in Streams |-> <<>>], ended |-> {}]
  /\ err = "NONE" /\ errno = FALSE
  /\ held = {}
  /\ ret = Result("none", FALSE)
  /\ sent = [s \in Streams |-> <<>>] /\ received = [s \in Streams |-> <<>>]

-----------------------------------------------------------------------------
(* Parts of calls: the state of a call, and system calls. *)

Begin(f) == [fds |-> fds, net |-> net, err |-> err, errno |-> errno, fd |-> f, failed |-> FALSE]

Clear(c)  == [c EXCEPT !.err = "NONE"]
Failed(c) == [c EXCEPT !.failed = TRUE]

\* A system call returns -1, and _uga_check_std_errno.
StdError(c) == [Failed(c) EXCEPT !.err = "STD", !.errno = TRUE]

\* if( uga_had_errs() ) return sock ; and the outcomes in which the call goes on.
Stopped(outcomes)   == {c \in outcomes : c.err # "NONE"}
Continued(outcomes) == outcomes \ Stopped(outcomes)

Free(c) == (1 .. MaxFds) \ DOMAIN c.fds

NewSocket(c, sock) ==
  {[c EXCEPT !.fd = f, !.fds = [g \in DOMAIN @ \union {f} |-> IF g = f THEN sock ELSE @[g]]] :
     f \in {g \in Free(c) : \A h \in Free(c) : g <= h}}

\* The system call takes the socket from one state to another, or fails.
Becomes(c, from, sock) ==
  {StdError(c)} \union (IF c.fds[c.fd].st = from THEN {[c EXCEPT !.fds[c.fd] = sock]} ELSE {})

socket(c) == {StdError(c)} \union NewSocket(c, Socket("created", 0))
bind(c)   == Becomes(c, "created", Socket("bound", 0))
listen(c) == Becomes(c, "bound", Socket("listening", 0))

connect(c) ==
  {IF d.err # "NONE" THEN d ELSE [d EXCEPT !.net.conns = @ + 1] :
     d \in IF c.net.conns < MaxConns
            THEN Becomes(c, "created", Socket("connected", c.net.conns + 1))
            ELSE {StdError(c)}}

-----------------------------------------------------------------------------
(* uga_sock: the functions that make a socket. *)

\* getaddrinfo says by its result whether it failed; errno may change anyway.
AddrinfoGet(c) ==
  LET outcomes == {Clear(c), [Failed(c) EXCEPT !.err = "STD"]} IN
    outcomes \union {[a EXCEPT !.errno = TRUE] : a \in outcomes}

\* The socket is { -1 } unless the descriptor could be had.
Create(c) ==
  LET addr == AddrinfoGet([c EXCEPT !.fd = -1]) IN
    Stopped(addr) \union UNION {socket(a) : a \in Continued(addr)}

CreateAndBind(c) ==
  LET sock == Create(c) IN Stopped(sock) \union UNION {bind(a) : a \in Continued(sock)}

\* Mutant: a failed connect returns { -1 } and leaves the descriptor open.
CreateAndConnectLost(c) ==
  LET sock == Create(c)
      done == UNION {connect(a) : a \in Continued(sock)} IN
    Stopped(sock) \union Continued(done) \union {[a EXCEPT !.fd = -1] : a \in Stopped(done)}

CreateAndConnect(c) ==
  LET sock == Create(c) IN Stopped(sock) \union UNION {connect(a) : a \in Continued(sock)}

CreateAndListen(c) ==
  LET sock == CreateAndBind(c) IN Stopped(sock) \union UNION {listen(a) : a \in Continued(sock)}

\* uga_addrinfo_from_sockaddr clears the error; families are IPv4 and IPv6 here.
Accept(c) ==
  {[StdError(c) EXCEPT !.fd = -1]} \union
  (LET waiting == c.fds[c.fd].pending IN
     IF waiting = <<>> THEN {}
     ELSE NewSocket([Clear(c) EXCEPT !.fds[c.fd].pending = Tail(@)],
                    Socket("connected", Head(waiting))))

-----------------------------------------------------------------------------
(* The calls of a client, in the order of uga_sock.h. *)

\* The call ends in one of the outcomes.
Returns(op, outcomes) ==
  \E c \in outcomes :
    /\ fds' = c.fds /\ net' = c.net /\ err' = c.err /\ errno' = c.errno
    /\ ret' = [Result(op, c.failed) EXCEPT !.fd = c.fd]
    /\ held' = held \union ({c.fd} \ {-1})
    /\ UNCHANGED streams

SockCreate ==
  \/ Returns("create", Create(Begin(-1)))
  \/ Returns("create_and_bind", CreateAndBind(Begin(-1)))
  \/ Returns("create_and_listen", CreateAndListen(Begin(-1)))
  \/ Returns("create_and_connect", CreateAndConnect(Begin(-1)))

\* uga_sock_bind, _listen and _connect on a socket created before.
SockBind(f)    == fds[f].st = "created" /\ Returns("bind", bind(Clear(Begin(f))))
SockListen(f)  == fds[f].st = "bound"   /\ Returns("listen", listen(Clear(Begin(f))))
SockConnect(f) == fds[f].st = "created" /\ Returns("connect", connect(Clear(Begin(f))))

SockAccept(f) ==
  fds[f].st = "listening" /\ Returns("accept", Accept(Clear(Begin(f))))

\* No more bytes are sent on what the socket was: its connection, or those it kept.
Ends(f) ==
  IF fds[f].st = "connected" THEN {<<fds[f].conn, "out">>}
  ELSE {<<k, "out">> : k \in Range(fds[f].pending)}

\* uga_sock_close and uga_sock_shutdown clear nothing.  The descriptor is gone
\* even when close(2) fails.
SockClose(f) ==
  /\ fds' = Restrict(fds, DOMAIN fds \ {f})
  /\ net' = [net EXCEPT !.ended = @ \union Ends(f)]
  /\ held' = held \ {f}
  /\ \/ ret' = Result("close", FALSE) /\ UNCHANGED <<err, errno>>
     \/ ret' = Result("close", TRUE) /\ err' = "STD" /\ errno' = TRUE
  /\ UNCHANGED streams

\* With SHUT_RDWR.
SockShutdown(f) ==
  LET c == Begin(f) IN
    \/ Returns("shutdown", {StdError(c)})
    \/ /\ fds[f].st = "connected"
       /\ Returns("shutdown", {[c EXCEPT !.net.ended = @ \union Ends(f)]})

\* uga_sock_reuse; and uga_sock_set_ttl, uga_get_peer, uga_get_hostname, which clear nothing.
SockOption ==
  LET c == Begin(-1) IN
    \/ Returns("reuse", {Clear(c), StdError(c)})
    \/ Returns("set_ttl", {c, StdError(c)})

\* _uga_check_std_errno asks errno, whatever happened.
CheckErrno(c) == IF c.errno THEN [c EXCEPT !.err = "STD"] ELSE c

\* Mutant: the error of a bad address is left to errno.
FromStrByErrno ==
  LET c == Clear(Begin(-1)) IN
    Returns("from_str", {CheckErrno(Failed(c)), CheckErrno(c)})

\* uga_ipv4_from_str and uga_ipv6_from_str; inet_pton leaves errno alone.
FromStr ==
  LET c == Clear(Begin(-1)) IN
    Returns("from_str", {CheckErrno([Failed(c) EXCEPT !.err = "STD"]), CheckErrno(c)})

\* uga_ipv4_to_str and uga_ipv6_to_str.
ToStr(c) == {Clear(c), StdError(c)}

\* uga_get_nameinfo; getnameinfo says by its result whether it failed.
GetNameinfo(c) ==
  {c, CheckErrno(Failed(c)), CheckErrno([Failed(c) EXCEPT !.errno = TRUE])}

\* uga_addrinfo_get, uga_ip_to_str, and uga_lookup and uga_get_ip_str; and backwards.
Lookup ==
  LET c    == Begin(-1)
      addr == AddrinfoGet(c) IN
    \/ Returns("addrinfo_get", addr)
    \/ Returns("to_str", ToStr(c))
    \/ Returns("lookup", Stopped(addr) \union UNION {ToStr(a) : a \in Continued(addr)})
    \/ Returns("get_nameinfo", GetNameinfo(c))
    \/ Returns("reverse_lookup", Stopped(addr) \union UNION {GetNameinfo(a) : a \in Continued(addr)})

SockNext ==
  \/ SockCreate \/ SockOption \/ FromStr \/ Lookup
  \/ \E f \in held :
       \/ SockBind(f) \/ SockListen(f) \/ SockConnect(f)
       \/ SockAccept(f) \/ SockClose(f) \/ SockShutdown(f)
=============================================================================
