------------------------------- MODULE NetProofs -------------------------------
(***************************************************************************)
(* Theorems about Net, for any messages and payloads, any number of        *)
(* descriptors, connections and parties, and a buffer of any size.         *)
(***************************************************************************)
EXTENDS Net, SequenceTheorems, TLAPS

Datagram == [from : Parties, to : Parties, data : Payloads, heard : Parties \union {Nobody}]

\* The address of a socket is the sender of what was received last.
AddrIsHeard == \A p \in Parties : heard[p] # Nobody => addr[p] = heard[p]

DatagramInv ==
  /\ addr \in [Parties -> Parties]
  /\ mail \subseteq Datagram
  /\ heard \in [Parties -> Parties \union {Nobody}]
  /\ AddrIsHeard
  /\ AnswersOneSender

Bytes == UNION {Range(m) : m \in Messages}

Fds == 1 .. MaxFds

Sockets ==
  {s \in [st : {"created", "bound", "listening", "connected"},
          conn : 0 .. MaxConns, pending : Seq(Conns)] :
     s.st = "connected" => s.conn \in Conns}

FdTables == UNION {[F -> Sockets] : F \in SUBSET Fds}

Kernels == [conns : 0 .. MaxConns, wire : [Streams -> Seq(Bytes)], ended : SUBSET Streams]

\* The states of a call.
Calls == [fds : FdTables, net : Kernels, err : Errtypes, errno : BOOLEAN,
          fd : Fds \union {-1}, failed : BOOLEAN]

TypeOK ==
  /\ fds \in FdTables /\ net \in Kernels
  /\ err \in Errtypes /\ errno \in BOOLEAN
  /\ sent \in [Streams -> Seq(Bytes)] /\ received \in [Streams -> Seq(Bytes)]

ConnectionInv == TypeOK /\ ClientHasSockets /\ FailureTold /\ OnTheWay

\* A step of a stream, as ByteStream has it, after which nothing is lost.
StreamStep == (Stream!Next \/ UNCHANGED streams) /\ OnTheWay'

IInv == ConnectionInv /\ DatagramInv

-----------------------------------------------------------------------------
(* Datagrams. *)

\* The text taken of a datagram is the beginning of it, and all of it if it is
\* shorter than what was asked for.
LEMMA BeginningOf ==
  ASSUME NEW data \in Payloads, NEW n \in Nat
  PROVE  LET text == D!Beginning(data, n) IN
           /\ text = D!Beginning(data, Len(text))
           /\ Len(text) < n \/ Len(data) < n => text = data
<1> DEFINE text == D!Beginning(data, n)
<1>1. data \in Seq(Range(data)) /\ Len(data) \in Nat BY NetConstants DEF NetConstants
<1>2. CASE n < Len(data)
  <2>1. text = SubSeq(data, 1, n) BY <1>2 DEF D!Beginning
  <2>2. Len(text) = n BY <1>1, <1>2, <2>1
  <2> QED BY <1>1, <1>2, <2>1, <2>2 DEF D!Beginning
<1>3. CASE ~(n < Len(data))
  <2>1. text = SubSeq(data, 1, Len(data)) BY <1>3 DEF D!Beginning
  <2>2. text = data BY <1>1, <2>1
  <2>3. Len(text) = Len(data) BY <2>2
  <2> QED BY <1>1, <1>3, <2>1, <2>2, <2>3 DEF D!Beginning
<1> QED BY <1>2, <1>3

\* A program that takes a datagram has its sender as address, and a text of it.
LEMMA TakesKeeps ==
  ASSUME DatagramInv, NEW p \in Parties, NEW d \in D!ToRead(p),
         NEW op, NEW e, NEW wanted \in Nat,
         D!Takes(p, d, op, e, wanted),
         e = "PARTIAL" => D!RecvdErr(wanted, d) = "PARTIAL"
  PROVE  DatagramInv'
<1>1. d \in mail /\ d \in Datagram /\ d.to = p BY DEF DatagramInv, D!ToRead
<1>2. d.from \in Parties /\ d.data \in Payloads BY <1>1 DEF Datagram
<1>3. addr' \in [Parties -> Parties] /\ mail' = mail
  BY <1>2 DEF DatagramInv, D!Takes, D!Sender
<1>4. heard' \in [Parties -> Parties \union {Nobody}] BY <1>2 DEF DatagramInv, D!Takes
<1>5. AddrIsHeard' BY <1>2 DEF DatagramInv, AddrIsHeard, D!Takes, D!Sender
<1>6. D!RepliesToSender'
  BY <1>3 DEF DatagramInv, AnswersOneSender, D!AnswersOneSender, D!RepliesToSender
<1>7. D!TextOfOneDatagram'
  <2> DEFINE text == D!Beginning(d.data, wanted)
  <2>1. answer' = D!Result(p, op, e, wanted, text) BY DEF D!Takes
  <2>2. answer'.p = p /\ answer'.text = text /\ answer'.wanted = wanted /\ answer'.err = e
    BY <2>1 DEF D!Result
  <2>3. d \in D!ToRead(p)' BY <1>1, <1>3 DEF D!ToRead
  <2>4. d.from = addr'[p] BY <1>2 DEF D!Takes, D!Sender, DatagramInv
  <2>5. text = D!Beginning(d.data, Len(text)) BY <1>2, BeginningOf
  <2>6. e = "PARTIAL" => Len(d.data) < wanted BY DEF D!RecvdErr
  <2>7. Len(text) < wanted \/ e = "PARTIAL" => text = d.data BY <1>2, <2>6, BeginningOf
  <2> HIDE DEF text
  <2> QED BY <2>2, <2>3, <2>4, <2>5, <2>7 DEF D!TextOfOneDatagram
<1> QED BY <1>1, <1>3, <1>4, <1>5, <1>6, <1>7
  DEF DatagramInv, AnswersOneSender, D!AnswersOneSender

\* A call that fails changes nothing, and has no text.
LEMMA FailsKeeps ==
  ASSUME DatagramInv, NEW p, NEW op, D!Fails(p, op)
  PROVE  DatagramInv'
BY DEF DatagramInv, AddrIsHeard, AnswersOneSender, D!AnswersOneSender, D!RepliesToSender,
       D!TextOfOneDatagram, D!Fails, D!Result

LEMMA SendToKeeps ==
  ASSUME DatagramInv, NEW p \in Parties, D!SendTo(p)
  PROVE  DatagramInv'
<1>1. CASE D!Fails(p, "send") BY <1>1, FailsKeeps
<1>2. CASE ~D!Fails(p, "send")
  <2>1. PICK data \in Payloads :
          mail' = mail \union {[from |-> p, to |-> addr[p], data |-> data, heard |-> heard[p]]}
    BY <1>2 DEF D!SendTo
  <2>2. addr' = addr /\ heard' = heard /\ answer' = D!Result(p, "send", "NONE", 0, <<>>)
    BY <1>2 DEF D!SendTo
  <2>3. addr[p] \in Parties /\ heard[p] \in Parties \union {Nobody}
    BY DEF DatagramInv
  <2>4. mail' \subseteq Datagram BY <2>1, <2>3 DEF DatagramInv, Datagram
  <2>5. D!RepliesToSender'
    BY <2>1, <2>3 DEF DatagramInv, AddrIsHeard, AnswersOneSender, D!AnswersOneSender, D!RepliesToSender
  <2>6. D!TextOfOneDatagram' BY <2>2 DEF D!TextOfOneDatagram, D!Result
  <2> QED BY <2>2, <2>4, <2>5, <2>6
    DEF DatagramInv, AddrIsHeard, AnswersOneSender, D!AnswersOneSender
<1> QED BY <1>1, <1>2

LEMMA DatagramStep ==
  ASSUME DatagramInv, D!Next
  PROVE  DatagramInv'
<1>1. PICK p \in Parties :
        D!SendTo(p) \/ D!RecvStrFrom(p) \/ \E wanted \in 1 .. BuffSize : D!RecvFrom(p, wanted)
  BY DEF D!Next
<1>2. BuffSize \in Nat BY NetConstants DEF NetConstants, SockConstants
<1>3. CASE D!SendTo(p) BY <1>3, SendToKeeps
<1>4. CASE D!RecvStrFrom(p)
  <2>1. CASE D!Fails(p, "recv_str_from") BY <2>1, FailsKeeps
  <2>2. ASSUME NEW d \in D!ToRead(p), D!NoString(p, d, "recv_str_from") PROVE DatagramInv'
    BY <2>2, TakesKeeps DEF D!NoString
  <2>3. ASSUME NEW d \in D!ToRead(p), NEW e \in {"NONE", "STD"},
               D!Takes(p, d, "recv_str_from", e, BuffSize)
        PROVE  DatagramInv'
    BY <1>2, <2>3, TakesKeeps
  <2> QED BY <1>4, <2>1, <2>2, <2>3 DEF D!RecvStrFrom
<1>5. ASSUME NEW wanted \in 1 .. BuffSize, D!RecvFrom(p, wanted) PROVE DatagramInv'
  <2>1. CASE D!Fails(p, "recv_from") BY <2>1, FailsKeeps
  <2>2. ASSUME NEW d \in D!ToRead(p), D!NoString(p, d, "recv_from") PROVE DatagramInv'
    BY <2>2, TakesKeeps DEF D!NoString
  <2>3. ASSUME NEW d \in D!ToRead(p),
               D!Takes(p, d, "recv_from", D!RecvdErr(wanted, d), wanted)
        PROVE  DatagramInv'
    <3>1. wanted \in Nat BY <1>2
    <3> QED BY <2>3, <3>1, TakesKeeps
  <2> QED BY <1>5, <2>1, <2>2, <2>3 DEF D!RecvFrom
<1> QED BY <1>1, <1>3, <1>4, <1>5

-----------------------------------------------------------------------------
(* Streams. *)

LEMMA MessageBytes ==
  ASSUME NEW m \in Messages
  PROVE  m \in Seq(Bytes)
<1>1. m \in Seq(Range(m)) BY NetConstants DEF NetConstants, SockConstants
<1>2. Range(m) \subseteq Bytes BY DEF Bytes
<1> QED BY <1>1, <1>2, SeqMonotonic

\* The first n elements of a sequence and the others.
LEMMA FirstAndFrom ==
  ASSUME NEW S, NEW s \in Seq(S), NEW n \in 0 .. Len(s)
  PROVE  /\ First(s, n) \in Seq(S) /\ Len(First(s, n)) = n
         /\ From(s, n) \in Seq(S)
         /\ First(s, n) \o From(s, n) = s
<1>1. First(s, n) \in Seq(S) /\ Len(First(s, n)) = n BY DEF First
<1>2. From(s, n) \in Seq(S) BY DEF From
<1>3. SubSeq(s, 1, n) \o SubSeq(s, n + 1, Len(s)) = SubSeq(s, 1, Len(s))
  <2>1. 1 \in 1 .. Len(s) + 1 /\ n \in 1 - 1 .. Len(s) /\ Len(s) \in n .. Len(s) OBVIOUS
  <2> QED BY <2>1, ConcatAdjacentSubSeq
<1> QED BY <1>1, <1>2, <1>3, SubSeqFull DEF First, From

\* What a sequence begins with it still begins with after more was added.
LEMMA BeginsWith ==
  \A s, t \in Seq(Bytes) :
    /\ s \o t \in Seq(Bytes) /\ Len(s \o t) = Len(s) + Len(t)
    /\ Stream!Beginning(s \o t, Len(s)) = s
<1> TAKE s, t \in Seq(Bytes)
<1>1. s \o t \in Seq(Bytes) /\ Len(s \o t) = Len(s) + Len(t) BY ConcatProperties
<1>2. SubSeq(s \o t, 1, Len(s)) \in Seq(Bytes) /\ Len(SubSeq(s \o t, 1, Len(s))) = Len(s)
  BY <1>1
<1>3. \A i \in 1 .. Len(s) : SubSeq(s \o t, 1, Len(s))[i] = s[i] BY <1>1
<1> QED BY <1>1, <1>2, <1>3, SeqEqual DEF Stream!Beginning

LEMMA Associates ==
  \A s, t, u \in Seq(Bytes) : (s \o t) \o u = s \o (t \o u)
BY ConcatAssociative

\* Bytes put on a stream, of which the sender is told, are a step of it.
LEMMA PutStep ==
  ASSUME TypeOK, OnTheWay, NEW s \in Streams, NEW bytes \in Seq(Bytes), Put(s, bytes, bytes)
  PROVE  /\ StreamStep /\ net' \in Kernels /\ net'.conns = net.conns
         /\ sent' \in [Streams -> Seq(Bytes)] /\ received' \in [Streams -> Seq(Bytes)]
<1>1. /\ net' = [net EXCEPT !.wire[s] = @ \o bytes]
      /\ sent' = [sent EXCEPT ![s] = @ \o bytes] /\ received' = received
  BY DEF Put
<1>2. sent[s] \in Seq(Bytes) /\ received[s] \in Seq(Bytes) /\ net.wire[s] \in Seq(Bytes)
  BY DEF TypeOK, Kernels
<1>3. net.wire[s] \o bytes \in Seq(Bytes) /\ sent[s] \o bytes \in Seq(Bytes)
  BY <1>2
<1>4. net' \in Kernels /\ net'.conns = net.conns /\ net'.wire = [net.wire EXCEPT ![s] = @ \o bytes]
  BY <1>1, <1>3 DEF TypeOK, Kernels
<1>5. sent' \in [Streams -> Seq(Bytes)] /\ received' \in [Streams -> Seq(Bytes)]
  BY <1>1, <1>3 DEF TypeOK
<1>6. Stream!Send(s)
  <2>1. sent'[s] = sent[s] \o bytes BY <1>1 DEF TypeOK
  <2>2. Stream!Beginning(sent'[s], Len(sent[s])) = sent[s] BY <1>2, <2>1, BeginsWith
  <2> QED BY <1>1, <2>1, <2>2 DEF Stream!Send
<1>7. OnTheWay'
  <2>1. (received[s] \o net.wire[s]) \o bytes = received[s] \o (net.wire[s] \o bytes)
    BY <1>2, Associates, Zenon
  <2>2. sent[s] = received[s] \o net.wire[s] BY DEF OnTheWay
  <2>3. net.wire \in [Streams -> Seq(Bytes)] /\ sent \in [Streams -> Seq(Bytes)] BY DEF TypeOK, Kernels
  <2>4. sent'[s] = received'[s] \o net'.wire[s] BY <1>1, <1>4, <2>1, <2>2, <2>3
  <2>5. \A t \in Streams \ {s} : sent'[t] = received'[t] \o net'.wire[t]
    BY <1>1, <1>4, <2>3 DEF OnTheWay
  <2> QED BY <2>4, <2>5 DEF OnTheWay
<1> QED BY <1>4, <1>5, <1>6, <1>7 DEF StreamStep, Stream!Next

\* So are the first bytes on the way, taken and given to the receiver.
LEMMA TakeStep ==
  ASSUME TypeOK, OnTheWay, NEW s \in Streams, NEW n \in 0 .. Len(net.wire[s]),
         Take(s, First(net.wire[s], n))
  PROVE  /\ StreamStep /\ net' \in Kernels /\ net'.conns = net.conns
         /\ sent' \in [Streams -> Seq(Bytes)] /\ received' \in [Streams -> Seq(Bytes)]
<1> DEFINE bytes == First(net.wire[s], n)
           rest  == From(net.wire[s], n)
<1>1. sent[s] \in Seq(Bytes) /\ received[s] \in Seq(Bytes) /\ net.wire[s] \in Seq(Bytes)
  BY DEF TypeOK, Kernels
<1>2. /\ bytes \in Seq(Bytes) /\ Len(bytes) = n /\ rest \in Seq(Bytes)
      /\ bytes \o rest = net.wire[s]
  BY <1>1, FirstAndFrom
<1>3. /\ net' = [net EXCEPT !.wire[s] = rest]
      /\ received' = [received EXCEPT ![s] = @ \o bytes] /\ sent' = sent
  BY <1>2 DEF Take
<1> HIDE DEF bytes, rest
<1>4. received[s] \o bytes \in Seq(Bytes) BY <1>1, <1>2
<1>5. net' \in Kernels /\ net'.conns = net.conns /\ net'.wire = [net.wire EXCEPT ![s] = rest]
  BY <1>2, <1>3 DEF TypeOK, Kernels
<1>6. sent' \in [Streams -> Seq(Bytes)] /\ received' \in [Streams -> Seq(Bytes)]
  BY <1>3, <1>4 DEF TypeOK
<1>7. sent[s] = (received[s] \o bytes) \o rest
  <2>1. (received[s] \o bytes) \o rest = received[s] \o (bytes \o rest)
    BY <1>1, <1>2, Associates, Zenon
  <2>2. sent[s] = received[s] \o net.wire[s] BY DEF OnTheWay
  <2> QED BY <1>2, <2>1, <2>2
<1>8. Stream!Next \/ UNCHANGED streams
  <2>1. CASE n = 0
    <3>1. bytes = <<>> BY <1>2, <2>1
    <3>2. received[s] \o bytes = received[s] BY <1>1, <3>1
    <3> QED BY <1>3, <3>2 DEF TypeOK, streams
  <2>2. CASE n # 0
    <3> Len(received[s]) \in Nat BY <1>1
    <3>1. Len(received[s] \o bytes) = Len(received[s]) + Len(bytes)
      BY <1>1, <1>2, BeginsWith, Zenon
    <3>2. /\ Len((received[s] \o bytes) \o rest) = Len(received[s] \o bytes) + Len(rest)
          /\ Stream!Beginning((received[s] \o bytes) \o rest, Len(received[s] \o bytes))
               = received[s] \o bytes
      BY <1>2, <1>4, BeginsWith, Zenon
    <3>3. Len(rest) \in Nat /\ Len(sent[s]) >= Len(received[s]) + n BY <1>2, <1>7, <3>1, <3>2
    <3>4. Len(received[s]) + n \in Len(received[s]) + 1 .. Len(sent[s])
      BY <1>1, <2>2, <3>1, <3>3
    <3>5. received' = [received EXCEPT ![s] = Stream!Beginning(sent[s], Len(received[s]) + n)]
      BY <1>2, <1>3, <1>7, <3>1, <3>2
    <3>6. Stream!Receive(s) BY <1>3, <3>4, <3>5 DEF Stream!Receive
    <3> QED BY <3>6 DEF Stream!Next
  <2> QED BY <2>1, <2>2
<1>9. OnTheWay'
  <2>1. net.wire \in [Streams -> Seq(Bytes)] /\ received \in [Streams -> Seq(Bytes)] BY DEF TypeOK, Kernels
  <2> QED BY <1>3, <1>5, <1>7, <2>1 DEF OnTheWay
<1> QED BY <1>5, <1>6, <1>8, <1>9 DEF StreamStep

-----------------------------------------------------------------------------
(* The calls of uga_sock, of which each system call may fail. *)

\* A call may stop here: the client loses no descriptor, the streams are as before.
Fine(c) ==
  /\ c \in Calls
  /\ DOMAIN c.fds = held \union ({c.fd} \ {-1})
  /\ c.net.wire = net.wire

\* It failed exactly if it has an error.
Told(c) == c.err \in {"NONE", "STD"} /\ (c.failed <=> c.err = "STD")

\* Without an error it has a socket in the state.
Ready(c, st) == c.err = "NONE" => c.fd # -1 /\ c.fds[c.fd].st = st

Outcome(c, st) == Fine(c) /\ Told(c) /\ Ready(c, st)

LEMMA FdTable ==
  ASSUME NEW t
  PROVE  t \in FdTables <=> DOMAIN t \subseteq Fds /\ t \in [DOMAIN t -> Sockets]
BY DEF FdTables

LEMMA SocketType ==
  ASSUME NEW st \in {"created", "bound", "listening"}
  PROVE  Socket(st, 0) \in Sockets /\ Socket(st, 0).st = st
<1>1. MaxConns \in Nat BY NetConstants DEF NetConstants, SockConstants
<1> QED BY <1>1 DEF Socket, Sockets

LEMMA ConnectionType ==
  ASSUME NEW k \in Conns
  PROVE  Socket("connected", k) \in Sockets /\ Socket("connected", k).st = "connected"
<1>1. MaxConns \in Nat BY NetConstants DEF NetConstants, SockConstants
<1> QED BY <1>1 DEF Socket, Sockets, Conns

LEMMA BeginFine ==
  ASSUME TypeOK, DOMAIN fds = held, NEW f \in held \union {-1}
  PROVE  /\ Fine(Begin(f)) /\ Fine(Clear(Begin(f)))
         /\ Told(Clear(Begin(f))) /\ Clear(Begin(f)).err = "NONE" /\ Clear(Begin(f)).fd = f
         /\ Clear(Begin(f)).fds = fds /\ Clear(Begin(f)).net = net
<1>1. held \subseteq Fds BY FdTable DEF TypeOK
<1>2. held = held \union ({f} \ {-1})
  <2>1. -1 \notin held BY <1>1 DEF Fds
  <2> QED BY <2>1
<1>3. Begin(f) \in Calls BY <1>1 DEF Begin, Calls, TypeOK
<1>4. Clear(Begin(f)) \in Calls BY <1>3 DEF Calls, Clear, Errtypes
<1> QED BY <1>2, <1>3, <1>4 DEF Fine, Told, Begin, Clear

\* A failed system call.
LEMMA StdErrorFine ==
  ASSUME NEW c, Fine(c)
  PROVE  /\ Fine(StdError(c)) /\ Told(StdError(c)) /\ StdError(c).err = "STD"
         /\ StdError(c).fd = c.fd
BY DEF Fine, Calls, StdError, Failed, Told, Errtypes

\* A system call on the socket of the call.
LEMMA BecomesFine ==
  ASSUME NEW c, Fine(c), Told(c), c.err = "NONE", c.fd # -1,
         NEW sock \in Sockets, NEW from, NEW d \in Becomes(c, from, sock)
  PROVE  Outcome(d, sock.st) /\ d.net = c.net
<1>1. CASE d = StdError(c)
  <2>1. Fine(d) /\ Told(d) /\ d.err = "STD" BY <1>1, StdErrorFine
  <2>2. d.net = c.net BY <1>1 DEF Fine, Calls, StdError, Failed
  <2> QED BY <2>1, <2>2 DEF Outcome, Ready
<1>2. CASE d = [c EXCEPT !.fds[c.fd] = sock]
  <2>1. c.fd \in DOMAIN c.fds BY DEF Fine
  <2>2. c.fds \in FdTables BY DEF Fine, Calls
  <2>3. d.fds = [c.fds EXCEPT ![c.fd] = sock] BY <1>2 DEF Fine, Calls
  <2>4. d.fds \in FdTables /\ DOMAIN d.fds = DOMAIN c.fds /\ d.fds[c.fd] = sock
    BY <2>1, <2>2, <2>3, FdTable
  <2>5. d = [c EXCEPT !.fds = d.fds] BY <1>2, <2>3 DEF Fine, Calls
  <2>6. /\ d.fd = c.fd /\ d.err = c.err /\ d.failed = c.failed /\ d.net = c.net
        /\ d \in Calls
    BY <2>4, <2>5 DEF Fine, Calls
  <2> QED BY <2>4, <2>6 DEF Outcome, Fine, Told, Ready
<1> QED BY <1>1, <1>2 DEF Becomes

\* A descriptor more, for a call that is to return it.
LEMMA NewSocketFine ==
  ASSUME NEW c \in Calls, DOMAIN c.fds = held, c.net.wire = net.wire, Told(c), c.err = "NONE",
         NEW sock \in Sockets, NEW d \in NewSocket(c, sock)
  PROVE  Outcome(d, sock.st)
<1>1. PICK f \in Free(c) :
        d = [c EXCEPT !.fd = f,
                      !.fds = [g \in DOMAIN @ \union {f} |-> IF g = f THEN sock ELSE @[g]]]
  BY DEF NewSocket
<1> DEFINE t == [g \in DOMAIN c.fds \union {f} |-> IF g = f THEN sock ELSE c.fds[g]]
<1>2. f \in Fds /\ f # -1 BY DEF Free, Fds
<1>3. c.fds \in FdTables BY DEF Calls
<1>4. DOMAIN t = held \union {f} /\ t[f] = sock OBVIOUS
<1>5. t \in FdTables BY <1>2, <1>3, FdTable
<1>6. d.fds = t /\ d.fd = f /\ d.err = c.err /\ d.failed = c.failed /\ d.net = c.net
  BY <1>1 DEF Calls
<1>7. d = [c EXCEPT !.fd = f, !.fds = t] BY <1>1 DEF Calls
<1> HIDE DEF t
<1>8. d \in Calls BY <1>2, <1>5, <1>7 DEF Calls
<1> QED BY <1>2, <1>4, <1>6, <1>8 DEF Outcome, Fine, Told, Ready

\* The parts of the calls.
LEMMA AddrinfoFine ==
  ASSUME NEW c, Fine(c), c.failed = FALSE, NEW a \in AddrinfoGet(c)
  PROVE  Fine(a) /\ Told(a) /\ a.fd = c.fd /\ a.fds = c.fds
<1>1. PICK b \in {Clear(c), [Failed(c) EXCEPT !.err = "STD"]} :
        a = b \/ a = [b EXCEPT !.errno = TRUE]
  BY DEF AddrinfoGet
<1>2. c \in Calls BY DEF Fine
<1>3. CASE b = Clear(c)
  <2>1. b \in Calls /\ b.net = c.net /\ b.fd = c.fd /\ b.fds = c.fds
    BY <1>2, <1>3 DEF Calls, Clear, Errtypes
  <2>2. a \in Calls /\ a.net = b.net /\ a.fd = b.fd /\ a.fds = b.fds
    BY <1>1, <2>1 DEF Calls
  <2>3. a.failed = FALSE /\ a.err = "NONE" BY <1>1, <1>2, <1>3 DEF Calls, Clear
  <2> QED BY <2>1, <2>2, <2>3 DEF Fine, Told
<1>4. CASE b = [Failed(c) EXCEPT !.err = "STD"]
  <2>1. b \in Calls /\ b.net = c.net /\ b.fd = c.fd /\ b.fds = c.fds
    BY <1>2, <1>4 DEF Calls, Failed, Errtypes
  <2>2. a \in Calls /\ a.net = b.net /\ a.fd = b.fd /\ a.fds = b.fds
    BY <1>1, <2>1 DEF Calls
  <2>3. a.failed = TRUE /\ a.err = "STD" BY <1>1, <1>2, <1>4 DEF Calls, Failed
  <2> QED BY <2>1, <2>2, <2>3 DEF Fine, Told
<1> QED BY <1>1, <1>3, <1>4

LEMMA CreateFine ==
  ASSUME TypeOK, DOMAIN fds = held, NEW d \in Create(Begin(-1))
  PROVE  Outcome(d, "created")
<1> DEFINE c == [Begin(-1) EXCEPT !.fd = -1]
<1>1. Fine(Begin(-1)) BY BeginFine
<1>2. Begin(-1).fd = -1 /\ Begin(-1).failed = FALSE BY DEF Begin
<1>3. Fine(c) /\ c.failed = FALSE /\ c.fd = -1 BY <1>1, <1>2 DEF Fine, Calls
<1> HIDE DEF c
<1>4. ASSUME NEW a \in AddrinfoGet(c)
      PROVE  Fine(a) /\ Told(a) /\ a.fd = -1
  BY <1>3, <1>4, AddrinfoFine
<1>5. ASSUME NEW a \in Continued(AddrinfoGet(c)), d \in socket(a)
      PROVE  Outcome(d, "created")
  <2>1. Fine(a) /\ Told(a) /\ a.fd = -1 /\ a.err = "NONE" BY <1>4, <1>5 DEF Continued, Stopped
  <2>2. CASE d = StdError(a) BY <2>1, <2>2, StdErrorFine DEF Outcome, Ready
  <2>3. CASE d \in NewSocket(a, Socket("created", 0))
    <3>1. a \in Calls /\ DOMAIN a.fds = held /\ a.net.wire = net.wire BY <2>1 DEF Fine
    <3> QED BY <2>1, <2>3, <3>1, SocketType, NewSocketFine
  <2> QED BY <1>5, <2>2, <2>3 DEF socket
<1>6. CASE d \in Stopped(AddrinfoGet(c))
  BY <1>4, <1>6 DEF Stopped, Outcome, Ready
<1> QED BY <1>5, <1>6 DEF Create, c

\* One after another, where one that failed is the last.
LEMMA ThenFine ==
  ASSUME NEW c, Outcome(c, "created") \/ Outcome(c, "bound"), c.err = "NONE"
  PROVE  Fine(c) /\ Told(c) /\ c.fd # -1
BY DEF Outcome, Ready

LEMMA CreateAndBindFine ==
  ASSUME TypeOK, DOMAIN fds = held, NEW d \in CreateAndBind(Begin(-1))
  PROVE  Outcome(d, "bound")
<1>1. ASSUME NEW a \in Continued(Create(Begin(-1))), d \in bind(a)
      PROVE  Outcome(d, "bound")
  <2>1. Fine(a) /\ Told(a) /\ a.fd # -1 /\ a.err = "NONE"
    BY <1>1, CreateFine, ThenFine DEF Continued, Stopped
  <2> QED BY <1>1, <2>1, SocketType, BecomesFine DEF bind
<1>2. CASE d \in Stopped(Create(Begin(-1)))
  BY <1>2, CreateFine DEF Stopped, Outcome, Ready
<1> QED BY <1>1, <1>2 DEF CreateAndBind

LEMMA CreateAndListenFine ==
  ASSUME TypeOK, DOMAIN fds = held, NEW d \in CreateAndListen(Begin(-1))
  PROVE  Outcome(d, "listening")
<1>1. ASSUME NEW a \in Continued(CreateAndBind(Begin(-1))), d \in listen(a)
      PROVE  Outcome(d, "listening")
  <2>1. Fine(a) /\ Told(a) /\ a.fd # -1 /\ a.err = "NONE"
    BY <1>1, CreateAndBindFine, ThenFine DEF Continued, Stopped
  <2> QED BY <1>1, <2>1, SocketType, BecomesFine DEF listen
<1>2. CASE d \in Stopped(CreateAndBind(Begin(-1)))
  BY <1>2, CreateAndBindFine DEF Stopped, Outcome, Ready
<1> QED BY <1>1, <1>2 DEF CreateAndListen

\* A connection made is counted.
LEMMA ConnectFine ==
  ASSUME NEW c, Fine(c), Told(c), c.err = "NONE", c.fd # -1, NEW d \in connect(c)
  PROVE  Outcome(d, "connected")
<1> DEFINE n == c.net.conns + 1
<1>1. c.net \in Kernels /\ MaxConns \in Nat
  BY NetConstants DEF Fine, Calls, NetConstants, SockConstants
<1>2. CASE ~(c.net.conns < MaxConns)
  <2>1. d = StdError(c)
    BY <1>2, StdErrorFine DEF connect
  <2> QED BY <2>1, StdErrorFine DEF Outcome, Ready
<1>3. CASE c.net.conns < MaxConns
  <2>1. n \in Conns BY <1>1, <1>3 DEF Kernels, Conns
  <2>2. PICK e \in Becomes(c, "created", Socket("connected", n)) :
          d = IF e.err # "NONE" THEN e ELSE [e EXCEPT !.net.conns = @ + 1]
    BY <1>3 DEF connect
  <2>3. Outcome(e, "connected") /\ e.net = c.net BY <2>1, <2>2, ConnectionType, BecomesFine
  <2>4. CASE e.err # "NONE" BY <2>2, <2>3, <2>4
  <2>5. CASE e.err = "NONE"
    <3>1. e \in Calls /\ e.net.conns = c.net.conns BY <2>3 DEF Outcome, Fine
    <3>2. d = [e EXCEPT !.net = [e.net EXCEPT !.conns = n]] BY <2>2, <2>5, <3>1 DEF Calls
    <3>3. [e.net EXCEPT !.conns = n] \in Kernels /\ [e.net EXCEPT !.conns = n].wire = e.net.wire
      BY <1>1, <2>1, <2>3 DEF Kernels, Conns
    <3>4. /\ d \in Calls /\ d.net.wire = e.net.wire /\ d.fds = e.fds /\ d.fd = e.fd
          /\ d.err = e.err /\ d.failed = e.failed
      BY <3>1, <3>2, <3>3 DEF Calls
    <3> QED BY <2>3, <3>4 DEF Outcome, Fine, Told, Ready
  <2> QED BY <2>4, <2>5
<1> QED BY <1>2, <1>3

LEMMA CreateAndConnectFine ==
  ASSUME TypeOK, DOMAIN fds = held, NEW d \in CreateAndConnect(Begin(-1))
  PROVE  Outcome(d, "connected")
<1>1. ASSUME NEW a \in Continued(Create(Begin(-1))), d \in connect(a)
      PROVE  Outcome(d, "connected")
  <2>1. Fine(a) /\ Told(a) /\ a.fd # -1 /\ a.err = "NONE"
    BY <1>1, CreateFine, ThenFine DEF Continued, Stopped
  <2> QED BY <1>1, <2>1, ConnectFine
<1>2. CASE d \in Stopped(Create(Begin(-1)))
  BY <1>2, CreateFine DEF Stopped, Outcome, Ready
<1> QED BY <1>1, <1>2 DEF CreateAndConnect

\* The connection that waited longest gets a socket, and the listening one stays.
LEMMA AcceptFine ==
  ASSUME TypeOK, DOMAIN fds = held, NEW f \in held, NEW d \in Accept(Clear(Begin(f)))
  PROVE  Outcome(d, "connected")
<1> DEFINE c == Clear(Begin(f))
<1>1. Fine(c) /\ Told(c) /\ c.err = "NONE" /\ c.fd = f /\ c.fds = fds /\ c.net = net
  BY BeginFine
<1>2. f \in Fds /\ fds \in FdTables /\ fds[f] \in Sockets BY FdTable DEF TypeOK
<1>3. CASE d = [StdError(c) EXCEPT !.fd = -1]
  <2>1. Fine(StdError(c)) /\ Told(StdError(c)) /\ StdError(c).err = "STD" /\ StdError(c).fd = f
    BY <1>1, StdErrorFine
  <2>2. StdError(c) \in Calls BY <2>1 DEF Fine
  <2>3. /\ d \in Calls /\ d.fd = -1 /\ d.err = "STD" /\ d.failed = StdError(c).failed
        /\ d.fds = StdError(c).fds /\ d.net = StdError(c).net
    BY <1>3, <2>1, <2>2 DEF Calls
  <2>4. -1 \notin held /\ held \union {f} = held BY FdTable DEF TypeOK, Fds
  <2> QED BY <2>1, <2>3, <2>4 DEF Outcome, Fine, Told, Ready
<1>4. CASE fds[f].pending # <<>> /\
           d \in NewSocket([Clear(c) EXCEPT !.fds[c.fd].pending = Tail(@)],
                           Socket("connected", Head(fds[f].pending)))
  <2> DEFINE waiting == fds[f].pending
             b == [Clear(c) EXCEPT !.fds[c.fd].pending = Tail(@)]
             t == [fds EXCEPT ![f].pending = Tail(waiting)]
  <2>1. Head(waiting) \in Conns /\ Tail(waiting) \in Seq(Conns) BY <1>2, <1>4 DEF Sockets
  <2>2. c \in Calls BY <1>1 DEF Fine
  <2>3. t \in FdTables /\ DOMAIN t = held
    <3>1. [fds[f] EXCEPT !.pending = Tail(waiting)] \in Sockets BY <1>2, <2>1 DEF Sockets
    <3>2. t = [fds EXCEPT ![f] = [fds[f] EXCEPT !.pending = Tail(waiting)]] BY <1>2, FdTable
    <3> QED BY <1>2, <3>1, <3>2, FdTable
  <2>4. b = [c EXCEPT !.fds = t] BY <1>1, <2>2 DEF Calls, Clear
  <2> HIDE DEF t
  <2>5. b \in Calls /\ b.fds = t /\ b.net = c.net /\ b.err = c.err /\ b.failed = c.failed
    BY <2>2, <2>3, <2>4 DEF Calls
  <2>6. Told(b) /\ b.err = "NONE" /\ b.net.wire = net.wire BY <1>1, <2>5 DEF Told
  <2> HIDE DEF b
  <2>7. d \in NewSocket(b, Socket("connected", Head(waiting))) BY <1>4 DEF b
  <2> QED BY <2>1, <2>3, <2>5, <2>6, <2>7, NewSocketFine, ConnectionType
<1> QED BY <1>1, <1>3, <1>4 DEF Accept

\* The parts of calls that leave descriptors and kernel alone.
LEMMA PlainFine ==
  ASSUME NEW c, Fine(c)
  PROVE  /\ Fine(Clear(c)) /\ Clear(c).err = "NONE" /\ Clear(c).failed = c.failed
         /\ Clear(c).errno = c.errno
         /\ Fine(Failed(c)) /\ Failed(c).failed = TRUE /\ Failed(c).err = c.err
BY DEF Fine, Calls, Clear, Failed, Errtypes

LEMMA ErrSetFine ==
  ASSUME NEW c, Fine(c)
  PROVE  LET d == [c EXCEPT !.err = "STD"] IN
           Fine(d) /\ d.failed = c.failed /\ d.errno = c.errno /\ d.err = "STD"
BY DEF Fine, Calls, Errtypes

LEMMA ErrnoSetFine ==
  ASSUME NEW c, Fine(c)
  PROVE  LET d == [c EXCEPT !.errno = TRUE] IN
           Fine(d) /\ d.failed = c.failed /\ d.err = c.err
BY DEF Fine, Calls

LEMMA CheckErrnoFine ==
  ASSUME NEW c, Fine(c)
  PROVE  /\ Fine(CheckErrno(c)) /\ CheckErrno(c).failed = c.failed
         /\ \/ CheckErrno(c).err = c.err
            \/ CheckErrno(c).errno /\ CheckErrno(c).err = "STD"
<1>1. CASE c.errno
  <2>1. CheckErrno(c) = [c EXCEPT !.err = "STD"] BY <1>1 DEF CheckErrno
  <2> QED BY <1>1, <2>1, ErrSetFine
<1>2. CASE ~c.errno
  <2>1. CheckErrno(c) = c BY <1>2 DEF CheckErrno
  <2> QED BY <2>1
<1> QED BY <1>1, <1>2

-----------------------------------------------------------------------------
(* The steps of a client. *)

\* What FailureTold asks of a call that is neither a send nor a receive.
Honest(op, c) ==
  /\ c.failed /\ c.err = "NONE" => op \in {"get_nameinfo", "reverse_lookup"}
  /\ ~c.failed /\ c.err = "STD" => op \in ClearsNothing \/ (op = "from_str" /\ c.errno)

LEMMA ToldIsHonest ==
  ASSUME NEW op, NEW c, Told(c)
  PROVE  Honest(op, c)
BY DEF Told, Honest

LEMMA PromisedStates ==
  /\ DOMAIN Promised = {"create", "create_and_bind", "bind", "create_and_listen", "listen",
                        "create_and_connect", "connect", "accept"}
  /\ Promised["create"] = "created"
  /\ Promised["create_and_bind"] = "bound" /\ Promised["bind"] = "bound"
  /\ Promised["create_and_listen"] = "listening" /\ Promised["listen"] = "listening"
  /\ Promised["create_and_connect"] = "connected" /\ Promised["connect"] = "connected"
  /\ Promised["accept"] = "connected"
BY DEF Promised

\* A call whose outcomes are fine keeps the invariant.
LEMMA ReturnsStep ==
  ASSUME ConnectionInv, NEW op, op \notin Recvs \union {"send"},
         NEW outcomes, Returns(op, outcomes),
         \A c \in outcomes :
           Fine(c) /\ Honest(op, c) /\ (op \in DOMAIN Promised => Ready(c, Promised[op]))
  PROVE  ConnectionInv' /\ StreamStep
<1>1. PICK c \in outcomes :
        /\ fds' = c.fds /\ net' = c.net /\ err' = c.err /\ errno' = c.errno
        /\ ret' = [Result(op, c.failed) EXCEPT !.fd = c.fd]
        /\ held' = held \union ({c.fd} \ {-1})
        /\ UNCHANGED streams
  BY DEF Returns
<1>2. Fine(c) /\ Honest(op, c) /\ (op \in DOMAIN Promised => Ready(c, Promised[op])) OBVIOUS
<1>3. ret'.op = op /\ ret'.failed = c.failed /\ ret'.fd = c.fd BY <1>1 DEF Result
<1>4. TypeOK' BY <1>1, <1>2 DEF ConnectionInv, TypeOK, Fine, Calls, streams
<1>5. OnTheWay' BY <1>1, <1>2 DEF ConnectionInv, OnTheWay, Fine, streams
<1>6. ClientHasSockets'
  <2>1. (DOMAIN fds = held)' BY <1>1, <1>2 DEF Fine
  <2>2. (ret.op \in DOMAIN Promised /\ err = "NONE" =>
           ret.fd \in held /\ fds[ret.fd].st = Promised[ret.op])'
    <3> SUFFICES ASSUME op \in DOMAIN Promised, c.err = "NONE"
                 PROVE  c.fd \in held' /\ c.fds[c.fd].st = Promised[op]
      BY <1>1, <1>3 DEF Promised
    <3> QED BY <1>1, <1>2 DEF Ready
  <2> QED BY <2>1, <2>2 DEF ClientHasSockets
<1>7. FailureTold'
  BY <1>1, <1>2, <1>3 DEF FailureTold, FailsSilently, MayComplain, Honest, ClearsNothing, Recvs
<1>8. StreamStep BY <1>1, <1>5 DEF StreamStep
<1> QED BY <1>4, <1>5, <1>6, <1>7, <1>8 DEF ConnectionInv

LEMMA HeldFds ==
  ASSUME ConnectionInv
  PROVE  /\ TypeOK /\ DOMAIN fds = held /\ held \subseteq Fds /\ -1 \notin held
         /\ fds \in [held -> Sockets]
BY FdTable DEF ConnectionInv, ClientHasSockets, TypeOK, Fds

LEMMA SockCreateStep ==
  ASSUME ConnectionInv, SockCreate
  PROVE  ConnectionInv' /\ StreamStep
<1>1. TypeOK /\ DOMAIN fds = held BY HeldFds
<1> USE <1>1, PromisedStates, ToldIsHonest DEF Outcome
<1>2. CASE Returns("create", Create(Begin(-1)))
  BY <1>2, CreateFine, ReturnsStep DEF Recvs
<1>3. CASE Returns("create_and_bind", CreateAndBind(Begin(-1)))
  BY <1>3, CreateAndBindFine, ReturnsStep DEF Recvs
<1>4. CASE Returns("create_and_listen", CreateAndListen(Begin(-1)))
  BY <1>4, CreateAndListenFine, ReturnsStep DEF Recvs
<1>5. CASE Returns("create_and_connect", CreateAndConnect(Begin(-1)))
  BY <1>5, CreateAndConnectFine, ReturnsStep DEF Recvs
<1> QED BY <1>2, <1>3, <1>4, <1>5 DEF SockCreate

LEMMA OnSocketStep ==
  ASSUME ConnectionInv, NEW f \in held,
         SockBind(f) \/ SockListen(f) \/ SockConnect(f) \/ SockAccept(f)
  PROVE  ConnectionInv' /\ StreamStep
<1> DEFINE c == Clear(Begin(f))
<1>1. TypeOK /\ DOMAIN fds = held /\ f # -1 BY HeldFds
<1>2. Fine(c) /\ Told(c) /\ c.err = "NONE" /\ c.fd # -1 BY <1>1, BeginFine
<1> HIDE DEF c
<1> USE <1>1, PromisedStates, ToldIsHonest DEF Outcome
<1>3. CASE SockBind(f)
  <2>1. \A d \in bind(c) : Outcome(d, "bound") BY <1>2, SocketType, BecomesFine DEF bind
  <2> QED BY <1>3, <2>1, ReturnsStep DEF SockBind, Recvs, c
<1>4. CASE SockListen(f)
  <2>1. \A d \in listen(c) : Outcome(d, "listening") BY <1>2, SocketType, BecomesFine DEF listen
  <2> QED BY <1>4, <2>1, ReturnsStep DEF SockListen, Recvs, c
<1>5. CASE SockConnect(f)
  <2>1. \A d \in connect(c) : Outcome(d, "connected") BY <1>2, ConnectFine
  <2> QED BY <1>5, <2>1, ReturnsStep DEF SockConnect, Recvs, c
<1>6. CASE SockAccept(f)
  <2>1. \A d \in Accept(c) : Outcome(d, "connected") BY AcceptFine DEF c
  <2> QED BY <1>6, <2>1, ReturnsStep DEF SockAccept, Recvs, c
<1> QED BY <1>3, <1>4, <1>5, <1>6

\* What a socket was can have no more bytes sent.
LEMMA EndsType ==
  ASSUME ConnectionInv, NEW f \in held
  PROVE  Ends(f) \subseteq Streams
<1>1. fds[f] \in Sockets BY HeldFds
<1>2. CASE fds[f].st = "connected" BY <1>1, <1>2 DEF Ends, Sockets, Streams
<1>3. CASE fds[f].st # "connected"
  <2>1. Range(fds[f].pending) \subseteq Conns
    <3>1. fds[f].pending \in Seq(Conns) BY <1>1 DEF Sockets
    <3> QED BY <3>1 DEF Range
  <2> QED BY <1>3, <2>1 DEF Ends, Streams
<1> QED BY <1>2, <1>3

LEMMA SockCloseStep ==
  ASSUME ConnectionInv, NEW f \in held, SockClose(f)
  PROVE  ConnectionInv' /\ StreamStep
<1>1. TypeOK /\ DOMAIN fds = held /\ held \subseteq Fds /\ fds \in [held -> Sockets] BY HeldFds
<1>2. /\ fds' = [g \in held \ {f} |-> fds[g]] /\ held' = held \ {f}
      /\ net' = [net EXCEPT !.ended = @ \union Ends(f)]
      /\ \/ ret' = Result("close", FALSE) /\ err' = err /\ errno' = errno
         \/ ret' = Result("close", TRUE) /\ err' = "STD" /\ errno' = TRUE
      /\ sent' = sent /\ received' = received
  BY <1>1 DEF SockClose, Restrict, streams
<1>3. DOMAIN fds' = held' /\ fds' \in FdTables BY <1>1, <1>2, FdTable
<1>4. net' \in Kernels /\ net'.wire = net.wire BY <1>1, <1>2, EndsType DEF TypeOK, Kernels
<1>5. ret'.op = "close" /\ (ret'.failed => err' = "STD") BY <1>2 DEF Result
<1>6. TypeOK'
  <2>1. err' \in Errtypes /\ errno' \in BOOLEAN BY <1>1, <1>2, Zenon DEF TypeOK, Errtypes
  <2> QED BY <1>1, <1>2, <1>3, <1>4, <2>1 DEF TypeOK
<1>7. OnTheWay' BY <1>2, <1>4 DEF ConnectionInv, OnTheWay
<1>8. ClientHasSockets' BY <1>3, <1>5 DEF ClientHasSockets, Promised
<1>9. FailureTold' BY <1>5 DEF FailureTold, MayComplain, ClearsNothing
<1> QED BY <1>2, <1>6, <1>7, <1>8, <1>9 DEF ConnectionInv, StreamStep, streams

LEMMA SockShutdownStep ==
  ASSUME ConnectionInv, NEW f \in held, SockShutdown(f)
  PROVE  ConnectionInv' /\ StreamStep
<1> DEFINE c == Begin(f)
           d == [c EXCEPT !.net.ended = @ \union Ends(f)]
<1>1. TypeOK /\ DOMAIN fds = held BY HeldFds
<1>2. Fine(c) BY <1>1, BeginFine
<1>3. c.net = net /\ c.failed = FALSE BY DEF Begin
<1>4. SockShutdown(f) => Returns("shutdown", {StdError(c)}) \/ Returns("shutdown", {d})
  BY DEF SockShutdown
<1> HIDE DEF c
<1>5. Fine(d) /\ d.failed = FALSE
  <2>1. c \in Calls /\ Ends(f) \subseteq Streams BY <1>2, EndsType DEF Fine
  <2>2. d = [c EXCEPT !.net = [c.net EXCEPT !.ended = @ \union Ends(f)]] BY <2>1 DEF Calls
  <2>3. [c.net EXCEPT !.ended = @ \union Ends(f)] \in Kernels BY <1>1, <1>3, <2>1 DEF TypeOK, Kernels
  <2>4. [c.net EXCEPT !.ended = @ \union Ends(f)].wire = net.wire BY <1>1, <1>3 DEF TypeOK, Kernels
  <2> HIDE DEF d
  <2> QED BY <1>2, <1>3, <2>1, <2>2, <2>3, <2>4 DEF Fine, Calls
<1> HIDE DEF d
<1>6. Honest("shutdown", d) /\ Honest("shutdown", StdError(c))
  <2>1. Honest("shutdown", d) BY <1>5 DEF Honest, ClearsNothing
  <2> QED BY <1>2, <2>1, StdErrorFine, ToldIsHonest
<1>7. "shutdown" \notin DOMAIN Promised /\ "shutdown" \notin Recvs \union {"send"}
  BY PromisedStates DEF Recvs
<1>8. CASE Returns("shutdown", {StdError(c)})
  BY <1>2, <1>6, <1>7, <1>8, StdErrorFine, ReturnsStep
<1>9. CASE Returns("shutdown", {d}) BY <1>5, <1>6, <1>7, <1>9, ReturnsStep
<1> QED BY <1>4, <1>8, <1>9

\* The calls that return no socket.
LEMMA PlainStep ==
  ASSUME ConnectionInv, NEW op \in {"reuse", "set_ttl", "from_str", "addrinfo_get", "to_str",
                                    "lookup", "get_nameinfo", "reverse_lookup"},
         NEW outcomes, Returns(op, outcomes), \A c \in outcomes : Fine(c) /\ Honest(op, c)
  PROVE  ConnectionInv' /\ StreamStep
<1>1. op \notin Recvs \union {"send"} /\ op \notin DOMAIN Promised BY PromisedStates DEF Recvs
<1> QED BY <1>1, ReturnsStep

LEMMA SockOptionStep ==
  ASSUME ConnectionInv, SockOption
  PROVE  ConnectionInv' /\ StreamStep
<1> DEFINE c == Begin(-1)
<1>1. TypeOK /\ DOMAIN fds = held BY HeldFds
<1>2. Fine(c) /\ c.failed = FALSE BY <1>1, BeginFine DEF Begin
<1> HIDE DEF c
<1>3. Fine(Clear(c)) /\ Honest("reuse", Clear(c)) BY <1>2, PlainFine DEF Honest
<1> Fine(StdError(c)) /\ \A op : Honest(op, StdError(c)) BY <1>2, StdErrorFine, ToldIsHonest
<1> Honest("set_ttl", c) BY <1>2 DEF Honest, ClearsNothing
<1>4. CASE Returns("reuse", {Clear(c), StdError(c)}) BY <1>3, <1>4, PlainStep
<1>5. CASE Returns("set_ttl", {c, StdError(c)}) BY <1>2, <1>3, <1>5, PlainStep
<1> QED BY <1>4, <1>5 DEF SockOption, c

LEMMA FromStrStep ==
  ASSUME ConnectionInv, FromStr
  PROVE  ConnectionInv' /\ StreamStep
<1> DEFINE c == Clear(Begin(-1))
           bad == [Failed(c) EXCEPT !.err = "STD"]
<1>1. TypeOK /\ DOMAIN fds = held BY HeldFds
<1>2. Fine(c) /\ c.err = "NONE" /\ c.failed = FALSE BY <1>1, BeginFine DEF Begin, Clear
<1>3. Fine(bad) /\ bad.failed = TRUE /\ bad.err = "STD"
  <2>1. Fine(Failed(c)) /\ Failed(c).failed = TRUE BY <1>2, PlainFine
  <2> QED BY <2>1, ErrSetFine
<1>4. Returns("from_str", {CheckErrno(bad), CheckErrno(c)}) BY DEF FromStr
<1> HIDE DEF c, bad
<1>5. Fine(CheckErrno(bad)) /\ Honest("from_str", CheckErrno(bad))
  BY <1>3, CheckErrnoFine DEF Honest
<1>6. Fine(CheckErrno(c)) /\ Honest("from_str", CheckErrno(c))
  BY <1>2, CheckErrnoFine DEF Honest
<1> QED BY <1>4, <1>5, <1>6, PlainStep

LEMMA NameinfoFine ==
  ASSUME NEW c, Fine(c), c.failed = FALSE, NEW op \in {"get_nameinfo", "reverse_lookup"},
         op = "reverse_lookup" => c.err = "NONE", NEW d \in GetNameinfo(c)
  PROVE  Fine(d) /\ Honest(op, d)
<1> DEFINE b == Failed(c)
           e == [b EXCEPT !.errno = TRUE]
<1>1. Fine(b) /\ b.failed = TRUE BY PlainFine
<1>2. Fine(e) /\ e.failed = TRUE BY <1>1, ErrnoSetFine
<1>3. d = c \/ d = CheckErrno(b) \/ d = CheckErrno(e) BY DEF GetNameinfo
<1> HIDE DEF b, e
<1>4. CASE d = c
  <2>1. CASE op = "get_nameinfo" BY <1>4, <2>1 DEF Honest, ClearsNothing
  <2>2. CASE op = "reverse_lookup" BY <1>4, <2>2 DEF Honest
  <2> QED BY <1>4, <2>1, <2>2
<1>5. CASE d = CheckErrno(b) \/ d = CheckErrno(e)
  <2>1. Fine(d) /\ d.failed = TRUE BY <1>1, <1>2, <1>5, CheckErrnoFine
  <2> QED BY <2>1 DEF Honest
<1> QED BY <1>3, <1>4, <1>5

LEMMA LookupStep ==
  ASSUME ConnectionInv, Lookup
  PROVE  ConnectionInv' /\ StreamStep
<1> DEFINE c     == Begin(-1)
           found == AddrinfoGet(c)
<1>1. TypeOK /\ DOMAIN fds = held BY HeldFds
<1>2. Fine(c) /\ c.failed = FALSE BY <1>1, BeginFine DEF Begin
<1>3. \/ Returns("addrinfo_get", found)
      \/ Returns("to_str", ToStr(c))
      \/ Returns("lookup", Stopped(found) \union UNION {ToStr(a) : a \in Continued(found)})
      \/ Returns("get_nameinfo", GetNameinfo(c))
      \/ Returns("reverse_lookup",
                 Stopped(found) \union UNION {GetNameinfo(a) : a \in Continued(found)})
  BY DEF Lookup
<1> HIDE DEF c
<1>4. \A a \in found : Fine(a) /\ Told(a) BY <1>2, AddrinfoFine
<1> HIDE DEF found
<1>5. \A op, a : a \in Stopped(found) => Fine(a) /\ Honest(op, a)
  BY <1>4, ToldIsHonest DEF Stopped
<1>6. \A a \in Continued(found) : Fine(a) /\ a.failed = FALSE /\ a.err = "NONE"
  <2> TAKE a \in Continued(found)
  <2>1. a \in found /\ a.err = "NONE" BY DEF Continued, Stopped
  <2>2. Fine(a) /\ Told(a) BY <1>4, <2>1
  <2> QED BY <2>1, <2>2 DEF Told, Fine, Calls
<1>7. \A a, op : Fine(a) /\ a.failed = FALSE => \A d \in ToStr(a) : Fine(d) /\ Honest(op, d)
  <2> SUFFICES ASSUME NEW a, NEW op, Fine(a), a.failed = FALSE, NEW d \in ToStr(a)
               PROVE  Fine(d) /\ Told(d)
    BY ToldIsHonest
  <2>1. CASE d = Clear(a) BY <2>1, PlainFine DEF Told
  <2>2. CASE d = StdError(a) BY <2>2, StdErrorFine
  <2> QED BY <2>1, <2>2 DEF ToStr
<1>8. CASE Returns("addrinfo_get", found) BY <1>4, <1>8, ToldIsHonest, PlainStep
<1>9. CASE Returns("to_str", ToStr(c)) BY <1>2, <1>7, <1>9, PlainStep
<1>10. CASE Returns("lookup", Stopped(found) \union UNION {ToStr(a) : a \in Continued(found)})
  BY <1>5, <1>6, <1>7, <1>10, PlainStep
<1>11. CASE Returns("get_nameinfo", GetNameinfo(c)) BY <1>2, <1>11, NameinfoFine, PlainStep
<1>12. CASE Returns("reverse_lookup",
                   Stopped(found) \union UNION {GetNameinfo(a) : a \in Continued(found)})
  <2>1. \A a \in Continued(found) : \A d \in GetNameinfo(a) : Fine(d) /\ Honest("reverse_lookup", d)
    BY <1>6, NameinfoFine
  <2> QED BY <1>5, <1>12, <2>1, PlainStep
<1> QED BY <1>3, <1>8, <1>9, <1>10, <1>11, <1>12

\* A send or receive whose result tells what became of it keeps the invariant.
LEMMA MovedStep ==
  ASSUME ConnectionInv, NEW op \in {"send", "recv", "recv_str"}, NEW e \in Errtypes,
         NEW wanted \in Nat, NEW size \in Int, Moved(op, e, wanted, size), StreamStep,
         net' \in Kernels,
         sent' \in [Streams -> Seq(Bytes)], received' \in [Streams -> Seq(Bytes)],
         size = -1 => e = "STD",
         wanted = 0 /\ e = "NONE" => op # "send",
         e = "STD" /\ size # -1 => op = "recv_str" /\ size < BuffSize,
         op # "recv_str" => (e = "NONE" <=> size = wanted),
         size >= -1
  PROVE  ConnectionInv'
<1>1. TypeOK' BY DEF ConnectionInv, TypeOK, Moved
<1>2. /\ ret'.op = op /\ ret'.wanted = wanted /\ ret'.size = size
      /\ ret'.failed <=> size = -1 \/ wanted = 0
  BY DEF Moved, Result
<1>3. ClientHasSockets'
  <2>1. op \notin DOMAIN Promised BY PromisedStates
  <2>2. DOMAIN Promised = DOMAIN Promised' BY DEF Promised
  <2> QED BY <1>2, <2>1, <2>2 DEF ClientHasSockets, ConnectionInv, Moved
<1>4. FailureTold'
  <2>1. err' = e BY DEF Moved
  <2> QED BY <1>2, <2>1 DEF FailureTold, FailsSilently, MayComplain, Recvs
<1> QED BY <1>1, <1>3, <1>4 DEF ConnectionInv, StreamStep

\* A call that moved nothing.
LEMMA StillStep ==
  ASSUME ConnectionInv, UNCHANGED <<net, streams>>
  PROVE  /\ StreamStep /\ net' \in Kernels
         /\ sent' \in [Streams -> Seq(Bytes)] /\ received' \in [Streams -> Seq(Bytes)]
BY DEF ConnectionInv, TypeOK, OnTheWay, StreamStep, streams

\* The streams of a connected socket.
LEMMA ItsStreams ==
  ASSUME ConnectionInv, NEW f \in held, fds[f].st = "connected"
  PROVE  Outwards(f) \in Streams /\ Inwards(f) \in Streams
<1>1. fds[f] \in Sockets BY HeldFds
<1> QED BY <1>1 DEF Sockets, Outwards, Inwards, Streams

LEMMA SendStep ==
  ASSUME ConnectionInv, NEW f \in held, Send(f)
  PROVE  ConnectionInv' /\ StreamStep
<1>1. PICK message \in Messages :
        \/ /\ fds[f].st = "connected"
           /\ \E n \in 1 .. Len(message) :
                /\ Put(Outwards(f), First(message, n), First(message, n))
                /\ Moved("send", SentErr(Len(message), n), Len(message), n)
        \/ /\ Moved("send", "STD", Len(message), -1)
           /\ UNCHANGED <<net, streams>>
  BY DEF Send, BytesSent
<1>2. message \in Seq(Bytes) /\ Len(message) \in Nat BY MessageBytes
<1>3. ASSUME fds[f].st = "connected", NEW n \in 1 .. Len(message),
             Put(Outwards(f), First(message, n), First(message, n)),
             Moved("send", SentErr(Len(message), n), Len(message), n)
      PROVE  ConnectionInv' /\ StreamStep
  <2>1. First(message, n) \in Seq(Bytes)
    <3>1. n \in 0 .. Len(message) BY <1>2
    <3> QED BY <1>2, <3>1, FirstAndFrom
  <2>2. Outwards(f) \in Streams BY <1>3, ItsStreams
  <2>3. /\ StreamStep /\ net' \in Kernels
        /\ sent' \in [Streams -> Seq(Bytes)] /\ received' \in [Streams -> Seq(Bytes)]
    BY <1>3, <2>1, <2>2, PutStep DEF ConnectionInv
  <2>4. /\ SentErr(Len(message), n) \in {"NONE", "PARTIAL"}
        /\ SentErr(Len(message), n) = "NONE" <=> n = Len(message)
    BY <1>2 DEF SentErr
  <2>5. n \in Int /\ n >= -1 /\ n # -1 /\ Len(message) # 0 BY <1>2
  <2> QED BY <1>2, <1>3, <2>3, <2>4, <2>5, MovedStep DEF Errtypes
<1>4. CASE Moved("send", "STD", Len(message), -1) /\ UNCHANGED <<net, streams>>
  <2>1. Len(message) # -1 BY <1>2
  <2> QED BY <1>2, <1>4, <2>1, StillStep, MovedStep DEF Errtypes
<1> QED BY <1>1, <1>3, <1>4

\* What a receive may get is what the stream begins with.
LEMMA AvailableBytes ==
  ASSUME ConnectionInv, NEW f \in held, fds[f].st = "connected", NEW most \in Nat,
         NEW bytes \in Available(f, most), Take(Inwards(f), bytes)
  PROVE  /\ Len(bytes) \in 0 .. most
         /\ StreamStep /\ net' \in Kernels
         /\ sent' \in [Streams -> Seq(Bytes)] /\ received' \in [Streams -> Seq(Bytes)]
<1>1. Inwards(f) \in Streams BY ItsStreams
<1> DEFINE wire == net.wire[Inwards(f)]
<1>2. wire \in Seq(Bytes) BY <1>1 DEF ConnectionInv, TypeOK, Kernels
<1>3. PICK n \in 0 .. most : n <= Len(wire) /\ bytes = First(wire, n) BY DEF Available
<1>4. n \in 0 .. Len(wire) BY <1>2, <1>3
<1>5. Len(bytes) = n BY <1>2, <1>3, <1>4, FirstAndFrom
<1> QED BY <1>1, <1>3, <1>4, <1>5, TakeStep DEF ConnectionInv

\* A receive that fails, or has no memory for its string.
LEMMA NothingReceived ==
  ASSUME ConnectionInv, NEW f \in held, NEW op \in Recvs, NEW wanted \in Nat,
         RecvFails(op, wanted) \/ NoString(f, op)
  PROVE  ConnectionInv' /\ StreamStep
<1> USE DEF Recvs, Errtypes
<1>1. CASE RecvFails(op, wanted)
  <2>1. Moved(op, "STD", wanted, -1) /\ StreamStep /\ -1 # wanted
    BY <1>1, StillStep DEF RecvFails
  <2> QED BY <1>1, <2>1, StillStep, MovedStep DEF RecvFails
<1>2. CASE NoString(f, op)
  BY <1>2, StillStep, MovedStep DEF NoString
<1> QED BY <1>1, <1>2

LEMMA RecvStrnStep ==
  ASSUME ConnectionInv, NEW f \in held, NEW capacity \in 1 .. BuffSize, RecvStrn(f, capacity)
  PROVE  ConnectionInv' /\ StreamStep
<1>1. BuffSize \in Nat /\ capacity \in Nat /\ capacity # 0
  BY NetConstants DEF NetConstants, SockConstants
<1>2. ASSUME fds[f].st = "connected", NEW bytes \in Available(f, capacity),
             Moved("recv", RecvdErr(capacity, Len(bytes)), capacity, Len(bytes)),
             Take(Inwards(f), bytes)
      PROVE  ConnectionInv' /\ StreamStep
  <2> DEFINE n == Len(bytes)
  <2>1. /\ n \in 0 .. capacity /\ StreamStep /\ net' \in Kernels
        /\ sent' \in [Streams -> Seq(Bytes)] /\ received' \in [Streams -> Seq(Bytes)]
    BY <1>1, <1>2, AvailableBytes
  <2> HIDE DEF n
  <2>2. /\ RecvdErr(capacity, n) \in {"NONE", "PARTIAL"}
        /\ RecvdErr(capacity, n) = "NONE" <=> n = capacity
    BY <1>1, <2>1 DEF RecvdErr
  <2>3. n \in Int /\ n >= -1 /\ n # -1 BY <1>1, <2>1
  <2>4. Moved("recv", RecvdErr(capacity, n), capacity, n) BY <1>2 DEF n
  <2> QED BY <1>1, <2>1, <2>2, <2>3, <2>4, MovedStep DEF Errtypes
<1>3. CASE RecvFails("recv", capacity) \/ NoString(f, "recv")
  BY <1>1, <1>3, NothingReceived DEF Recvs
<1> QED BY <1>2, <1>3 DEF RecvStrn

LEMMA RecvStrStep ==
  ASSUME ConnectionInv, NEW f \in held, RecvStr(f)
  PROVE  ConnectionInv' /\ StreamStep
<1>1. BuffSize \in Nat BY NetConstants DEF NetConstants, SockConstants
<1>2. ASSUME fds[f].st = "connected", NEW bytes \in Available(f, BuffSize),
             NEW e \in IF RecvdErr(BuffSize, Len(bytes)) = "PARTIAL" THEN {"NONE", "STD"} ELSE {"NONE"},
             Moved("recv_str", e, BuffSize, Len(bytes)), Take(Inwards(f), bytes)
      PROVE  ConnectionInv' /\ StreamStep
  <2> DEFINE n == Len(bytes)
  <2>1. /\ n \in 0 .. BuffSize /\ StreamStep /\ net' \in Kernels
        /\ sent' \in [Streams -> Seq(Bytes)] /\ received' \in [Streams -> Seq(Bytes)]
    BY <1>1, <1>2, AvailableBytes
  <2>2. Moved("recv_str", e, BuffSize, n)  BY <1>2
  <2>3. e \in Errtypes /\ (e = "STD" => n < BuffSize)
    BY <1>2 DEF RecvdErr, Errtypes
  <2> HIDE DEF n
  <2>4. n \in Int /\ n >= -1 /\ n # -1 BY <1>1, <2>1
  <2> QED BY <1>1, <2>1, <2>2, <2>3, <2>4, MovedStep
<1>3. CASE RecvFails("recv_str", BuffSize) \/ NoString(f, "recv_str")
  BY <1>1, <1>3, NothingReceived DEF Recvs
<1> QED BY <1>2, <1>3 DEF RecvStr

-----------------------------------------------------------------------------
(* The steps of the peers. *)

\* A connection more waits for a listening socket.
LEMMA PeerConnectsStep ==
  ASSUME ConnectionInv, NEW f \in held, PeerConnects(f)
  PROVE  ConnectionInv' /\ StreamStep
<1> DEFINE k == net.conns + 1
           sock == [fds[f] EXCEPT !.pending = Append(@, k)]
<1>1. TypeOK /\ DOMAIN fds = held /\ held \subseteq Fds /\ fds \in [held -> Sockets] BY HeldFds
<1>2. net.conns \in Nat /\ k \in Conns
  <2>1. MaxConns \in Nat BY NetConstants DEF NetConstants, SockConstants
  <2>2. net.conns \in 0 .. MaxConns /\ net.conns < MaxConns BY <1>1 DEF TypeOK, Kernels, PeerConnects
  <2> QED BY <2>1, <2>2 DEF Conns
<1>3. sock \in Sockets /\ sock.st = fds[f].st
  <2>1. fds[f] \in Sockets /\ fds[f].pending \in Seq(Conns) BY <1>1 DEF Sockets
  <2>2. Append(fds[f].pending, k) \in Seq(Conns) BY <1>2, <2>1
  <2> QED BY <2>1, <2>2 DEF Sockets
<1>4. fds' = [fds EXCEPT ![f] = sock] BY <1>1 DEF PeerConnects
<1> HIDE DEF sock
<1>5. /\ net' = [net EXCEPT !.conns = k] /\ err' = err /\ errno' = errno /\ held' = held
      /\ ret' = ret /\ sent' = sent /\ received' = received
  BY <1>1 DEF PeerConnects, TypeOK, Kernels, streams
<1>6. fds' \in [held -> Sockets] /\ DOMAIN fds' = held /\ \A g \in held : fds'[g].st = fds[g].st
  BY <1>1, <1>3, <1>4
<1>7. fds' \in FdTables BY <1>1, <1>6, FdTable
<1>8. net' \in Kernels /\ net'.wire = net.wire
  <2>1. k \in 0 .. MaxConns BY <1>2 DEF Conns
  <2> QED BY <1>1, <1>5, <2>1 DEF TypeOK, Kernels
<1>9. TypeOK' BY <1>1, <1>5, <1>7, <1>8 DEF TypeOK
<1>10. OnTheWay' BY <1>5, <1>8 DEF ConnectionInv, OnTheWay
<1>11. ClientHasSockets' BY <1>5, <1>6 DEF ConnectionInv, ClientHasSockets, Promised
<1>12. FailureTold' BY <1>5 DEF ConnectionInv, FailureTold, FailsSilently, MayComplain
<1> QED BY <1>5, <1>9, <1>10, <1>11, <1>12 DEF ConnectionInv, StreamStep, streams

\* What peers send and read is a step of a stream.
LEMMA PeerOnStreamStep ==
  ASSUME ConnectionInv, NEW k \in 1 .. net.conns, PeerSends(k) \/ PeerCloses(k) \/ PeerReads(k),
         UNCHANGED <<fds, err, errno, held, ret>>
  PROVE  ConnectionInv' /\ StreamStep
<1>1. <<k, "in">> \in Streams /\ <<k, "out">> \in Streams
  <2>1. MaxConns \in Nat /\ net.conns \in 0 .. MaxConns
    BY NetConstants DEF NetConstants, SockConstants, ConnectionInv, TypeOK, Kernels
  <2> QED BY <2>1 DEF Streams, Conns
<1>2. /\ StreamStep /\ net' \in Kernels
      /\ sent' \in [Streams -> Seq(Bytes)] /\ received' \in [Streams -> Seq(Bytes)]
  <2>1. CASE PeerSends(k)
    <3>1. PICK message \in Messages : Put(<<k, "in">>, message, message) BY <2>1 DEF PeerSends
    <3> QED BY <1>1, <3>1, MessageBytes, PutStep DEF ConnectionInv
  <2>2. CASE PeerReads(k)
    <3> DEFINE wire == net.wire[<<k, "out">>]
    <3>1. wire \in Seq(Bytes) BY <1>1 DEF ConnectionInv, TypeOK, Kernels
    <3>2. PICK n \in 1 .. Len(wire) : Take(<<k, "out">>, First(wire, n)) BY <2>2 DEF PeerReads
    <3>3. n \in 0 .. Len(wire) BY <3>1
    <3> QED BY <1>1, <3>2, <3>3, TakeStep DEF ConnectionInv
  <2>3. CASE PeerCloses(k)
    <3>1. net' = [net EXCEPT !.ended = @ \union {<<k, "in">>}] /\ UNCHANGED streams
      BY <2>3 DEF PeerCloses
    <3>2. net' \in Kernels /\ net'.wire = net.wire BY <1>1, <3>1 DEF ConnectionInv, TypeOK, Kernels
    <3> QED BY <3>1, <3>2 DEF ConnectionInv, TypeOK, OnTheWay, StreamStep, streams
  <2> QED BY <2>1, <2>2, <2>3
<1>3. TypeOK' BY <1>2 DEF ConnectionInv, TypeOK
<1>4. ClientHasSockets' BY DEF ConnectionInv, ClientHasSockets, Promised
<1>5. FailureTold' BY DEF ConnectionInv, FailureTold, FailsSilently, MayComplain
<1> QED BY <1>2, <1>3, <1>4, <1>5 DEF ConnectionInv, StreamStep

-----------------------------------------------------------------------------
LEMMA ConnectionStep ==
  ASSUME ConnectionInv, Next
  PROVE  ConnectionInv' /\ StreamStep
<1>1. DOMAIN fds = held BY HeldFds
<1>2. CASE SockNext
  <2>1. ASSUME NEW f \in held,
               \/ SockBind(f) \/ SockListen(f) \/ SockConnect(f)
               \/ SockAccept(f) \/ SockClose(f) \/ SockShutdown(f)
        PROVE  ConnectionInv' /\ StreamStep
    BY <2>1, OnSocketStep, SockCloseStep, SockShutdownStep
  <2> QED BY <1>2, <2>1, SockCreateStep, SockOptionStep, FromStrStep, LookupStep DEF SockNext
<1>3. ASSUME NEW f \in held,
             Send(f) \/ RecvStr(f) \/ \E capacity \in 1 .. BuffSize : RecvStrn(f, capacity)
      PROVE  ConnectionInv' /\ StreamStep
  BY <1>3, SendStep, RecvStrStep, RecvStrnStep
<1>4. CASE PeerStep BY <1>1, <1>4, PeerConnectsStep, PeerOnStreamStep DEF PeerStep
<1> QED BY <1>2, <1>3, <1>4 DEF Next

\* A step of the other part, or of nothing.
LEMMA ConnectionStutter ==
  ASSUME ConnectionInv, UNCHANGED vars
  PROVE  ConnectionInv'
BY DEF ConnectionInv, TypeOK, ClientHasSockets, Promised, FailureTold, FailsSilently, MayComplain,
       OnTheWay, vars, streams

LEMMA DatagramStutter ==
  ASSUME DatagramInv, UNCHANGED datagrams
  PROVE  DatagramInv'
BY DEF DatagramInv, AddrIsHeard, AnswersOneSender, D!AnswersOneSender, D!RepliesToSender,
       D!TextOfOneDatagram, D!ToRead, datagrams

LEMMA InitInv ==
  ASSUME AnyInit
  PROVE  IInv /\ Stream!Init
<1>1. TypeOK
  <2>1. <<>> \in FdTables
    <3>1. <<>> \in Seq(Sockets) /\ Len(<<>>) = 0 BY EmptySeq
    <3>2. <<>> \in [1 .. 0 -> Sockets] /\ DOMAIN <<>> = 1 .. 0 BY <3>1, LenProperties
    <3>3. 1 .. 0 = {} OBVIOUS
    <3>4. DOMAIN <<>> \subseteq Fds /\ <<>> \in [DOMAIN <<>> -> Sockets] BY <3>2, <3>3, Zenon
    <3> QED BY <3>4, FdTable, Zenon
  <2>2. MaxConns \in Nat BY NetConstants DEF NetConstants, SockConstants
  <2>3. [s \in Streams |-> <<>>] \in [Streams -> Seq(Bytes)] OBVIOUS
  <2>4. net \in Kernels BY <2>2, <2>3 DEF AnyInit, Init, Kernels
  <2> QED BY <2>1, <2>3, <2>4 DEF AnyInit, Init, TypeOK, Errtypes
<1>2. ClientHasSockets /\ FailureTold /\ OnTheWay
  BY PromisedStates DEF AnyInit, Init, ClientHasSockets, FailureTold, OnTheWay, Result, Recvs
<1>3. DatagramInv
  BY DEF AnyInit, D!Init, DatagramInv, AddrIsHeard, AnswersOneSender, D!AnswersOneSender,
         D!RepliesToSender, D!TextOfOneDatagram, D!Result
<1>4. Stream!Init BY DEF AnyInit, Init, Stream!Init
<1> QED BY <1>1, <1>2, <1>3, <1>4 DEF IInv, ConnectionInv

LEMMA StepInv ==
  ASSUME IInv, [AnyNext /\ UNCHANGED part]_<<vars, datagrams, part>>
  PROVE  IInv' /\ [StreamStep]_vars
<1>1. CASE Next /\ UNCHANGED datagrams BY <1>1, ConnectionStep, DatagramStutter DEF IInv
<1>2. CASE D!Next /\ UNCHANGED vars BY <1>2, DatagramStep, ConnectionStutter DEF IInv
<1>3. CASE UNCHANGED <<vars, datagrams>> BY <1>3, ConnectionStutter, DatagramStutter DEF IInv
<1> QED BY <1>1, <1>2, <1>3 DEF AnyNext

(***************************************************************************)
(* IInv holds in every state of a program that talks.                      *)
(***************************************************************************)
THEOREM NetInvariant == AnySpec => []IInv
<1>1. AnyInit => IInv BY InitInv
<1>2. IInv /\ [AnyNext /\ UNCHANGED part]_<<vars, datagrams, part>> => IInv' BY StepInv
<1> QED BY <1>1, <1>2, PTL DEF AnySpec

(***************************************************************************)
(* A client can close every open descriptor, and a socket without an error *)
(* is in the state its function promises, whichever system calls fail.     *)
(***************************************************************************)
THEOREM NetSockets == AnySpec => []ClientHasSockets
<1>1. IInv => ClientHasSockets BY DEF IInv, ConnectionInv
<1> QED BY <1>1, NetInvariant, PTL

(***************************************************************************)
(* A call that failed left an error, and one that did not left none, but   *)
(* for the calls FailureTold names; a transfer without an error moved all. *)
(***************************************************************************)
THEOREM NetFailures == AnySpec => []FailureTold
<1>1. IInv => FailureTold BY DEF IInv, ConnectionInv
<1> QED BY <1>1, NetInvariant, PTL

(***************************************************************************)
(* uga_send and uga_recv implement ByteStream: each step of a program or a *)
(* peer adds to the end of one stream, or gives the next bytes of one to   *)
(* its receiver, or does neither; and nothing sent is lost on the way.     *)
(***************************************************************************)
THEOREM NetStreams == AnySpec => IsStream
<1>1. AnyInit => Stream!Init BY InitInv
<1>2. IInv /\ [AnyNext /\ UNCHANGED part]_<<vars, datagrams, part>>
        => [(Stream!Next \/ UNCHANGED streams) /\ OnTheWay']_vars
  BY StepInv DEF StreamStep
<1> QED BY <1>1, <1>2, NetInvariant, PTL DEF AnySpec, IsStream

(***************************************************************************)
(* An answer goes to who was heard last, and a text is of one datagram.    *)
(***************************************************************************)
THEOREM NetAnswers == AnySpec => []AnswersOneSender
<1>1. IInv => AnswersOneSender BY DEF IInv, DatagramInv
<1> QED BY <1>1, NetInvariant, PTL
=============================================================================
