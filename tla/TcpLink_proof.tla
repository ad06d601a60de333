------------------------------ MODULE TcpLink_proof ------------------------------
(***************************************************************************)
(* Two sockets and the network between them: the types of TcpLink, and     *)
(* that the connection is a ByteStream.                                    *)
(***************************************************************************)
EXTENDS TcpLink, TcpSocket_proof

-----------------------------------------------------------------------------
(* The two ends.                                                           *)

LEMMA EndsOf ==
  /\ Client \in Ends /\ Server \in Ends /\ Client # Server
  /\ Peer(Client) = Server /\ Peer(Server) = Client
  /\ \A e \in Ends : Peer(e) \in Ends /\ Peer(e) # e /\ Peer(Peer(e)) = e
  /\ \A e, f \in Ends : f = e \/ f = Peer(e)
BY TcpLinkAssumption DEF Ends, Peer

\* Removing an element of a sequence, and adding some.
LEMMA Removes ==
  ASSUME NEW S, NEW s \in Seq(S), NEW i \in DOMAIN s
  PROVE  RemoveAt(s, i) \in Seq(S)
<1>1. i \in 1 .. Len(s) /\ Len(s) \in Nat
  OBVIOUS
<1>2. SubSeq(s, 1, i - 1) \in Seq(S) /\ SubSeq(s, i + 1, Len(s)) \in Seq(S)
  <2>1. \A a \in Nat, b \in Int : (b > 0 => a + b <= Len(s)) => SubSeq(s, a + 1, a + b) \in Seq(S)
    <3> TAKE a \in Nat, b \in Int
    <3> HAVE b > 0 => a + b <= Len(s)
    <3>1. Piece(S, SubSeq(s, a + 1, a + b), s, a, b)
      BY Pieces
    <3> QED BY <3>1 DEF Piece
  <2>2. SubSeq(s, 0 + 1, 0 + (i - 1)) \in Seq(S)
    BY <1>1, <2>1
  <2>3. SubSeq(s, i + 1, i + (Len(s) - i)) \in Seq(S)
    BY <1>1, <2>1
  <2>4. 0 + 1 = 1 /\ 0 + (i - 1) = i - 1 /\ i + (Len(s) - i) = Len(s)
    BY <1>1
  <2> QED BY <2>2, <2>3, <2>4
<1>3. \A x, y \in Seq(S) : x \o y \in Seq(S)
  OBVIOUS
<1> QED BY <1>2, <1>3 DEF RemoveAt

-----------------------------------------------------------------------------
(* Types.                                                                  *)

Budgets == [timeouts : 0 .. MaxTimeouts, faults : 0 .. MaxFaults, opens : 0 .. MaxOpens]

\* The types, with the indexes of both sockets.
LinkTyped == TcpTypeOK /\ \A e \in Ends : Indexed(sock[e])

LEMMA SpendType ==
  ASSUME NEW what \in {"timeouts", "faults", "opens"}, NEW cond, budget \in Budgets,
         Spend(what, cond)
  PROVE  budget' \in Budgets
<1>1. CASE cond
  <2>1. budget[what] > 0 /\ budget' = [budget EXCEPT ![what] = budget[what] - 1]
    BY <1>1 DEF Spend
  <2>2. MaxTimeouts \in Nat /\ MaxFaults \in Nat /\ MaxOpens \in Nat
    BY TcpLinkAssumption
  <2> QED BY <2>1, <2>2 DEF Budgets
<1>2. CASE ~cond
  BY <1>2 DEF Spend
<1> QED BY <1>1, <1>2

\* A step of the socket of one end.
LEMMA StepType ==
  ASSUME LinkTyped, NEW e \in Ends, NEW r \in Results, Indexed(r.s), NEW in \in Seq(Segments),
         Step(e, r, in)
  PROVE  /\ sock' \in [Ends -> Sockets] /\ net' \in [Ends -> Seq(Segments)]
         /\ \A f \in Ends : Indexed(sock[f])'
<1>1. r.s \in Sockets /\ r.out \in Seq(Segments)
  BY DEF Results
<1>2. sock' = [sock EXCEPT ![e] = r.s] /\ sock \in [Ends -> Sockets]
      /\ net \in [Ends -> Seq(Segments)] /\ \A f \in Ends : Indexed(sock[f])
  BY DEF Step, LinkTyped, TcpTypeOK
<1>3. net' = [net EXCEPT ![e] = in, ![Peer(e)] = net[Peer(e)] \o r.out]
  BY EndsOf DEF Step
<1>4. net[Peer(e)] \o r.out \in Seq(Segments)
  <2>1. net[Peer(e)] \in Seq(Segments)
    BY <1>2, EndsOf
  <2> QED BY <1>1, <2>1
<1>5. \A f \in Ends : Indexed(sock'[f])
  BY <1>1, <1>2
<1> QED BY <1>1, <1>2, <1>3, <1>4, <1>5

LEMMA LinkInit == Init => LinkTyped
<1> SUFFICES ASSUME Init PROVE LinkTyped
  OBVIOUS
<1>1. InitialSeq[Server] \in Seqs
  BY TcpLinkAssumption, EndsOf
<1> DEFINE l == TCPListen(InitialSeq[Server])
<1>2. l \in Sockets /\ Indexed(l)
  BY <1>1, ListenType
<1> HIDE DEF l
<1>3. sock = [e \in Ends |-> IF e = Client THEN Fresh ELSE l]
  BY DEF Init, l
<1>4. sock \in [Ends -> Sockets] /\ \A e \in Ends : Indexed(sock[e])
  BY <1>2, <1>3, FreshType, FreshIndexed
<1>5. /\ net = [e \in Ends |-> <<>>] /\ written = [e \in Ends |-> <<>>]
      /\ read = [e \in Ends |-> <<>>] /\ left = {}
  BY DEF Init
<1>6. budget \in Budgets
  BY TcpLinkAssumption DEF Init, Budgets
<1> QED BY <1>4, <1>5, <1>6 DEF LinkTyped, TcpTypeOK, Budgets

\* The fields of the state that each action reads.
LEMMA LinkFields ==
  ASSUME LinkTyped, NEW e \in Ends
  PROVE  /\ sock[e] \in Sockets /\ Indexed(sock[e]) /\ Fits(sock[e])
         /\ net[e] \in Seq(Segments) /\ written[e] \in Seq(Bytes) /\ read[e] \in Seq(Bytes)
         /\ budget \in Budgets
BY DEF LinkTyped, TcpTypeOK, Indexed, Budgets

LEMMA TimerTypes == NoTimer \in Timers /\ Clocks = Timers
BY DEF NoTimer, Timers, Clocks

\* What is written is what there is memory for.
LEMMA WriteStep ==
  ASSUME LinkTyped, NEW e \in Ends, Write(e)
  PROVE  \E t, p \in Sockets, y, data \in Seq(Bytes) :
           /\ IsWritten(sock[e], t, data, p, y) /\ Indexed(t) /\ sock[e].st = "Established"
           /\ sock' = [sock EXCEPT ![e] = t]
           /\ written' = [written EXCEPT ![e] = written[e] \o y]
           /\ Len(written[e]) + Len(y) <= MaxBytes[e]
           /\ UNCHANGED <<net, read, left, budget>>
<1>1. PICK n \in 1 .. MSS :
      LET data == [i \in 1 .. n |-> Len(written[e]) + i]
          s    == TCPWrite(sock[e], data)
          took == Len(s.tx) - Len(TCPScaleSndIndexes(sock[e]).tx)
      IN /\ sock[e].st = "Established"
         /\ Len(written[e]) + n <= MaxBytes[e]
         /\ sock' = [sock EXCEPT ![e] = s]
         /\ written' = [written EXCEPT ![e] = written[e] \o SubSeq(data, 1, took)]
         /\ UNCHANGED <<net, read, left, budget>>
  BY DEF Write
<1> DEFINE data == [i \in 1 .. n |-> Len(written[e]) + i]
           s    == TCPWrite(sock[e], data)
           took == Len(s.tx) - Len(TCPScaleSndIndexes(sock[e]).tx)
           more == SubSeq(data, 1, took)
<1>2. sock[e] \in Sockets /\ Indexed(sock[e]) /\ written[e] \in Seq(Bytes)
  BY LinkFields
<1>3. data \in Seq(Bytes) /\ Len(data) = n /\ n \in Nat
  <2>1. n \in Nat /\ Len(written[e]) \in Nat
    BY <1>2, Sizes
  <2>2. \A i \in 1 .. n : Len(written[e]) + i \in Bytes
    BY <2>1 DEF Bytes
  <2> QED BY <2>1, <2>2
<1>4. /\ sock' = [sock EXCEPT ![e] = s]
      /\ written' = [written EXCEPT ![e] = written[e] \o more]
      /\ UNCHANGED <<net, read, left, budget>>
      /\ sock[e].st = "Established" /\ Len(written[e]) + n <= MaxBytes[e]
  BY <1>1
<1> HIDE DEF data
<1>5. PICK p \in Sockets, y \in Seq(Bytes) : IsWritten(sock[e], s, data, p, y)
  BY <1>2, <1>3, <1>4, Writes
<1>6. Indexed(s)
  BY <1>2, <1>3, <1>4, Writes
<1> HIDE DEF s
<1>7. /\ s \in Sockets /\ s.tx = p.tx \o y /\ Len(y) <= Len(data)
      /\ p = TCPScaleSndIndexes(sock[e]) /\ Piece(Bytes, y, data, 0, Len(y))
  BY <1>5 DEF IsWritten
<1>8. took = Len(y)
  <2>1. p.tx \in Seq(Bytes)
    BY SocketFields DEF SocketTyped
  <2>2. Len(s.tx) = Len(p.tx) + Len(y)
    BY <1>7, <2>1, Appended
  <2>3. Len(p.tx) \in Nat /\ Len(y) \in Nat
    BY <2>1
  <2> DEFINE a == Len(s.tx)
             c == Len(p.tx)
             l == Len(y)
  <2> HIDE DEF a, c, l
  <2>4. a - c = l
    BY <2>2, <2>3 DEF a, c, l
  <2> QED BY <1>7, <2>4 DEF a, c, l
<1>9. more = y
  <2> DEFINE l == Len(y)
  <2>1. l \in Nat /\ took = l /\ l <= Len(data)
    BY <1>7, <1>8
  <2>2. Piece(Bytes, y, data, 0, l)
    BY <1>7
  <2> HIDE DEF l, took
  <2>3. 0 + 1 = 1 /\ 0 + l = l /\ more = SubSeq(data, 1, l)
    BY <2>1
  <2>4. Piece(Bytes, SubSeq(data, 0 + 1, 0 + l), data, 0, l)
    BY <1>3, <2>1, <2>3, Pieces
  <2>5. Piece(Bytes, more, data, 0, l)
    BY <2>3, <2>4
  <2> HIDE DEF more
  <2>6. /\ more \in Seq(Bytes) /\ Len(more) = l /\ \A i \in 1 .. l : more[i] = data[0 + i]
        /\ y \in Seq(Bytes) /\ Len(y) = l /\ \A i \in 1 .. l : y[i] = data[0 + i]
    BY <2>1, <2>2, <2>5 DEF Piece
  <2> QED BY <2>6
<1>10. Len(written[e]) + Len(y) <= MaxBytes[e]
  <2> DEFINE a == Len(written[e])
             l == Len(y)
             m == MaxBytes[e]
  <2>1. a \in Nat /\ l \in Nat /\ m \in Nat /\ a + n <= m /\ l <= n
    BY <1>2, <1>3, <1>4, <1>7, TcpLinkAssumption
  <2> HIDE DEF a, l, m
  <2>2. a + l <= m
    BY <1>3, <2>1
  <2> QED BY <2>2 DEF a, l, m
<1> HIDE DEF more
<1> QED BY <1>3, <1>4, <1>5, <1>6, <1>7, <1>9, <1>10

LEMMA LinkNext == LinkTyped /\ [Next]_vars => LinkTyped'
<1> SUFFICES ASSUME LinkTyped, [Next]_vars PROVE LinkTyped'
  OBVIOUS
<1>0. SendOutcomes \subseteq BOOLEAN
  BY TcpLinkAssumption
<1>1. CASE UNCHANGED vars
  BY <1>1 DEF vars, LinkTyped, TcpTypeOK
<1>2. ASSUME NEW e \in Ends, Deliver(e)
      PROVE  LinkTyped'
  <2>1. PICK i \in DOMAIN net[e], keep \in BOOLEAN, ok \in SendOutcomes :
           /\ Step(e, TCPProcess(sock[e], net[e][i], NoTimer, ok),
                   IF keep THEN net[e] ELSE RemoveAt(net[e], i))
           /\ Spend("faults", keep \/ i > 1)
           /\ UNCHANGED <<written, read, left>>
    BY <1>2 DEF Deliver
  <2> DEFINE g  == net[e][i]
             r  == TCPProcess(sock[e], g, NoTimer, ok)
             in == IF keep THEN net[e] ELSE RemoveAt(net[e], i)
  <2>2. sock[e] \in Sockets /\ Indexed(sock[e]) /\ net[e] \in Seq(Segments) /\ budget \in Budgets
    BY LinkFields
  <2>3. g \in Segments /\ in \in Seq(Segments) /\ ok \in BOOLEAN
    BY <1>0, <2>2, Removes
  <2> HIDE DEF g
  <2>4. r \in Results /\ Indexed(r.s)
    BY <2>2, <2>3, TimerTypes, Claims
  <2>5. Step(e, r, in)
    BY <2>1 DEF g
  <2> HIDE DEF r, in
  <2>6. /\ sock' \in [Ends -> Sockets] /\ net' \in [Ends -> Seq(Segments)]
        /\ \A f \in Ends : Indexed(sock[f])'
    BY <2>3, <2>4, <2>5, StepType
  <2>7. budget' \in Budgets
    BY <2>1, <2>2, SpendType
  <2> QED BY <2>1, <2>6, <2>7 DEF LinkTyped, TcpTypeOK, Budgets
<1>3. ASSUME NEW e \in Ends, Poll(e)
      PROVE  LinkTyped'
  <2>1. PICK clk \in Clocks, ok \in SendOutcomes :
           /\ Step(e, Pass(e, clk, ok), net[e])
           /\ Spend("timeouts", clk.rto /\ Early)
           /\ UNCHANGED <<written, read, left>>
    BY <1>3 DEF Poll
  <2> DEFINE r == TCPStateMachine(sock[e], NoSegment, clk, ok)
  <2>2. sock[e] \in Sockets /\ Indexed(sock[e]) /\ net[e] \in Seq(Segments) /\ budget \in Budgets
    BY LinkFields
  <2>3. r \in Results /\ Indexed(r.s)
    <3>1. IsRetransmitted(sock[e], NoSegment, r, ok)
      BY <1>0, <2>2, TimerTypes, StateMachines
    <3> QED BY <3>1 DEF IsRetransmitted
  <2>4. Step(e, r, net[e])
    BY <2>1 DEF Pass
  <2> HIDE DEF r
  <2>5. /\ sock' \in [Ends -> Sockets] /\ net' \in [Ends -> Seq(Segments)]
        /\ \A f \in Ends : Indexed(sock[f])'
    BY <2>2, <2>3, <2>4, StepType
  <2>6. budget' \in Budgets
    BY <2>1, <2>2, SpendType
  <2> QED BY <2>1, <2>5, <2>6 DEF LinkTyped, TcpTypeOK, Budgets
<1>4. ASSUME NEW e \in Ends, Lose(e)
      PROVE  LinkTyped'
  <2>1. PICK i \in DOMAIN net[e] :
           /\ net' = [net EXCEPT ![e] = RemoveAt(net[e], i)]
           /\ Spend("faults", TRUE)
           /\ UNCHANGED <<sock, written, read, left>>
    BY <1>4 DEF Lose
  <2>2. net[e] \in Seq(Segments) /\ budget \in Budgets
    BY LinkFields
  <2>3. RemoveAt(net[e], i) \in Seq(Segments)
    BY <2>2, Removes
  <2>4. budget' \in Budgets
    BY <2>1, <2>2, SpendType
  <2> QED BY <2>1, <2>3, <2>4 DEF LinkTyped, TcpTypeOK, Budgets
<1>5. ASSUME Silence
      PROVE  LinkTyped'
  <2>1. sock' = [e \in Ends |-> [sock[e] EXCEPT !.old = TRUE]]
        /\ UNCHANGED <<net, written, read, left, budget>>
    BY <1>5 DEF Silence
  <2>2. ASSUME NEW e \in Ends
        PROVE  sock'[e] \in Sockets /\ Indexed(sock'[e])
    <3>1. sock[e] \in Sockets /\ Indexed(sock[e])
      BY LinkFields
    <3> QED BY <2>1, <3>1, Ages
  <2>3. sock' \in [Ends -> Sockets] /\ \A e \in Ends : Indexed(sock'[e])
    BY <2>1, <2>2
  <2> QED BY <2>1, <2>3 DEF LinkTyped, TcpTypeOK
<1>6. ASSUME NEW e \in Ends, Lapse(e)
      PROVE  LinkTyped'
  <2> DEFINE t == [sock[e] EXCEPT !.old = TRUE]
  <2>1. sock' = [sock EXCEPT ![e] = t] /\ UNCHANGED <<net, written, read, left, budget>>
    BY <1>6 DEF Lapse
  <2>2. t \in Sockets /\ Indexed(t)
    BY LinkFields, Ages
  <2> HIDE DEF t
  <2> QED BY <2>1, <2>2 DEF LinkTyped, TcpTypeOK
<1>7. ASSUME Open
      PROVE  LinkTyped'
  <2> DEFINE n == MaxOpens - budget.opens
             iss == Norm(InitialSeq[Client] + n * (W \div 4))
             r == TCPOpen(iss, TRUE)
  <2>1. Step(Client, r, net[Client]) /\ left' = left \ {Client} /\ Spend("opens", TRUE)
        /\ UNCHANGED <<written, read>>
    BY <1>7 DEF Open
  <2>2. net[Client] \in Seq(Segments) /\ budget \in Budgets
    BY LinkFields, EndsOf
  <2>3. iss \in Seqs
    <3>1. n \in Int
      BY <2>2, TcpLinkAssumption DEF Budgets
    <3>2. W \div 4 \in Int /\ InitialSeq[Client] \in Int
      BY Sizes, TcpLinkAssumption, EndsOf DEF Seqs
    <3> HIDE DEF n
    <3>3. InitialSeq[Client] + n * (W \div 4) \in Int
      BY <3>1, <3>2
    <3> QED BY <3>3, NormType
  <2> HIDE DEF iss
  <2>4. r \in Results /\ Indexed(r.s)
    BY <2>3, Opens
  <2> HIDE DEF r
  <2>5. /\ sock' \in [Ends -> Sockets] /\ net' \in [Ends -> Seq(Segments)]
        /\ \A f \in Ends : Indexed(sock[f])'
    BY <2>1, <2>2, <2>4, EndsOf, StepType
  <2>6. budget' \in Budgets
    BY <2>1, <2>2, SpendType
  <2> QED BY <2>1, <2>5, <2>6 DEF LinkTyped, TcpTypeOK, Budgets
<1>8. ASSUME NEW e \in Ends, Write(e)
      PROVE  LinkTyped'
  <2>1. PICK t, p \in Sockets, y, data \in Seq(Bytes) :
          /\ Indexed(t) /\ sock' = [sock EXCEPT ![e] = t]
          /\ written' = [written EXCEPT ![e] = written[e] \o y]
          /\ UNCHANGED <<net, read, left, budget>>
    BY <1>8, WriteStep
  <2>2. written[e] \o y \in Seq(Bytes)
    BY LinkFields
  <2> QED BY <2>1, <2>2 DEF LinkTyped, TcpTypeOK
<1>9. ASSUME NEW e \in Ends, Read(e)
      PROVE  LinkTyped'
  <2> DEFINE s == TCPRead(sock[e], Len(sock[e].rx))
  <2>1. /\ sock' = [sock EXCEPT ![e] = s]
        /\ read' = [read EXCEPT ![e] = read[e] \o sock[e].rx]
        /\ UNCHANGED <<net, written, left, budget>>
    BY <1>9 DEF Read, LinkTyped, TcpTypeOK
  <2>2. sock[e] \in Sockets /\ Indexed(sock[e]) /\ read[e] \in Seq(Bytes)
    BY LinkFields
  <2>3. s \in Sockets /\ Indexed(s)
    BY <2>2, Reads DEF IsRead
  <2> HIDE DEF s
  <2>4. read[e] \o sock[e].rx \in Seq(Bytes)
    <3>1. sock[e].rx \in Seq(Bytes)
      BY <2>2, SocketFields DEF SocketTyped
    <3> QED BY <2>2, <3>1
  <2> QED BY <2>1, <2>3, <2>4 DEF LinkTyped, TcpTypeOK
<1>10. ASSUME NEW e \in Ends, Close(e)
       PROVE  LinkTyped'
  <2> DEFINE s == TCPClose(sock[e])
  <2>1. /\ sock' = [sock EXCEPT ![e] = s] /\ left' = left \cup {e}
        /\ UNCHANGED <<net, written, read, budget>>
    BY <1>10 DEF Close, LinkTyped, TcpTypeOK
  <2>2. s \in Sockets /\ Indexed(s)
    BY LinkFields, Closes DEF IsClosed
  <2> HIDE DEF s
  <2> QED BY <2>1, <2>2 DEF LinkTyped, TcpTypeOK
<1>11. ASSUME NEW e \in Ends, Abort(e)
       PROVE  LinkTyped'
  <2>1. PICK ok \in SendOutcomes : Step(e, TCPAbort(sock[e], ok), net[e])
    BY <1>11 DEF Abort
  <2> DEFINE r == TCPAbort(sock[e], ok)
  <2>2. r \in Results /\ Indexed(r.s) /\ net[e] \in Seq(Segments)
    BY <1>0, LinkFields, Aborts
  <2>3. Step(e, r, net[e]) /\ left' = left \cup {e} /\ UNCHANGED <<written, read, budget>>
    BY <1>11, <2>1 DEF Abort
  <2> HIDE DEF r
  <2>4. /\ sock' \in [Ends -> Sockets] /\ net' \in [Ends -> Seq(Segments)]
        /\ \A f \in Ends : Indexed(sock[f])'
    BY <2>2, <2>3, StepType
  <2> QED BY <2>3, <2>4 DEF LinkTyped, TcpTypeOK
<1> QED
  BY <1>1, <1>2, <1>3, <1>4, <1>5, <1>6, <1>7, <1>8, <1>9, <1>10, <1>11 DEF Next

\* The sockets, the segments on their way and what the applications have
\* written and read have their types, whatever the size of the sequence space,
\* of a segment and of the memory, and whether a segment can be sent or not.
THEOREM LinkTypes == Spec => []TcpTypeOK
<1>1. LinkTyped => TcpTypeOK
  BY DEF LinkTyped
<1> QED BY LinkInit, LinkNext, <1>1, PTL DEF Spec

-----------------------------------------------------------------------------
(* The invariant of a connection.                                          *)

\* What the theorems about the streams assume: the client opens one
\* connection, every segment can be handed to the link, and the bytes an
\* application writes are fewer than the sequence numbers.
StreamSettings ==
  /\ MaxOpens <= 1 /\ SendOutcomes = {TRUE}
  /\ \A e \in Ends : MaxBytes[e] + Pages + 3 < W

\* x is a part of the stream w, behind its k-th byte.
Part(x, w, k) == k + Len(x) <= Len(w) /\ \A n \in 1 .. Len(x) : x[n] = w[k + n]

Count(b) == IF b THEN 1 ELSE 0

Opening == SynStates \cup {"Listen"}
Later == DataStates \cup {"WaitUserClose", "Closed"}
Writing(s) == s.st \in Opening \cup {"Established"}

\* What the socket s of end e has received, the FIN of its peer included.
TakenBy(e, s) == Len(read[e]) + Len(s.rx) + Count(s.gotFin)
Taken(e) == TakenBy(e, sock[e])
Alive(e) == sock[e].st # "Unassigned"

\* The transmit stream of a socket is the end of what its application has
\* written, and a peer that is still there has all that is acknowledged.  A
\* socket closed in the handshake keeps the initial number it started from.
Offset(e, s) == Len(written[e]) - Len(s.tx)
Regular(e, s) ==
  /\ s.iss = Norm(InitialSeq[e] + 1 + Offset(e, s))
  /\ Offset(e, s) >= 0 /\ Part(s.tx, written[e], Offset(e, s))
  /\ Alive(Peer(e)) => Offset(e, s) + s.una <= Taken(Peer(e))
Hurried(e, s) ==
  s.st # "Established" /\ s.iss = InitialSeq[e] /\ written[e] = <<>> /\ s.tx = <<>>
Sender(e, s) ==
  /\ s.st \in Opening => /\ s.iss = InitialSeq[e] /\ written[e] = <<>> /\ ~s.probe
                         /\ s.nxt = Count(s.st # "Listen")
  /\ s.st \in Later => Regular(e, s) \/ Hurried(e, s)
  /\ s.st \in {"WaitUserClose", "Closed", "Closing"} => s.una >= s.nxt

\* The next number a socket expects is behind all it has received.
Expects(e, s) == /\ s.irs = Norm(InitialSeq[Peer(e)] + 1 + Len(read[e]))
                 /\ s.rcv = Len(s.rx) + Count(s.gotFin)

\* What has been read and what is received are the beginning of what the peer
\* has written, all of it when its FIN has come.  In a pass the first data may
\* be there before the socket is established.
Received(e, s) ==
  /\ Part(read[e], written[Peer(e)], 0) /\ Part(s.rx, written[Peer(e)], Len(read[e]))
  /\ s.st \in Windowed => Expects(e, s)
  /\ s.st \in Opening => read[e] = <<>> /\ ~s.gotFin
  /\ s.st \in {"Listen", "SynSent"} => s.rx = <<>> /\ s.rcv = 0
  /\ s.st = "Unassigned" => ~s.gotFin
  /\ s.gotFin => /\ ~Writing(sock[Peer(e)])
                 /\ Len(read[e]) + Len(s.rx) = Len(written[Peer(e)])
Receiver(e, s) == Received(e, s) /\ (s.st \in Opening => s.rx = <<>>)

\* What a segment from end e says, its socket being s: its bytes are bytes its
\* application has written, at their place; a FIN comes behind the last one;
\* an acknowledgement is of what e has received.  Nothing holds of the
\* acknowledgements of a socket that is gone.
Placed(x, w, i, seq) == \E k \in 0 .. Len(w) : seq = Norm(i + 1 + k) /\ Part(x, w, k)
Genuine(g, e, s) ==
  /\ g.data # <<>> => /\ ~g.syn /\ ~g.fin /\ ~g.rst /\ g.ack
                      /\ Placed(g.data, written[e], InitialSeq[e], g.seq)
  /\ g.syn => g.seq = InitialSeq[e] /\ ~g.fin /\ ~g.rst
  /\ g.fin => /\ g.ack
              /\ \/ g.seq = InitialSeq[e]
                 \/ g.seq = Norm(InitialSeq[e] + 1 + Len(written[e])) /\ ~Writing(s)
  /\ g.syn \/ g.rst \/ g.ack
AcksTaken(g, e, s) ==
  g.ack => \E j \in 1 .. 1 + TakenBy(e, s) : g.ackNbr = Norm(InitialSeq[Peer(e)] + j)
Emitted(e, s) ==
  {g \in Segments : /\ Genuine(g, e, s)
                    /\ s.st # "Unassigned" => AcksTaken(g, e, s)
                    /\ s.st = "SynSent" => ~g.ack}

\* While the client waits for the SYN of the server, that has sent no data.
Untried(s) == /\ s.st \notin {"Established", "SynSent", "SynReceived"}
              /\ s.st = "SynReceivedWhileListening" => s.una = 0
Waiting == sock[Client].st = "SynSent" => written[Server] = <<>> /\ Untried(sock[Server])
Roles == /\ sock[Server].st \notin {"SynSent", "SynReceived"}
         /\ sock[Client].st \notin {"Listen", "SynReceivedWhileListening"}
Unopened ==
  budget.opens # 0 =>
    /\ sock[Client].st = "Unassigned" /\ sock[Server].st = "Listen" /\ budget.opens = MaxOpens
    /\ \A e \in Ends : net[e] = <<>> /\ written[e] = <<>> /\ read[e] = <<>>

Connected(e) ==
  /\ Sender(e, sock[e]) /\ Receiver(e, sock[e])
  /\ net[e] \in Seq(Emitted(Peer(e), sock[Peer(e)]))
  /\ Len(written[e]) <= MaxBytes[e]
LinkInv ==
  /\ LinkTyped /\ \A e \in Ends : Connected(e)
  /\ Waiting /\ Roles /\ Unopened

-----------------------------------------------------------------------------
(* Parts of a stream.                                                      *)

LEMMA PartEmpty ==
  ASSUME NEW S, NEW w \in Seq(S), NEW k \in 0 .. Len(w)
  PROVE  Part(<<>>, w, k)
BY DEF Part

LEMMA PartOfPart ==
  ASSUME NEW S, NEW w \in Seq(S), NEW x \in Seq(S), NEW k \in Nat, Part(x, w, k),
         NEW a \in Nat, NEW b \in Int, NEW y, a <= Len(x), a + b <= Len(x), Piece(S, y, x, a, b)
  PROVE  Part(y, w, k + a)
<1> DEFINE l == Len(x)
           m == Len(y)
           n == Len(w)
<1>1. l \in Nat /\ m \in Nat /\ n \in Nat /\ m = IF b > 0 THEN b ELSE 0
  BY DEF Piece
<1>2. k + l <= n /\ a <= l /\ a + b <= l /\ (\A i \in 1 .. l : x[i] = w[k + i])
      /\ \A i \in 1 .. m : y[i] = x[a + i]
  BY DEF Part, Piece
<1> HIDE DEF l, m, n
<1>3. k + a + m <= n
  BY <1>1, <1>2
<1>4. ASSUME NEW i \in 1 .. m
      PROVE  y[i] = w[k + a + i]
  <2>1. a + i \in 1 .. l /\ k + (a + i) = k + a + i
    BY <1>1, <1>2
  <2> QED BY <1>2, <2>1
<1> QED BY <1>3, <1>4 DEF Part, m, n

LEMMA PartGrows ==
  ASSUME NEW S, NEW w \in Seq(S), NEW x \in Seq(S), NEW k \in Nat, Part(x, w, k), NEW v \in Seq(S)
  PROVE  Part(x, w \o v, k)
BY DEF Part

LEMMA PartAppended ==
  ASSUME NEW S, NEW w \in Seq(S), NEW x \in Seq(S), NEW k \in Nat, Part(x, w, k),
         NEW y \in Seq(S), Part(y, w, k + Len(x))
  PROVE  Part(x \o y, w, k)
<1> DEFINE l == Len(x)
           m == Len(y)
           n == Len(w)
<1>1. l \in Nat /\ m \in Nat /\ n \in Nat /\ Len(x \o y) = l + m
  OBVIOUS
<1>2. k + l + m <= n /\ (\A i \in 1 .. l : x[i] = w[k + i])
      /\ \A i \in 1 .. m : y[i] = w[k + l + i]
  BY DEF Part
<1>3. \A i \in 1 .. l + m : (x \o y)[i] = IF i <= l THEN x[i] ELSE y[i - l]
  OBVIOUS
<1> HIDE DEF l, m, n
<1>4. ASSUME NEW i \in 1 .. l + m
      PROVE  (x \o y)[i] = w[k + i]
  <2>1. CASE i <= l
    <3>1. i \in 1 .. l
      BY <1>1, <2>1
    <3>2. (x \o y)[i] = x[i]
      BY <1>3, <2>1
    <3> QED BY <1>2, <3>1, <3>2
  <2>2. CASE i > l
    <3>1. i - l \in 1 .. m /\ k + l + (i - l) = k + i
      BY <1>1, <2>2
    <3> QED BY <1>1, <1>2, <1>3, <2>2, <3>1
  <2> QED BY <1>1, <2>1, <2>2
<1>5. k + (l + m) <= n
  BY <1>1, <1>2
<1> QED BY <1>1, <1>4, <1>5 DEF Part, n

\* The same bytes behind a stream and behind its last part.
LEMMA PartWritten ==
  ASSUME NEW S, NEW w \in Seq(S), NEW x \in Seq(S), NEW k \in Nat, Part(x, w, k),
         k + Len(x) = Len(w), NEW y \in Seq(S)
  PROVE  Part(x \o y, w \o y, k)
<1>1. w \o y \in Seq(S) /\ Part(x, w \o y, k)
  BY PartGrows
<1>2. Part(y, w \o y, k + Len(x))
  BY DEF Part
<1> QED BY <1>1, <1>2, PartAppended

LEMMA PartWhole ==
  ASSUME NEW S, NEW w \in Seq(S), NEW x \in Seq(S), Part(x, w, 0), Len(x) = Len(w)
  PROVE  x = w
BY DEF Part

-----------------------------------------------------------------------------
(* The numbers of a connection.                                            *)

\* The distance of two numbers that are close, in front of and behind zero.
LEMMA NormGap ==
  ASSUME NEW a \in Int, NEW b \in Int, a - b < W, b - a <= W
  PROVE  Norm(Norm(a) - Norm(b)) = IF a >= b THEN a - b ELSE a - b + W
<1>1. Norm(Norm(a) - Norm(b)) = Norm(a - b)
  BY NormDiff
<1>2. CASE a >= b
  <2>1. a - b \in Seqs
    BY <1>2, Sizes DEF Seqs
  <2> QED BY <1>1, <1>2, <2>1, NormSmall
<1>3. CASE ~(a >= b)
  BY <1>1, <1>3, NormNegative, Sizes
<1> QED BY <1>2, <1>3

\* What is known of the streams of an end.
Bounded(e) ==
  /\ written[e] \in Seq(Bytes) /\ read[e] \in Seq(Bytes)
  /\ Len(written[e]) \in Nat /\ Len(read[e]) \in Nat /\ Len(written[e]) <= MaxBytes[e]
  /\ MaxBytes[e] \in Nat /\ MaxBytes[e] + Pages + 3 < W
  /\ InitialSeq[e] \in Nat /\ InitialSeq[e] \in Seqs
  /\ sock[e] \in Sockets /\ Indexed(sock[e]) /\ Sender(e, sock[e]) /\ Receiver(e, sock[e])

LEMMA Bounds ==
  ASSUME LinkInv, StreamSettings, NEW e \in Ends
  PROVE  Bounded(e)
<1>1. sock[e] \in Sockets /\ Indexed(sock[e]) /\ written[e] \in Seq(Bytes) /\ read[e] \in Seq(Bytes)
  BY LinkFields DEF LinkInv
<1>2. Connected(e)
  BY DEF LinkInv
<1>3. InitialSeq[e] \in Seqs /\ MaxBytes[e] \in Nat
  BY TcpLinkAssumption
<1>4. InitialSeq[e] \in Nat
  BY <1>3 DEF Seqs
<1> QED BY <1>1, <1>2, <1>3, <1>4 DEF Bounded, Connected, StreamSettings

LEMMA CountType == \A b \in BOOLEAN : Count(b) \in 0 .. 1
BY DEF Count

LEMMA TakenBounds ==
  ASSUME LinkInv, StreamSettings, NEW e \in Ends, NEW s \in Sockets
  PROVE  /\ TakenBy(e, s) \in Nat
         /\ Received(e, s) => TakenBy(e, s) <= Len(written[Peer(e)]) + 1
<1>1. Peer(e) \in Ends
  BY EndsOf
<1>2. Len(read[e]) \in Nat /\ Len(written[Peer(e)]) \in Nat
  BY <1>1, Bounds DEF Bounded
<1>3. Len(s.rx) \in Nat /\ s.gotFin \in BOOLEAN
  BY SocketFields DEF SocketTyped
<1> DEFINE c == Count(s.gotFin)
           l == Len(s.rx)
           m == Len(read[e])
           n == Len(written[Peer(e)])
<1>4. c \in 0 .. 1
  BY <1>3, CountType
<1>5. Received(e, s) => m + l <= n
  BY DEF Received, Part
<1>6. TakenBy(e, s) = m + l + c
  BY DEF TakenBy
<1> HIDE DEF c, l, m, n
<1>7. m \in Nat /\ l \in Nat /\ n \in Nat
  BY <1>2, <1>3 DEF m, l, n
<1> QED BY <1>4, <1>5, <1>6, <1>7 DEF n

\* The acknowledgement of a peer that is there is of something it has received.
LEMMA AckOfTaken ==
  ASSUME LinkInv, StreamSettings, NEW e \in Ends, Alive(Peer(e)),
         NEW g \in Emitted(Peer(e), sock[Peer(e)]), g.ack
  PROVE  \E j \in Nat : /\ 1 <= j /\ j - 1 <= Taken(Peer(e)) /\ Taken(Peer(e)) \in Nat
                        /\ Taken(Peer(e)) <= Len(written[e]) + 1
                        /\ g.ackNbr = Norm(InitialSeq[e] + j)
<1> DEFINE p == Peer(e)
           k == Taken(p)
<1>1. p \in Ends /\ Peer(p) = e
  BY EndsOf
<1>2. sock[p] \in Sockets /\ Received(p, sock[p])
  BY <1>1, Bounds DEF Bounded, Receiver
<1>3. k \in Nat /\ k <= Len(written[e]) + 1
  BY <1>1, <1>2, TakenBounds DEF Taken
<1>4. AcksTaken(g, p, sock[p])
  BY DEF Alive, Emitted
<1>5. PICK j \in 1 .. 1 + k : g.ackNbr = Norm(InitialSeq[e] + j)
  BY <1>1, <1>4 DEF AcksTaken, Taken
<1> HIDE DEF k
<1>6. j \in Nat /\ 1 <= j /\ j - 1 <= k
  BY <1>3, <1>5
<1> QED BY <1>3, <1>5, <1>6 DEF k

\* How a pass may change a socket.
Progress(e, s, t) ==
  /\ t.st = "Unassigned" \/ (s.st # "Unassigned" /\ TakenBy(e, t) >= TakenBy(e, s))
  /\ Writing(t) => Writing(s)
  /\ t.st = "SynSent" => s.st = "SynSent"
  /\ t.st \in {"Listen", "SynReceivedWhileListening"} =>
       s.st \in {"Listen", "SynReceivedWhileListening"}
  /\ t.st \in {"SynSent", "SynReceived"} => s.st \in {"SynSent", "SynReceived"}
Untouched(s, t) == Untried(s) => Untried(t)

\* An acknowledgement that a socket takes is of what its peer has received.
LEMMA AckAdvances ==
  ASSUME LinkInv, StreamSettings, NEW e \in Ends, NEW s \in Sockets, Indexed(s), Regular(e, s),
         NEW g \in Emitted(Peer(e), sock[Peer(e)]), Takes(s, g), Alive(Peer(e))
  PROVE  Offset(e, s) + AckNbrOf(s, g) <= Taken(Peer(e))
<1> DEFINE a == AckNbrOf(s, g)
           f == Offset(e, s)
           k == Taken(Peer(e))
           i == InitialSeq[e]
           w == Len(written[e])
           m == MaxBytes[e]
           l == Len(s.tx)
           n == s.nxt
<1>1. g.ack /\ (a <= n \/ a <= l)
  BY DEF Takes
<1>2. PICK j \in Nat : /\ 1 <= j /\ j - 1 <= k /\ k \in Nat /\ k <= w + 1
                       /\ g.ackNbr = Norm(i + j)
  BY <1>1, AckOfTaken
<1>3. i \in Nat /\ w \in Nat /\ m \in Nat /\ w <= m /\ m + Pages + 3 < W
  BY Bounds DEF Bounded
<1>4. l \in Nat /\ l <= Pages /\ n \in Nat /\ n <= l + 1
  BY StreamSizes, SocketFields DEF SocketTyped, Indexed
<1>5. f = w - l /\ f >= 0 /\ s.iss = Norm(i + 1 + f)
  BY DEF Offset, Regular
<1>6. a = Norm(Norm(i + j) - Norm(i + 1 + f))
  BY <1>2, <1>5 DEF AckNbrOf
<1> HIDE DEF a, f, k, i, w, m, l, n
<1>7. i + j \in Int /\ i + 1 + f \in Int
  BY <1>2, <1>3, <1>4, <1>5
<1>8. /\ (i + j) - (i + 1 + f) < W /\ (i + 1 + f) - (i + j) <= W
  BY <1>2, <1>3, <1>4, <1>5, Sizes
<1> DEFINE x == i + j
           y == i + 1 + f
<1> HIDE DEF x, y
<1>9. a = IF x >= y THEN x - y ELSE x - y + W
  BY <1>6, <1>7, <1>8, NormGap DEF x, y
<1>10. x = i + j /\ y = i + 1 + f
  BY DEF x, y
<1>11. CASE x >= y
  BY <1>2, <1>3, <1>4, <1>5, <1>9, <1>10, <1>11 DEF a, f, k
<1>12. CASE x < y
  BY <1>1, <1>2, <1>3, <1>4, <1>5, <1>9, <1>10, <1>12, Sizes
<1> QED BY <1>7, <1>10, <1>11, <1>12

LEMMA SynStatesOf ==
  /\ SynStates \subseteq Opening /\ SynStates \cap Later = {} /\ Opening \cap Later = {}
  /\ "Unassigned" \notin Opening \cup Later /\ "Established" \in Later /\ "Listen" \in Opening
  /\ TcpStates \subseteq Opening \cup Later \cup {"Unassigned"}
  /\ Windowed \subseteq (Opening \cup Later) \ {"Listen", "SynSent"}
BY DEF SynStates, Opening, Later, DataStates, Windowed, TcpStates

\* The processing of an acknowledgement.
LEMMA AckKeeps ==
  ASSUME LinkInv, StreamSettings, NEW e \in Ends, NEW s \in Sockets, Indexed(s), Sender(e, s),
         NEW g \in Emitted(Peer(e), sock[Peer(e)]), NEW t, IsAcked(s, g, t)
  PROVE  /\ t \in Sockets /\ Sender(e, t) /\ Progress(e, s, t)
         /\ Receiver(e, s) => Receiver(e, t)
         /\ ~g.ack => Untouched(s, t)
         /\ t.st \in SynStates /\ g.ack /\ AckInRange(t, g) => t.una >= t.nxt
<1> DEFINE a == AckNbrOf(s, g)
<1>0. SocketTyped(s) /\ g \in Segments
  BY SocketFields DEF Emitted
<1>1. a \in Nat /\ a \in Seqs
  BY <1>0, Acks
<1>2. t \in Sockets /\ t.st = s.st /\ t.iss = s.iss /\ t.tx = s.tx /\ KeepsReceive(s, t)
  BY DEF IsAcked
<1>3. Offset(e, t) = Offset(e, s) /\ TakenBy(e, t) = TakenBy(e, s) /\ AckNbrOf(t, g) = a
  BY <1>2 DEF Offset, TakenBy, KeepsReceive, AckNbrOf
<1>4. Progress(e, s, t)
  <2>1. TakenBy(e, s) \in Nat
    BY TakenBounds
  <2> QED BY <1>2, <1>3, <2>1 DEF Progress, Writing
<1>5. Receiver(e, s) => Receiver(e, t)
  BY <1>2 DEF Receiver, Received, Expects, KeepsReceive
<1>6. s.st \in Opening => s.tx = <<>> /\ Len(s.tx) = 0 /\ s.una <= 1
  BY <1>0 DEF Indexed, Opening, SocketTyped
<1>7. t.una \in Nat /\ t.nxt \in Nat
  BY <1>2, SocketFields DEF SocketTyped
<1>8. CASE ~Takes(s, g)
  <2>1. t.una = s.una /\ t.nxt = s.nxt /\ t.probe = s.probe
    BY <1>8 DEF IsAcked
  <2>2. Sender(e, t)
    BY <1>2, <1>3, <2>1 DEF Sender, Regular, Hurried
  <2>3. ASSUME t.st \in SynStates, g.ack, AckInRange(t, g)
        PROVE  t.una >= t.nxt
    <3>1. 1 <= a /\ a <= s.nxt
      BY <1>1, <1>3, <2>1, <2>3 DEF AckInRange
    <3>2. s.una <= 1
      BY <1>2, <1>6, <2>3, SynStatesOf
    <3>3. s.una <= a
      BY <1>0, <1>1, <3>1, <3>2 DEF SocketTyped
    <3> QED BY <1>8, <2>3, <3>1, <3>3 DEF Takes
  <2> QED BY <1>2, <1>4, <1>5, <2>1, <2>2, <2>3 DEF Untouched, Untried
<1>9. CASE Takes(s, g)
  <2>1. /\ t.una = a /\ (t.probe => s.probe)
        /\ t.nxt = IF a > s.nxt \/ s.probe THEN a ELSE s.nxt
    BY <1>9 DEF IsAcked
  <2>2. g.ack /\ s.una <= a /\ (a <= s.nxt \/ a <= Len(s.tx))
    BY <1>9 DEF Takes
  <2>3. s.st \in Opening => t.nxt = s.nxt /\ ~t.probe
    <3>1. s.st \in Opening => ~s.probe /\ a <= s.nxt
      BY <1>0, <1>1, <1>6, <2>2 DEF Sender, SocketTyped
    <3> QED BY <1>0, <1>1, <2>1, <3>1 DEF SocketTyped
  <2>4. Regular(e, s) => Regular(e, t)
    <3>1. Regular(e, s) /\ Alive(Peer(e)) => Offset(e, s) + a <= Taken(Peer(e))
      BY <1>9, AckAdvances
    <3> QED BY <1>2, <1>3, <2>1, <3>1 DEF Regular
  <2>5. Hurried(e, s) => Hurried(e, t)
    BY <1>2 DEF Hurried
  <2>6. s.una >= s.nxt => t.una >= t.nxt
    BY <1>0, <1>1, <2>1, <2>2 DEF SocketTyped
  <2>7. Sender(e, t)
    BY <1>2, <2>3, <2>4, <2>5, <2>6 DEF Sender
  <2>8. ASSUME t.st \in SynStates, AckInRange(t, g)
        PROVE  t.una >= t.nxt
    <3>1. 1 <= a /\ a <= t.nxt
      BY <1>1, <1>3, <2>8 DEF AckInRange
    <3>2. t.nxt <= 1
      BY <1>2, <2>7, <2>8, SynStatesOf DEF Sender, Count
    <3> QED BY <1>1, <1>7, <2>1, <3>1, <3>2
  <2> QED BY <1>2, <1>4, <1>5, <2>2, <2>7, <2>8
<1> QED BY <1>8, <1>9

\* A segment in the window begins with what is received, or before its end.
Starting(e, s, g, k) ==
  /\ k >= Len(read[e]) /\ SeqNbrOf(s, g) = k - Len(read[e])
  /\ SeqNbrOf(s, g) <= s.rcv /\ s.rcv <= SeqNbrOf(s, g) + Len(g.data)
  /\ Skip(s, g) = s.rcv - SeqNbrOf(s, g)

LEMMA WindowGap ==
  ASSUME LinkInv, StreamSettings, NEW e \in Ends, NEW s \in Sockets, Fits(s),
         Part(read[e], written[Peer(e)], 0), Expects(e, s), NEW g \in Segments, InWindow(s, g),
         NEW k \in Int, -1 <= k, k <= Len(written[Peer(e)]),
         g.seq = Norm(InitialSeq[Peer(e)] + 1 + k)
  PROVE  Starting(e, s, g, k)
<1> DEFINE p == Peer(e)
           i == InitialSeq[p]
           r == Len(read[e])
           w == Len(written[p])
           m == MaxBytes[p]
           l == Len(s.rx)
           c == Count(s.gotFin)
           d == SeqNbrOf(s, g)
           v == s.rcv
           h == Len(g.data)
<1>1. i \in Nat /\ w \in Nat /\ m \in Nat /\ w <= m /\ m + Pages + 3 < W /\ r \in Nat
  BY EndsOf, Bounds DEF Bounded
<1>2. l \in Nat /\ l <= Pages /\ c \in 0 .. 1 /\ v = l + c
  BY StreamSizes, SocketFields, CountType DEF SocketTyped, Expects
<1>3. r <= w
  BY <1>1 DEF Part
<1>4. d \in Nat /\ d \in Seqs
  <2>1. g.seq - s.irs \in Int
    <3>1. g.seq \in Int /\ s.irs \in Int
      BY SegmentFields, SocketFields DEF SegmentTyped, SocketTyped
    <3> QED BY <3>1
  <2> QED BY <2>1, NormType DEF SeqNbrOf
<1>5. d = Norm(Norm(i + 1 + k) - Norm(i + 1 + r))
  BY DEF SeqNbrOf, Expects
<1>6. d <= v /\ v <= d + h /\ h \in Nat
  BY SegmentFields DEF SegmentTyped, InWindow
<1>7. Skip(s, g) = Norm(v - d)
  BY DEF Skip
<1>8. k <= w
  OBVIOUS
<1> HIDE DEF p, i, r, w, m, l, c, d, v, h
<1> DEFINE x == i + 1 + k
           y == i + 1 + r
<1>9. x \in Int /\ y \in Int /\ x - y < W /\ y - x <= W /\ x - y = k - r
  BY <1>1, <1>3, <1>8, Sizes
<1> HIDE DEF x, y
<1>10. d = IF x >= y THEN x - y ELSE x - y + W
  BY <1>5, <1>9, NormGap DEF x, y
<1>11. x >= y
  BY <1>1, <1>2, <1>3, <1>6, <1>9, <1>10, Sizes
<1>12. k >= r /\ d = k - r
  BY <1>1, <1>9, <1>10, <1>11
<1>13. v - d \in Seqs
  BY <1>1, <1>2, <1>4, <1>6, Sizes DEF Seqs
<1>14. Skip(s, g) = v - d
  BY <1>7, <1>13, NormSmall
<1> QED BY <1>6, <1>12, <1>14 DEF Starting, r, d, v, h

\* What a pass knows of the socket once it has stored the data of its segment.
Arrived(e, u) ==
  Sender(e, u) /\ Received(e, u) /\ (u.st \in Opening => u.rx = <<>> \/ Shaken(u))
Due(e, u, g) ==
  GotSegment(g) =>
    /\ g.fin /\ u.st \in Windowed =>
         /\ ~u.gotFin /\ ~Writing(sock[Peer(e)])
         /\ Len(read[e]) + Len(u.rx) = Len(written[Peer(e)])
    /\ u.st = "Listen" \/ (u.st = "SynSent" /\ g.syn) => u.irs = Norm(InitialSeq[Peer(e)] + 1)

\* No segment in the window has the number of a SYN.
LEMMA NoSynInWindow ==
  ASSUME LinkInv, StreamSettings, NEW e \in Ends, NEW s \in Sockets, Fits(s),
         Part(read[e], written[Peer(e)], 0), Expects(e, s), NEW g \in Segments, InWindow(s, g)
  PROVE  g.seq # InitialSeq[Peer(e)]
<1> SUFFICES ASSUME g.seq = InitialSeq[Peer(e)] PROVE FALSE
  OBVIOUS
<1> DEFINE p == Peer(e)
           i == InitialSeq[p]
           w == Len(written[p])
           r == Len(read[e])
           k == -1
<1>1. i \in Nat /\ i \in Seqs /\ w \in Nat /\ r \in Nat
  BY EndsOf, Bounds DEF Bounded
<1>2. k \in Int /\ -1 <= k /\ k <= w /\ i + 1 + k = i
  BY <1>1
<1>3. g.seq = Norm(i + 1 + k)
  BY <1>1, <1>2, NormSmall
<1> HIDE DEF k
<1>4. Starting(e, s, g, k)
  BY <1>2, <1>3, WindowGap
<1> QED BY <1>1, <1>4 DEF Starting, k

\* The data of a segment behind what is there already.
LEMMA DataAppends ==
  ASSUME LinkInv, StreamSettings, NEW e \in Ends, NEW s \in Sockets, Fits(s), Received(e, s),
         Expects(e, s), NEW g \in Segments, InWindow(s, g), g.data # <<>>,
         Placed(g.data, written[Peer(e)], InitialSeq[Peer(e)], g.seq),
         NEW u \in Sockets, Fits(u), u.gotFin = s.gotFin, u.irs = s.irs,
         NEW cb \in Int, NEW y \in Seq(Bytes), Skip(s, g) <= Len(g.data) => cb >= 0,
         cb <= Len(g.data) - Skip(s, g), Piece(Bytes, y, g.data, Skip(s, g), cb),
         u.rx = s.rx \o y, u.rcv = Norm(s.rcv + cb)
  PROVE  /\ ~u.gotFin /\ Part(u.rx, written[Peer(e)], Len(read[e])) /\ Expects(e, u)
         /\ TakenBy(e, u) >= TakenBy(e, s)
<1> DEFINE p == Peer(e)
           i == InitialSeq[p]
           x == written[p]
           w == Len(x)
           r == Len(read[e])
           l == Len(s.rx)
           c == Count(s.gotFin)
           h == Len(g.data)
           f == Skip(s, g)
           v == s.rcv
           n == Len(y)
<1>1. x \in Seq(Bytes) /\ w \in Nat /\ r \in Nat
  BY EndsOf, Bounds DEF Bounded
<1>2. s.rx \in Seq(Bytes) /\ l \in Nat /\ l <= Pages /\ s.gotFin \in BOOLEAN /\ c \in 0 .. 1
  BY StreamSizes, SocketFields, CountType DEF SocketTyped
<1>3. g.data \in Seq(Bytes) /\ h \in Nat /\ h > 0
  BY SegmentFields DEF SegmentTyped
<1>4. PICK k \in 0 .. w : g.seq = Norm(i + 1 + k) /\ Part(g.data, x, k)
  BY DEF Placed
<1>5. Starting(e, s, g, k)
  BY <1>1, <1>4, WindowGap DEF Received
<1>6. v = l + c /\ (s.gotFin => r + l = w) /\ Part(s.rx, x, r)
  BY DEF Expects, Received
<1>7. k + h <= w /\ r + l <= w
  BY <1>4, <1>6 DEF Part
<1>8. k \in Nat /\ k >= r /\ k - r <= v /\ v <= k - r + h /\ f = v - (k - r)
  <2> DEFINE d == SeqNbrOf(s, g)
  <2>1. k >= r /\ d = k - r /\ d <= v /\ v <= d + h /\ f = v - d
    BY <1>5 DEF Starting
  <2> HIDE DEF r, d, v, h, f
  <2>2. k \in Nat
    BY <1>1, <1>4
  <2> QED BY <2>1, <2>2
<1>9. n = IF cb > 0 THEN cb ELSE 0
  BY DEF Piece
<1>10. (f <= h => cb >= 0) /\ cb <= h - f
  OBVIOUS
<1>11. Len(u.rx) = l + n /\ Len(u.rx) <= Pages
  BY <1>2, Appended, StreamSizes
<1> DEFINE b == Len(u.rx)
<1> HIDE DEF p, i, x, w, r, l, c, h, f, v, n, b
<1>12. ~s.gotFin
  <2>1. s.gotFin => c = 1
    BY DEF c, Count
  <2> QED BY <1>1, <1>2, <1>3, <1>6, <1>7, <1>8, <2>1
<1>13. c = 0
  BY <1>12 DEF c, Count
<1>14. /\ f \in Nat /\ f <= h /\ cb \in Nat /\ n = cb /\ f + cb <= h /\ k + f = r + l
       /\ v + cb = l + n /\ l + n >= l
  BY <1>1, <1>2, <1>3, <1>6, <1>8, <1>9, <1>10, <1>13
<1>15. Part(y, x, k + f)
  <2>1. Part(g.data, x, k) /\ f <= Len(g.data) /\ f + cb <= Len(g.data)
        /\ Piece(Bytes, y, g.data, f, cb)
    BY <1>4, <1>14 DEF h, f
  <2> QED BY <1>1, <1>3, <1>8, <1>14, <2>1, PartOfPart
<1>16. Part(u.rx, x, r)
  <2>1. Part(y, x, r + Len(s.rx))
    BY <1>14, <1>15 DEF l
  <2> QED BY <1>1, <1>2, <1>6, <2>1, PartAppended
<1>17. u.rcv = b + Count(u.gotFin)
  <2>1. b = l + n /\ b <= Pages
    BY <1>11 DEF b
  <2>2. v + cb \in Seqs
    BY <1>2, <1>14, <2>1, Sizes DEF Seqs
  <2>3. u.rcv = v + cb
    BY <2>2, NormSmall DEF v
  <2>4. Count(u.gotFin) = 0
    BY <1>12 DEF Count
  <2> QED BY <1>2, <1>14, <2>1, <2>3, <2>4
<1>18. TakenBy(e, u) >= TakenBy(e, s)
  <2>1. TakenBy(e, u) = r + b + Count(u.gotFin) /\ TakenBy(e, s) = r + l + c
    BY DEF TakenBy, r, b, l, c
  <2>2. Count(u.gotFin) = c
    BY DEF c
  <2>3. b = l + n
    BY <1>11 DEF b
  <2> QED BY <1>1, <1>2, <1>13, <1>14, <2>1, <2>2, <2>3
<1>19. Expects(e, u)
  BY <1>17 DEF Expects, b
<1> QED BY <1>12, <1>16, <1>18, <1>19 DEF x, r, p

\* The processing of the SYN and of the data of a segment.
Loaded(e, s, g, u) ==
  /\ u \in Sockets /\ Indexed(u) /\ u.st = s.st /\ KeepsSend(s, u)
  /\ Arrived(e, u) /\ Due(e, u, g) /\ Progress(e, s, u)

LEMMA LoadKeeps ==
  ASSUME LinkInv, StreamSettings, NEW e \in Ends, NEW s \in Sockets, Indexed(s), Sender(e, s),
         Receiver(e, s), NEW g \in Emitted(Peer(e), sock[Peer(e)]), MayProcess(s, g),
         s.st = "SynSent" => written[Peer(e)] = <<>>,
         s.st \in SynStates /\ g.ack /\ AckInRange(s, g) => s.una >= s.nxt
  PROVE  Loaded(e, s, g, Load(s, g))
<1> DEFINE p == Peer(e)
           m == TCPProcessSYN(s, g)
           u == Load(s, g)
<1>1. p \in Ends /\ Peer(p) = e
  BY EndsOf
<1>2. g \in Segments /\ Genuine(g, p, sock[p])
  BY DEF Emitted
<1>3. m \in Sockets /\ Indexed(m) /\ u \in Sockets /\ Indexed(u)
  BY <1>2, LoadIndexed
<1>4. IsSynced(s, g, m) /\ IsLoaded(m, g, u)
  BY <1>2, <1>3, Syncs, Loads DEF Load, Indexed
<1> HIDE DEF m, u
<1>5. /\ u.st = s.st /\ KeepsSend(s, u) /\ u.gotFin = s.gotFin /\ u.irs = m.irs
      /\ m.st = s.st /\ m.rx = s.rx /\ m.rcv = s.rcv /\ m.gotFin = s.gotFin
      /\ m.irs = IF g.syn THEN Norm(g.seq + 1) ELSE s.irs
  BY <1>4 DEF IsSynced, IsLoaded, KeepsSend, KeepsSent
<1>6. Sender(e, u) /\ (Shaken(u) <=> Shaken(s))
  BY <1>5 DEF Sender, Regular, Hurried, Offset, Shaken, KeepsSend, KeepsSent
<1>7. SocketTyped(s) /\ SocketTyped(u) /\ SegmentTyped(g) /\ Fits(s) /\ Fits(u)
  BY <1>2, <1>3, SocketFields, SegmentFields DEF Indexed
<1>8. ~g.rst /\ (s.st \in Windowed => InWindow(s, g) /\ Expects(e, s)) /\ Received(e, s)
      /\ (s.st \in Opening => s.rx = <<>>) /\ (s.st = "Listen" => ~g.ack)
      /\ s.st \in Windowed \cup {"Listen", "SynSent"}
      /\ (s.st \in SynStates /\ g.ack => AckInRange(s, g))
  BY SynStatesOf DEF MayProcess, Receiver, Received, Windowed
<1>9. s.st \in Windowed => g.seq # InitialSeq[p] /\ ~g.syn /\ m.irs = s.irs
  <2>1. s.st \in Windowed => g.seq # InitialSeq[p]
    BY <1>2, <1>7, <1>8, NoSynInWindow DEF Received
  <2> QED BY <1>2, <1>5, <2>1 DEF Genuine
<1>10. TakenBy(e, s) \in Nat
  BY TakenBounds
<1>11. s.st = "Listen" \/ (s.st = "SynSent" /\ g.syn) => u.irs = Norm(InitialSeq[p] + 1)
  BY <1>2, <1>5, <1>8 DEF Genuine
<1>12. CASE u.rx = s.rx /\ u.rcv = s.rcv /\ (g.data # <<>> => s.st \in Windowed)
  <2>1. s.st \in Windowed => Expects(e, u)
    BY <1>5, <1>8, <1>9, <1>12 DEF Expects
  <2>2. Received(e, u)
    BY <1>5, <1>8, <1>12, <2>1 DEF Received
  <2>3. TakenBy(e, u) = TakenBy(e, s)
    BY <1>5, <1>12 DEF TakenBy
  <2>4. Progress(e, s, u)
    <3>1. s.st # "Unassigned"
      BY <1>8 DEF Windowed
    <3> QED BY <1>5, <1>10, <2>3, <3>1 DEF Progress, Writing
  <2>5. ASSUME g.fin, s.st \in Windowed
        PROVE  /\ ~u.gotFin /\ ~Writing(sock[p])
               /\ Len(read[e]) + Len(u.rx) = Len(written[p])
    <3> DEFINE w == Len(written[p])
               r == Len(read[e])
               l == Len(s.rx)
               c == Count(s.gotFin)
               d == SeqNbrOf(s, g)
    <3>1. g.data = <<>> /\ g.seq = Norm(InitialSeq[p] + 1 + w) /\ ~Writing(sock[p])
      BY <1>2, <1>9, <2>5 DEF Genuine
    <3>2. w \in Nat /\ r \in Nat /\ l \in Nat
      BY <1>1, <1>7, Bounds DEF Bounded, SocketTyped
    <3>3. Starting(e, s, g, w)
      BY <1>2, <1>7, <1>8, <2>5, <3>1, <3>2, WindowGap DEF Received
    <3>4. d = w - r /\ d <= s.rcv /\ s.rcv <= d + Len(g.data) /\ Len(g.data) = 0
      BY <3>1, <3>3 DEF Starting
    <3>5. s.rcv = l + c /\ (s.gotFin => r + l = w) /\ (s.gotFin => c = 1) /\ (~s.gotFin => c = 0)
      BY <1>8, <2>5 DEF Expects, Received, Count
    <3>6. ~s.gotFin /\ r + l = w
      <4> DEFINE v == s.rcv
      <4>1. v \in Nat /\ s.gotFin \in BOOLEAN
        BY <1>7 DEF SocketTyped
      <4>2. d = w - r /\ d <= v /\ v <= d + 0
        BY <3>4
      <4>3. v = l + c
        BY <3>5
      <4> HIDE DEF w, r, l, c, d, v
      <4>4. r + l = w - c
        BY <3>2, <3>5, <4>1, <4>2, <4>3
      <4> QED BY <3>2, <3>5, <4>1, <4>4
    <3> QED BY <1>5, <1>12, <3>1, <3>6 DEF r, l, w
  <2>6. Due(e, u, g)
    BY <1>5, <1>11, <2>5 DEF Due
  <2>7. Arrived(e, u)
    BY <1>5, <1>6, <1>8, <1>12, <2>2 DEF Arrived
  <2> QED BY <1>3, <1>5, <2>4, <2>6, <2>7 DEF Loaded, u
<1>13. g.data # <<>> => s.st \in Windowed /\ Placed(g.data, written[p], InitialSeq[p], g.seq)
                        /\ g.ack /\ ~g.fin /\ ~g.syn
  <2>1. SUFFICES ASSUME g.data # <<>> PROVE s.st \in Windowed
    BY <1>2 DEF Genuine
  <2>2. s.st # "Listen"
    BY <1>2, <1>8, <2>1 DEF Genuine
  <2>3. s.st # "SynSent"
    <3>1. SUFFICES ASSUME written[p] = <<>> PROVE FALSE
      OBVIOUS
    <3>2. PICK k \in 0 .. Len(written[p]) : Part(g.data, written[p], k)
      BY <1>2, <2>1 DEF Genuine, Placed
    <3>3. k = 0 /\ 0 + Len(g.data) <= 0
      BY <3>1, <3>2 DEF Part
    <3>4. Len(g.data) > 0
      BY <1>7, <2>1 DEF SegmentTyped
    <3> QED BY <3>3, <3>4
  <2> QED BY <1>8, <2>2, <2>3
<1>14. CASE ~(u.rx = s.rx /\ u.rcv = s.rcv)
  <2>1. PICK cb \in Int, y \in Seq(Bytes) :
          /\ Len(g.data) > 0
          /\ Skip(m, g) <= Len(g.data) => cb >= 0
          /\ cb <= Len(g.data) - Skip(m, g)
          /\ Piece(Bytes, y, g.data, Skip(m, g), cb)
          /\ u.rx = m.rx \o y /\ u.rcv = Norm(m.rcv + cb)
    BY <1>4, <1>5, <1>14 DEF IsLoaded
  <2>2. g.data # <<>>
    BY <2>1
  <2>3. s.st \in Windowed /\ g.ack /\ ~g.fin /\ ~g.syn
        /\ Placed(g.data, written[p], InitialSeq[p], g.seq)
    BY <1>13, <2>2
  <2>4. u.irs = s.irs /\ Skip(m, g) = Skip(s, g)
    BY <1>5, <1>9, <2>3 DEF Skip, SeqNbrOf
  <2>5. /\ Skip(s, g) <= Len(g.data) => cb >= 0
        /\ cb <= Len(g.data) - Skip(s, g) /\ Piece(Bytes, y, g.data, Skip(s, g), cb)
        /\ u.rx = s.rx \o y /\ u.rcv = Norm(s.rcv + cb)
    BY <1>5, <2>1, <2>4
  <2>6. /\ ~u.gotFin /\ Part(u.rx, written[p], Len(read[e])) /\ Expects(e, u)
        /\ TakenBy(e, u) >= TakenBy(e, s)
    BY <1>2, <1>3, <1>5, <1>7, <1>8, <2>2, <2>3, <2>4, <2>5, DataAppends
  <2>7. s.st \notin {"Listen", "SynSent", "Unassigned"}
    BY <2>3 DEF Windowed
  <2>8. Received(e, u)
    BY <1>5, <1>8, <2>6, <2>7 DEF Received
  <2>9. u.st \in Opening => Shaken(u)
    <3>1. s.st \in Opening => s.st \in SynStates \ {"SynSent"}
      BY <2>7 DEF Opening
    <3>2. s.st \in Opening => s.una >= s.nxt
      BY <1>8, <2>3, <3>1
    <3> QED BY <1>5, <1>6, <3>1, <3>2 DEF Shaken
  <2>10. Arrived(e, u)
    BY <1>6, <2>8, <2>9 DEF Arrived
  <2>11. Due(e, u, g)
    BY <1>5, <1>11, <2>3 DEF Due
  <2>12. Progress(e, s, u)
    BY <1>5, <2>6, <2>7 DEF Progress, Writing
  <2> QED BY <1>3, <1>5, <2>10, <2>11, <2>12 DEF Loaded, u
<1> QED BY <1>12, <1>13, <1>14

-----------------------------------------------------------------------------
(* What a socket sends.                                                    *)

\* Its acknowledgement is of all it has received.
LEMMA AckSent ==
  ASSUME LinkInv, StreamSettings, NEW e \in Ends, NEW m \in Sockets, Expects(e, m),
         NEW t \in Sockets, TakenBy(e, t) >= TakenBy(e, m), NEW h,
         h.ackNbr = Norm(m.irs + m.rcv)
  PROVE  AcksTaken(h, e, t)
<1> DEFINE i == InitialSeq[Peer(e)]
           r == Len(read[e])
           l == Len(m.rx)
           c == Count(m.gotFin)
           k == TakenBy(e, t)
           v == m.rcv
           j == 1 + r + l + c
<1>1. i \in Nat /\ r \in Nat
  BY EndsOf, Bounds DEF Bounded
<1>2. l \in Nat /\ c \in 0 .. 1
  BY SocketFields, CountType DEF SocketTyped
<1>3. k \in Nat /\ k >= r + l + c
  BY TakenBounds DEF TakenBy
<1>4. v = l + c /\ m.irs = Norm(i + 1 + r)
  BY DEF Expects
<1>5. h.ackNbr = Norm(Norm(i + 1 + r) + v)
  BY <1>4
<1> HIDE DEF i, r, l, c, k, v
<1>6. i + 1 + r \in Int /\ v \in Int /\ (i + 1 + r) + v = i + j /\ j \in 1 .. 1 + k
  BY <1>1, <1>2, <1>3, <1>4
<1> HIDE DEF j
<1>7. h.ackNbr = Norm(i + j)
  <2>1. Norm(Norm(i + 1 + r) + v) = Norm((i + 1 + r) + v)
    BY <1>6, NormSum
  <2> QED BY <1>5, <1>6, <2>1
<1> QED BY <1>6, <1>7 DEF AcksTaken, i, k

\* An acknowledgement without data, a SYN, and a FIN.
LEMMA HeaderSent ==
  ASSUME LinkInv, StreamSettings, NEW e \in Ends, NEW m \in Sockets, Fits(m), Expects(e, m),
         NEW t \in Sockets, TakenBy(e, t) >= TakenBy(e, m), t.st # "SynSent"
  PROVE  Segment(m, Header, TRUE, <<>>) \in Emitted(e, t)
<1> DEFINE h == Segment(m, Header, TRUE, <<>>)
<1>1. Header \in Headers /\ TRUE \in BOOLEAN /\ <<>> \in Seq(Bytes)
  BY HeadersOf
<1>2. IsSegment(h, m, Header, TRUE, <<>>)
  BY <1>1, SegmentType, Zenon
<1> HIDE DEF h
<1>3. h \in Segments /\ ~h.syn /\ ~h.fin /\ h.ack = TRUE /\ h.data = <<>>
      /\ h.ackNbr = Norm(m.irs + m.rcv)
  BY <1>2, HeaderFields DEF IsSegment
<1>4. AcksTaken(h, e, t)
  BY <1>3, AckSent
<1> QED BY <1>3, <1>4 DEF Emitted, Genuine, h

LEMMA SynSent_ ==
  ASSUME LinkInv, StreamSettings, NEW e \in Ends, NEW m \in Sockets, Fits(m), NEW t \in Sockets,
         Norm(m.iss + m.nxt) = InitialSeq[e], NEW fAck \in BOOLEAN,
         fAck => t.st # "SynSent" /\ Expects(e, m) /\ TakenBy(e, t) >= TakenBy(e, m)
  PROVE  Segment(m, Syn, fAck, <<>>) \in Emitted(e, t)
<1> DEFINE h == Segment(m, Syn, fAck, <<>>)
<1>1. Syn \in Headers /\ <<>> \in Seq(Bytes)
  BY HeadersOf
<1>2. IsSegment(h, m, Syn, fAck, <<>>)
  BY <1>1, SegmentType
<1> HIDE DEF h
<1>3. h \in Segments /\ h.syn /\ ~h.fin /\ ~h.rst /\ h.ack = fAck /\ h.data = <<>>
      /\ h.ackNbr = Norm(m.irs + m.rcv) /\ h.seq = InitialSeq[e]
  BY <1>2, HeaderFields DEF IsSegment
<1>4. fAck => AcksTaken(h, e, t)
  BY <1>3, AckSent
<1>5. AcksTaken(h, e, t)
  BY <1>3, <1>4 DEF AcksTaken
<1> QED BY <1>3, <1>5 DEF Emitted, Genuine, h

LEMMA FinSent ==
  ASSUME LinkInv, StreamSettings, NEW e \in Ends, NEW m \in Sockets, Fits(m), Expects(e, m),
         NEW t \in Sockets, TakenBy(e, t) >= TakenBy(e, m), t.st # "SynSent",
         \/ Norm(m.iss + m.nxt) = InitialSeq[e]
         \/ Norm(m.iss + m.nxt) = Norm(InitialSeq[e] + 1 + Len(written[e])) /\ ~Writing(t)
  PROVE  Segment(m, Fin, TRUE, <<>>) \in Emitted(e, t)
<1> DEFINE h == Segment(m, Fin, TRUE, <<>>)
<1>1. Fin \in Headers /\ TRUE \in BOOLEAN /\ <<>> \in Seq(Bytes)
  BY HeadersOf
<1>2. IsSegment(h, m, Fin, TRUE, <<>>)
  BY <1>1, SegmentType, Zenon
<1> HIDE DEF h
<1>3. h \in Segments /\ ~h.syn /\ h.fin /\ h.ack = TRUE /\ h.data = <<>>
      /\ h.ackNbr = Norm(m.irs + m.rcv) /\ h.seq = Norm(m.iss + m.nxt)
  BY <1>2, HeaderFields DEF IsSegment
<1>4. AcksTaken(h, e, t)
  BY <1>3, AckSent
<1> QED BY <1>3, <1>4 DEF Emitted, Genuine, h

\* The number of a FIN behind the last byte written.
LEMMA FinNumber ==
  ASSUME LinkInv, StreamSettings, NEW e \in Ends, NEW s \in Sockets,
         Regular(e, s) \/ (Hurried(e, s) /\ s.nxt = 0), s.nxt = Len(s.tx)
  PROVE  \/ Norm(s.iss + s.nxt) = InitialSeq[e]
         \/ Norm(s.iss + s.nxt) = Norm(InitialSeq[e] + 1 + Len(written[e]))
<1>1. InitialSeq[e] \in Nat /\ InitialSeq[e] \in Seqs /\ Len(written[e]) \in Nat
  BY Bounds DEF Bounded
<1>2. CASE Hurried(e, s) /\ s.nxt = 0
  <2>1. s.iss + s.nxt = InitialSeq[e]
    BY <1>1, <1>2 DEF Hurried
  <2> QED BY <1>1, <2>1, NormSmall
<1>3. CASE Regular(e, s)
  <2> DEFINE i == InitialSeq[e]
             w == Len(written[e])
             l == Len(s.tx)
             f == Offset(e, s)
             n == s.nxt
  <2>1. s.iss = Norm(i + 1 + f) /\ f = w - l /\ l \in Nat /\ n = l
    BY <1>3, SocketFields DEF Regular, Offset, SocketTyped
  <2>2. s.iss + s.nxt = Norm(i + 1 + f) + n
    BY <2>1
  <2>3. i \in Nat /\ w \in Nat
    BY <1>1
  <2> HIDE DEF i, w, l, f, n
  <2>4. i + 1 + f \in Int /\ n \in Int /\ (i + 1 + f) + n = i + 1 + w
    BY <2>1, <2>3
  <2>5. Norm(Norm(i + 1 + f) + n) = Norm((i + 1 + f) + n)
    BY <2>4, NormSum
  <2>6. Norm(s.iss + s.nxt) = Norm(i + 1 + w)
    BY <2>2, <2>4, <2>5
  <2> QED BY <2>6 DEF i, w
<1> QED BY <1>2, <1>3

-----------------------------------------------------------------------------
(* A pass keeps the streams.                                               *)

Passed(e, s, r) ==
  /\ Sender(e, r.s) /\ Receiver(e, r.s) /\ Progress(e, s, r.s)
  /\ r.out \in Seq(Emitted(e, r.s))

LEMMA OneSegment ==
  ASSUME NEW S
  PROVE  <<>> \in Seq(S) /\ \A h \in S : <<h>> \in Seq(S)
OBVIOUS

\* Sockets that differ only in the state and in what has been sent.
LEMMA SameStreams ==
  ASSUME NEW e \in Ends, NEW s \in Sockets, NEW t \in Sockets,
         t.iss = s.iss, t.una = s.una, t.tx = s.tx, KeepsReceive(s, t)
  PROVE  /\ Offset(e, t) = Offset(e, s) /\ TakenBy(e, t) = TakenBy(e, s)
         /\ Regular(e, s) => Regular(e, t)
         /\ Hurried(e, s) /\ t.st # "Established" => Hurried(e, t)
         /\ Expects(e, s) => Expects(e, t)
         /\ Received(e, s) /\ t.st \in Later /\ (t.st \in Windowed => Expects(e, s)) => Receiver(e, t)
<1>1. Offset(e, t) = Offset(e, s) /\ TakenBy(e, t) = TakenBy(e, s)
      /\ (Expects(e, s) => Expects(e, t))
  BY DEF Offset, TakenBy, Expects, KeepsReceive
<1>2. t.st \in Later => t.st \notin Opening \cup {"Unassigned", "Listen", "SynSent"}
  BY SynStatesOf DEF Opening, SynStates
<1>3. Received(e, s) /\ t.st \in Later /\ (t.st \in Windowed => Expects(e, s)) => Receiver(e, t)
  BY <1>1, <1>2 DEF Receiver, Received, KeepsReceive
<1>4. (Regular(e, s) => Regular(e, t)) /\ (Hurried(e, s) /\ t.st # "Established" => Hurried(e, t))
  BY <1>1 DEF Regular, Hurried
<1> QED BY <1>1, <1>3, <1>4

Sealed == {"WaitUserClose", "Closed", "Closing"}

\* A socket in the second half of its life is connected with the streams.
LEMMA LaterStreams ==
  ASSUME NEW e \in Ends, NEW s \in Sockets, NEW t \in Sockets, s.st \in Later, t.st \in Later,
         t.iss = s.iss, t.una = s.una, t.tx = s.tx, KeepsReceive(s, t), Sender(e, s),
         t.st = "Established" => s.st = "Established", t.st \in Sealed => t.una >= t.nxt
  PROVE  Sender(e, t)
<1>1. Regular(e, s) \/ Hurried(e, s)
  BY DEF Sender
<1>2. Regular(e, t) \/ Hurried(e, t)
  BY <1>1, SameStreams DEF Hurried
<1> QED BY <1>2, SynStatesOf DEF Sender, Sealed

\* The FIN of the peer is answered.
LEMMA FinTaken ==
  ASSUME LinkInv, StreamSettings, NEW e \in Ends, NEW s \in Sockets, Indexed(s), Sender(e, s),
         Received(e, s), NEW g, GotSegment(g), g.fin, Due(e, s, g), NEW r, AnswersFin(s, r, TRUE)
  PROVE  Passed(e, s, r) /\ Untouched(s, r.s)
<1> DEFINE p == Peer(e)
<1>1. PICK m \in Sockets, next \in TcpStates :
        /\ TakesFin(s, m, next)
        /\ \/ /\ s.st = "Established" /\ s.nxt = Len(s.tx) /\ next = "LastAck"
              /\ IsSent(m, r, Fin, 1, TRUE, TRUE)
           \/ /\ \/ s.st \in {"Established", "FinWait1"} /\ next = "CloseWait"
                 \/ s.st = "FinWait2" /\ next = "LastAck"
                 \/ s.st = "FinWait2" /\ s.una = s.nxt /\ next = "WaitUserClose"
                 \/ s.st = "Closing" /\ next = "WaitUserClose"
              /\ IsSent(m, r, Header, 0, TRUE, TRUE)
  BY DEF AnswersFin
<1>2. s.st \in Windowed /\ s.st \in Later /\ next \in {"LastAck", "CloseWait", "WaitUserClose"}
      /\ (next = "WaitUserClose" => s.st = "Closing" \/ s.una = s.nxt)
  BY <1>1 DEF Windowed, Later, DataStates, SynStates
<1>3. next \in Later /\ next \notin Opening \cup {"Established", "Unassigned", "SynSent"}
  BY <1>2 DEF Later, DataStates, Windowed, SynStates, Opening
<1>4. ~s.gotFin /\ ~Writing(sock[p]) /\ Len(read[e]) + Len(s.rx) = Len(written[p])
  BY <1>2 DEF Due
<1>5. m.st = next /\ KeepsSend(s, m) /\ m.irs = s.irs /\ m.rx = s.rx /\ m.rcv = Norm(s.rcv + 1)
      /\ m.gotFin
  BY <1>1 DEF TakesFin
<1>6. Expects(e, m) /\ TakenBy(e, m) >= TakenBy(e, s)
  <2> DEFINE l == Len(s.rx)
             k == Len(read[e])
  <2>1. l \in Nat /\ l <= Pages /\ k \in Nat
    BY StreamSizes, Bounds DEF Indexed, Bounded
  <2>2. Expects(e, s) /\ Count(s.gotFin) = 0 /\ Count(m.gotFin) = 1
    BY <1>2, <1>4, <1>5 DEF Received, Count
  <2>3. s.rcv = l
    BY <2>1, <2>2 DEF Expects
  <2>4. l + 1 \in Seqs
    BY <2>1, Sizes DEF Seqs
  <2>5. m.rcv = l + 1
    BY <1>5, <2>3, <2>4, NormSmall
  <2>6. Expects(e, m)
    BY <1>5, <2>2, <2>5 DEF Expects
  <2>7. TakenBy(e, m) = k + l + 1 /\ TakenBy(e, s) = k + l + 0
    BY <1>5, <2>2 DEF TakenBy
  <2> HIDE DEF l, k
  <2>8. TakenBy(e, m) >= TakenBy(e, s)
    BY <2>1, <2>7
  <2> QED BY <2>6, <2>8
<1>7. Received(e, m)
  BY <1>2, <1>3, <1>4, <1>5, <1>6, SynStatesOf DEF Received, Opening
<1>8. s.una >= s.nxt \/ next # "WaitUserClose"
  BY <1>1, <1>2, SocketFields DEF Sender, SocketTyped
<1>9. Regular(e, m) \/ Hurried(e, m)
  <2>1. Regular(e, s) \/ Hurried(e, s)
    BY <1>2 DEF Sender
  <2> QED BY <1>3, <1>5, <2>1 DEF Regular, Hurried, Offset, KeepsSend, KeepsSent
<1>10. PICK h \in {Fin, Header}, cb \in {0, 1} :
         /\ IsSent(m, r, h, cb, TRUE, TRUE)
         /\ cb = 1 => next = "LastAck" /\ s.st = "Established" /\ s.nxt = Len(s.tx) /\ h = Fin
         /\ cb = 0 => h = Header
  <2>1. CASE /\ s.st = "Established" /\ s.nxt = Len(s.tx) /\ next = "LastAck"
             /\ IsSent(m, r, Fin, 1, TRUE, TRUE)
    <3>1. 1 # 0
      OBVIOUS
    <3> QED BY <2>1, <3>1, Zenon
  <2>2. CASE IsSent(m, r, Header, 0, TRUE, TRUE)
    <3>1. 1 # 0
      OBVIOUS
    <3> QED BY <2>2, <3>1, Zenon
  <2> QED BY <1>1, <2>1, <2>2
<1>11. /\ r.s \in Sockets /\ r.s.st = next /\ KeepsSent(m, r.s) /\ KeepsReceive(m, r.s)
       /\ r.s.nxt = m.nxt + cb /\ r.out = <<Segment(m, h, TRUE, <<>>)>>
  BY <1>5, <1>10 DEF IsSent, Results
<1>12. TakenBy(e, r.s) = TakenBy(e, m) /\ Receiver(e, r.s)
  BY <1>3, <1>6, <1>7, <1>11, SameStreams DEF KeepsSent
<1>13. Sender(e, r.s)
  <2>1. Regular(e, r.s) \/ Hurried(e, r.s)
    BY <1>3, <1>9, <1>11, SameStreams DEF KeepsSent
  <2>2. next = "WaitUserClose" => r.s.una >= r.s.nxt
    <3>1. next = "WaitUserClose" => cb = 0
      BY <1>10
    <3>2. m.nxt = s.nxt /\ m.una = s.una /\ s.nxt \in Nat
      BY <1>5, SocketFields DEF KeepsSend, KeepsSent, SocketTyped
    <3> QED BY <1>8, <1>11, <3>1, <3>2 DEF KeepsSent
  <2> QED BY <1>2, <1>3, <1>11, <2>1, <2>2 DEF Sender
<1>14. Progress(e, s, r.s) /\ Untouched(s, r.s)
  <2>1. s.st # "Unassigned" /\ next \notin {"Listen", "SynReceivedWhileListening", "SynReceived",
          "SynSent", "Established", "Unassigned"}
    BY <1>2 DEF Windowed
  <2> QED BY <1>3, <1>6, <1>11, <1>12, <2>1 DEF Progress, Untouched, Untried, Writing
<1>15. r.out \in Seq(Emitted(e, r.s))
  <2>1. Fits(m) /\ r.s.st # "SynSent" /\ ~Writing(r.s) /\ TakenBy(e, r.s) >= TakenBy(e, m)
    <3>1. Fits(m)
      BY <1>5 DEF Indexed, Fits, KeepsSend, KeepsSent
    <3>2. TakenBy(e, m) \in Nat
      BY TakenBounds
    <3> QED BY <1>3, <1>11, <1>12, <3>1, <3>2 DEF Writing
  <2>2. CASE cb = 0
    BY <1>6, <1>10, <1>11, <2>1, <2>2, HeaderSent, OneSegment
  <2>3. CASE cb = 1
    <3>1. Regular(e, s) /\ s.nxt = Len(s.tx)
      BY <1>2, <1>10, <2>3 DEF Sender, Hurried
    <3>2. \/ Norm(s.iss + s.nxt) = InitialSeq[e]
          \/ Norm(s.iss + s.nxt) = Norm(InitialSeq[e] + 1 + Len(written[e]))
      BY <3>1, FinNumber
    <3>3. Norm(m.iss + m.nxt) = Norm(s.iss + s.nxt)
      BY <1>5 DEF KeepsSend, KeepsSent
    <3>4. Segment(m, Fin, TRUE, <<>>) \in Emitted(e, r.s)
      BY <1>6, <1>11, <2>1, <3>2, <3>3, FinSent
    <3> QED BY <1>10, <1>11, <2>3, <3>4, OneSegment
  <2> QED BY <2>2, <2>3
<1> QED BY <1>12, <1>13, <1>14, <1>15 DEF Passed

\* A FIN goes out when all data are acknowledged.
LEMMA FinFollows ==
  ASSUME LinkInv, StreamSettings, NEW e \in Ends, NEW s \in Sockets, Indexed(s), Sender(e, s),
         Received(e, s), NEW r, SendsFin(s, r, TRUE)
  PROVE  Passed(e, s, r) /\ Untouched(s, r.s)
<1>1. PICK m \in Sockets, next \in TcpStates :
        /\ \/ s.st = "CloseWait" /\ next = "LastAck"
           \/ s.st = "FinWait1" /\ next = "FinWait2"
        /\ Len(s.tx) = s.una /\ Moves(s, m, next) /\ IsSent(m, r, Fin, 1, TRUE, TRUE)
  BY DEF SendsFin
<1>2. s.st \in Windowed /\ s.st \in Later /\ s.st \in Streaming /\ next \in {"LastAck", "FinWait2"}
      /\ s.st # "Unassigned"
  BY <1>1 DEF Windowed, Later, DataStates, SynStates, Streaming
<1>3. next \in Later /\ next \notin Opening \cup Sealed
      /\ next \notin {"Listen", "SynReceivedWhileListening", "SynReceived",
                      "SynSent", "Established", "Unassigned"}
  BY <1>2 DEF Later, DataStates, Windowed, SynStates, Opening, Sealed
<1>4. m.st = next /\ KeepsSend(s, m) /\ KeepsReceive(s, m)
  BY <1>1 DEF Moves
<1>5. /\ r.s \in Sockets /\ r.s.st = next /\ KeepsSent(m, r.s) /\ KeepsReceive(m, r.s)
      /\ r.out = <<Segment(m, Fin, TRUE, <<>>)>>
  BY <1>1, <1>4 DEF IsSent, Results
<1>6. r.s.iss = s.iss /\ r.s.una = s.una /\ r.s.tx = s.tx /\ KeepsReceive(s, r.s)
  BY <1>4, <1>5 DEF KeepsSend, KeepsSent, KeepsReceive
<1>7. Sender(e, r.s)
  BY <1>2, <1>3, <1>5, <1>6, LaterStreams
<1>8. Expects(e, s)
  BY <1>2 DEF Received
<1>9. TakenBy(e, r.s) = TakenBy(e, s) /\ Receiver(e, r.s)
  BY <1>3, <1>5, <1>6, <1>8, SameStreams
<1>10. Fits(m) /\ Expects(e, m) /\ TakenBy(e, m) = TakenBy(e, s) /\ TakenBy(e, s) \in Nat
  BY <1>4, <1>8, TakenBounds DEF Fits, Indexed, KeepsSend, KeepsSent, KeepsReceive, Expects, TakenBy
<1>11. Progress(e, s, r.s) /\ Untouched(s, r.s)
  BY <1>2, <1>3, <1>5, <1>9, <1>10 DEF Progress, Untouched, Untried, Writing
<1>12. s.nxt = Len(s.tx)
  <2> DEFINE l == Len(s.tx)
  <2>1. s.nxt <= l /\ s.una = l /\ (s.una <= s.nxt \/ s.tx = <<>>) /\ l \in Nat /\ s.nxt \in Nat
    BY <1>1, <1>2, SocketFields DEF Indexed, Ordered, SocketTyped
  <2>2. s.tx = <<>> => l = 0
    OBVIOUS
  <2> HIDE DEF l
  <2>3. s.nxt = l
    BY <2>1, <2>2
  <2> QED BY <2>3 DEF l
<1>13. Segment(m, Fin, TRUE, <<>>) \in Emitted(e, r.s)
  <2>1. Regular(e, s) \/ (Hurried(e, s) /\ s.nxt = 0)
    BY <1>2, <1>12 DEF Sender, Hurried
  <2>2. \/ Norm(m.iss + m.nxt) = InitialSeq[e]
        \/ Norm(m.iss + m.nxt) = Norm(InitialSeq[e] + 1 + Len(written[e]))
    BY <1>4, <1>12, <2>1, FinNumber DEF KeepsSend, KeepsSent
  <2>3. ~Writing(r.s) /\ r.s.st # "SynSent"
    BY <1>3, <1>5 DEF Writing
  <2>4. TakenBy(e, r.s) >= TakenBy(e, m)
    BY <1>9, <1>10
  <2> QED BY <1>5, <1>10, <2>2, <2>3, <2>4, FinSent
<1> QED BY <1>5, <1>7, <1>9, <1>11, <1>13, OneSegment DEF Passed

\* Data and acknowledgements.
LEMMA StreamFollows ==
  ASSUME LinkInv, StreamSettings, NEW e \in Ends, NEW s \in Sockets, Indexed(s), Sender(e, s),
         Received(e, s), NEW r, SendsStream(s, r, TRUE)
  PROVE  Passed(e, s, r) /\ Untouched(s, r.s)
<1>1. /\ s.st \in Streaming /\ r \in Results /\ r.s.st = s.st /\ KeepsReceive(s, r.s)
      /\ IsQuiet(s, r) \/ SendsData(s, r, TRUE)
  BY DEF SendsStream, IsProcessedTx
<1>2. s.st \in Windowed /\ s.st \in Later \ Sealed
      /\ s.st \notin {"Unassigned", "SynSent", "SynReceived", "Listen", "SynReceivedWhileListening"}
  BY <1>1 DEF Streaming, Windowed, Later, DataStates, SynStates, Sealed
<1>3. r.s \in Sockets /\ Expects(e, s) /\ TakenBy(e, s) \in Nat
  BY <1>1, <1>2, TakenBounds DEF Results, Received
<1>4. TakenBy(e, r.s) = TakenBy(e, s) /\ Receiver(e, r.s)
  <2>1. TakenBy(e, r.s) = TakenBy(e, s) /\ Expects(e, r.s)
    BY <1>1, <1>3 DEF TakenBy, Expects, KeepsReceive
  <2>2. s.st \notin Opening
    BY <1>2 DEF Opening, SynStates
  <2> QED BY <1>1, <1>2, <2>1, <2>2 DEF Receiver, Received, KeepsReceive
<1>5. Progress(e, s, r.s) /\ Untouched(s, r.s)
  BY <1>1, <1>2, <1>3, <1>4 DEF Progress, Untouched, Untried, Writing
<1>6. CASE IsQuiet(s, r)
  <2>1. KeepsSend(s, r.s) /\ (r.out = <<>> \/ r.out = <<Segment(s, Header, TRUE, <<>>)>>)
    BY <1>6 DEF IsQuiet
  <2>2. Sender(e, r.s)
    BY <1>1, <1>2, <1>3, <2>1, LaterStreams DEF KeepsSend, KeepsSent
  <2>3. Segment(s, Header, TRUE, <<>>) \in Emitted(e, r.s)
    <3>1. TakenBy(e, r.s) >= TakenBy(e, s) /\ r.s.st # "SynSent" /\ Fits(s)
      BY <1>1, <1>2, <1>3, <1>4 DEF Indexed
    <3> QED BY <1>3, <3>1, HeaderSent
  <2> QED BY <1>4, <1>5, <2>1, <2>2, <2>3, OneSegment DEF Passed
<1>7. CASE SendsData(s, r, TRUE)
  <2>1. PICK cb \in Nat, g \in Segments : IsDataSent(s, r, cb, g, TRUE)
    BY <1>7 DEF SendsData
  <2> DEFINE i == InitialSeq[e]
             x == written[e]
             w == Len(x)
             l == Len(s.tx)
             f == Offset(e, s)
             u == s.una
             n == s.nxt
             y == r.s.tx
  <2>2. /\ cb > 0 /\ u <= n /\ n + cb <= l /\ r.s.iss = Norm(s.iss + u) /\ r.s.una = 0
        /\ Piece(Bytes, y, s.tx, u, l - u) /\ r.out = <<g>>
        /\ ~g.syn /\ ~g.fin /\ ~g.rst /\ g.ack
        /\ g.seq = Norm(s.iss + n) /\ g.ackNbr = Norm(s.irs + s.rcv)
        /\ Piece(Bytes, g.data, s.tx, n, cb)
    BY <2>1 DEF IsDataSent
  <2>3. /\ i \in Nat /\ x \in Seq(Bytes) /\ w \in Nat /\ s.tx \in Seq(Bytes) /\ l \in Nat
        /\ u \in Nat /\ n \in Nat
    BY Bounds, SocketFields DEF Bounded, SocketTyped
  <2>4. Regular(e, s)
    <3>1. l > 0
      <4> HIDE DEF l, n
      <4> QED BY <2>2, <2>3
    <3> QED BY <1>2, <3>1 DEF Sender, Hurried
  <2>5. /\ s.iss = Norm(i + 1 + f) /\ f = w - l /\ f >= 0 /\ Part(s.tx, x, f)
        /\ Alive(Peer(e)) => f + u <= Taken(Peer(e))
    BY <2>4 DEF Regular, Offset
  <2>6. Len(y) = l - u
    <3>1. Len(y) = IF l - u > 0 THEN l - u ELSE 0
      BY <2>2 DEF Piece
    <3> HIDE DEF l, u, n
    <3> QED BY <2>2, <2>3, <3>1
  <2>7. Offset(e, r.s) = f + u /\ f \in Nat
    <3> DEFINE m == Len(y)
    <3>1. Offset(e, r.s) = w - m
      BY DEF Offset
    <3> HIDE DEF w, l, u, m, f
    <3>2. m = l - u
      BY <2>6 DEF m
    <3> QED BY <2>3, <2>5, <3>1, <3>2
  <2>8. Part(y, x, f + u) /\ Part(g.data, x, f + n)
    <3> HIDE DEF x, f, u, n
    <3>1. u <= Len(s.tx) /\ u + (l - u) <= Len(s.tx) /\ n <= Len(s.tx) /\ n + cb <= Len(s.tx)
      <4>1. Len(s.tx) = l
        OBVIOUS
      <4> HIDE DEF l
      <4> QED BY <2>2, <2>3, <4>1
    <3>2. Part(y, x, f + u)
      BY <2>2, <2>3, <2>5, <2>7, <3>1, PartOfPart
    <3>3. Part(g.data, x, f + n)
      <4> DEFINE d == g.data
      <4>1. Piece(Bytes, d, s.tx, n, cb) /\ cb \in Int /\ n \in Nat /\ f \in Nat
            /\ x \in Seq(Bytes) /\ s.tx \in Seq(Bytes) /\ Part(s.tx, x, f)
        BY <2>2, <2>3, <2>5, <2>7
      <4> HIDE DEF d
      <4>2. Part(d, x, f + n)
        BY <3>1, <4>1, PartOfPart
      <4> QED BY <4>2 DEF d
    <3> QED BY <3>2, <3>3
  <2>9. r.s.iss = Norm(i + 1 + (f + u)) /\ g.seq = Norm(i + 1 + (f + n))
    <3>1. s.iss = Norm(i + 1 + f) /\ i + 1 + f \in Int /\ u \in Int /\ n \in Int
      <4>1. i \in Nat /\ f \in Nat /\ u \in Nat /\ n \in Nat
        BY <2>3, <2>7
      <4> HIDE DEF i, f, u, n
      <4>2. i + 1 + f \in Int /\ u \in Int /\ n \in Int
        BY <4>1
      <4>3. s.iss = Norm(i + 1 + f)
        BY <2>5
      <4> QED BY <4>2, <4>3
    <3>2. (i + 1 + f) + u = i + 1 + (f + u) /\ (i + 1 + f) + n = i + 1 + (f + n)
      <4>1. i \in Nat /\ f \in Nat /\ u \in Nat /\ n \in Nat
        BY <2>3, <2>7
      <4> HIDE DEF i, f, u, n
      <4> QED BY <4>1
    <3>3. r.s.iss = Norm(Norm(i + 1 + f) + u) /\ g.seq = Norm(Norm(i + 1 + f) + n)
      BY <2>2, <2>5
    <3> HIDE DEF i, f, u, n
    <3> QED BY <3>1, <3>2, <3>3, NormSum
  <2>10. Regular(e, r.s)
    <3> DEFINE q == f + u
    <3>1. q \in Nat
      <4>1. f \in Nat /\ u \in Nat
        BY <2>3, <2>7
      <4> HIDE DEF f, u
      <4> QED BY <4>1
    <3>2. Offset(e, r.s) = q /\ r.s.iss = Norm(i + 1 + q) /\ Part(y, x, q) /\ r.s.una = 0
          /\ (Alive(Peer(e)) => q <= Taken(Peer(e)))
      BY <2>2, <2>5, <2>7, <2>8, <2>9
    <3> HIDE DEF q
    <3>3. q + 0 = q /\ q >= 0
      BY <3>1
    <3> QED BY <3>2, <3>3 DEF Regular
  <2>11. Sender(e, r.s)
    BY <1>1, <1>2, <2>10, SynStatesOf DEF Sender, Sealed
  <2>12. AcksTaken(g, e, r.s)
    BY <1>3, <1>4, <2>2, AckSent
  <2>13. f + n \in 0 .. w
    <3> HIDE DEF f, n, w, l
    <3> QED BY <2>2, <2>3, <2>5, <2>7
  <2>14. Placed(g.data, x, i, g.seq)
    BY <2>8, <2>9, <2>13 DEF Placed
  <2>15. g \in Emitted(e, r.s)
    BY <1>1, <1>2, <2>2, <2>12, <2>14 DEF Emitted, Genuine
  <2> QED BY <1>4, <1>5, <2>2, <2>11, <2>15, OneSegment DEF Passed
<1> QED BY <1>1, <1>6, <1>7

LEMMA StreamsKeep ==
  ASSUME LinkInv, StreamSettings, NEW e \in Ends, NEW s \in Sockets, Indexed(s), Sender(e, s),
         Received(e, s), NEW g, Due(e, s, g), NEW r, Streams(s, g, r, TRUE)
  PROVE  Passed(e, s, r) /\ Untouched(s, r.s)
<1>1. CASE GotSegment(g) /\ g.fin /\ AnswersFin(s, r, TRUE)
  BY <1>1, FinTaken
<1>2. CASE SendsFin(s, r, TRUE)
  BY <1>2, FinFollows
<1>3. CASE SendsStream(s, r, TRUE)
  BY <1>3, StreamFollows
<1> QED BY <1>1, <1>2, <1>3 DEF Streams

LEMMA PassedThrough ==
  ASSUME LinkInv, StreamSettings, NEW e \in Ends, NEW s \in Sockets, NEW m \in Sockets,
         Progress(e, s, m), NEW r \in Results, Passed(e, m, r)
  PROVE  Passed(e, s, r)
<1>1. TakenBy(e, s) \in Nat /\ TakenBy(e, m) \in Nat /\ TakenBy(e, r.s) \in Nat
  BY TakenBounds DEF Results
<1> DEFINE a == TakenBy(e, s)
           b == TakenBy(e, m)
           c == TakenBy(e, r.s)
<1>2. a >= b /\ b >= a => a = b
  BY <1>1
<1>3. c >= b /\ b >= a => c >= a
  <2> HIDE DEF a, b, c
  <2> QED BY <1>1 DEF a, b, c
<1> QED BY <1>3 DEF Passed, Progress

\* A reset, after which the server listens again.
LEMMA ResetKeeps ==
  ASSUME LinkInv, StreamSettings, NEW e \in Ends, NEW s \in Sockets, Sender(e, s),
         Received(e, s), s.st = "SynReceivedWhileListening" => s.rx = <<>>, NEW t, IsReset(s, t)
  PROVE  /\ t \in Sockets /\ Sender(e, t) /\ Receiver(e, t) /\ Progress(e, s, t)
         /\ Untouched(s, t) /\ t.st \in {"Listen", "Unassigned"}
<1>1. /\ t \in Sockets /\ t.una = 0 /\ t.nxt = 0 /\ t.tx = <<>> /\ t.rcv = 0 /\ ~t.gotFin
      /\ t.rx = <<>>
      /\ IF s.st = "SynReceivedWhileListening"
         THEN t.st = "Listen" /\ t.iss = s.iss /\ t.probe = s.probe
         ELSE t.st = "Unassigned"
  BY DEF IsReset
<1>2. s.st = "SynReceivedWhileListening" => s.st \in Opening /\ ~s.gotFin /\ s.rx = <<>>
  BY DEF Received, Opening, SynStates
<1>3. /\ Part(read[e], written[Peer(e)], 0) /\ Part(<<>>, written[Peer(e)], Len(read[e]))
  BY EndsOf, Bounds DEF Received, Part, Bounded
<1>4. {"Listen", "Unassigned"} \cap Windowed = {} /\ "Unassigned" \notin Opening \cup Later
      /\ "Listen" \notin Later /\ {"Listen", "Unassigned"} \cap Sealed = {}
  BY SynStatesOf DEF Windowed, Sealed, Opening, SynStates
<1>5. Receiver(e, t)
  BY <1>1, <1>2, <1>3, <1>4 DEF Receiver, Received
<1>6. Sender(e, t)
  BY <1>1, <1>2, <1>4 DEF Sender, Count, Sealed
<1>7. t.st = "Listen" => TakenBy(e, t) = TakenBy(e, s)
  <2>1. t.st = "Listen" => t.rx = s.rx /\ Count(t.gotFin) = Count(s.gotFin)
    BY <1>1, <1>2 DEF Count
  <2> QED BY <2>1 DEF TakenBy
<1>8. TakenBy(e, s) \in Nat
  BY TakenBounds
<1>9. t.st = "Listen" => Writing(s)
  BY <1>1, <1>2 DEF Writing
<1>10. Progress(e, s, t)
  BY <1>1, <1>7, <1>8, <1>9 DEF Progress, Writing, Opening, SynStates
<1> QED BY <1>1, <1>5, <1>6, <1>10 DEF Untouched, Untried

\* The SYN of the peer is answered.
LEMMA SynAnswered ==
  ASSUME LinkInv, StreamSettings, NEW e \in Ends, NEW s \in Sockets, Indexed(s), Arrived(e, s),
         NEW g, Due(e, s, g), NEW r, AnswersSyn(s, g, r, TRUE)
  PROVE  Passed(e, s, r) /\ Untouched(s, r.s)
<1> DEFINE i == InitialSeq[e]
<1>1. PICK m \in Sockets :
        \/ /\ s.st = "Listen" /\ GotSegment(g) /\ Moves(s, m, "SynReceivedWhileListening")
           /\ IsSent(m, r, Syn, 1, TRUE, TRUE)
        \/ /\ s.st = "SynSent" /\ GotSegment(g) /\ g.syn /\ Moves(s, m, "SynReceived")
           /\ IsSent(m, r, Header, 0, TRUE, TRUE)
  BY DEF AnswersSyn
<1>2. s.st \in {"Listen", "SynSent"} /\ s.st \in Opening /\ s.st # "Unassigned"
  BY <1>1 DEF Opening, SynStates
<1>3. /\ s.iss = i /\ written[e] = <<>> /\ ~s.probe /\ s.nxt = Count(s.st # "Listen")
      /\ read[e] = <<>> /\ ~s.gotFin /\ s.rx = <<>> /\ s.rcv = 0
      /\ Part(read[e], written[Peer(e)], 0) /\ Part(s.rx, written[Peer(e)], Len(read[e]))
  BY <1>2 DEF Arrived, Sender, Received
<1>4. s.irs = Norm(InitialSeq[Peer(e)] + 1)
  BY <1>1 DEF Due
<1>5. KeepsSend(s, m) /\ KeepsReceive(s, m) /\ m.st \in SynStates \ {"SynSent"}
      /\ m.st \in Opening \cap Windowed
  BY <1>1 DEF Moves, SynStates, Windowed, Opening
<1>6. Expects(e, s) /\ Expects(e, m) /\ Fits(m)
  <2>1. Len(read[e]) = 0 /\ Len(s.rx) = 0 /\ Count(s.gotFin) = 0
        /\ InitialSeq[Peer(e)] + 1 \in Int
    BY <1>3, EndsOf, Bounds DEF Count, Bounded
  <2>2. Expects(e, s)
    BY <1>3, <1>4, <2>1, EndsOf, Bounds DEF Expects, Bounded
  <2> QED BY <1>5, <2>2 DEF Expects, KeepsReceive, KeepsSend, KeepsSent, Fits, Indexed
<1>7. PICK h \in {Syn, Header}, cb \in {0, 1} :
        /\ IsSent(m, r, h, cb, TRUE, TRUE) /\ s.nxt + cb = 1
        /\ h = Syn => s.st = "Listen" /\ m.st = "SynReceivedWhileListening" /\ cb = 1
        /\ h # Syn => s.st = "SynSent" /\ m.st = "SynReceived" /\ cb = 0
  <2>1. Syn # Header /\ 1 \in {0, 1} /\ 0 \in {0, 1}
    <3>1. Syn.syn # Header.syn
      BY HeaderFields
    <3> QED BY <3>1
  <2>2. s.nxt = IF s.st = "Listen" THEN 0 ELSE 1
    BY <1>3 DEF Count
  <2>3. CASE s.st = "Listen" /\ m.st = "SynReceivedWhileListening" /\ IsSent(m, r, Syn, 1, TRUE, TRUE)
    <3>1. s.nxt + 1 = 1
      BY <2>2, <2>3
    <3> QED BY <2>1, <2>3, <3>1, Zenon
  <2>4. CASE s.st = "SynSent" /\ m.st = "SynReceived" /\ IsSent(m, r, Header, 0, TRUE, TRUE)
    <3>1. s.nxt + 0 = 1
      BY <2>2, <2>4
    <3> QED BY <2>1, <2>4, <3>1, Zenon
  <2> QED BY <1>1, <2>3, <2>4 DEF Moves
<1>8. /\ r.s \in Sockets /\ r.s.st = m.st /\ KeepsSent(s, r.s) /\ KeepsReceive(s, r.s)
      /\ r.s.nxt = 1 /\ r.out = <<Segment(m, h, TRUE, <<>>)>>
  BY <1>5, <1>7 DEF IsSent, Results, KeepsSend, KeepsSent, KeepsReceive
<1>9. Sender(e, r.s)
  <2>1. m.st \notin Later \cup Sealed /\ m.st # "Listen"
    BY <1>5 DEF SynStates, Later, DataStates, Sealed
  <2> QED BY <1>3, <1>8, <2>1 DEF Sender, Count, KeepsSent, Sealed
<1>10. Receiver(e, r.s) /\ TakenBy(e, r.s) = TakenBy(e, s) /\ TakenBy(e, m) = TakenBy(e, s)
  <2>1. m.st \notin {"Listen", "SynSent", "Unassigned"}
    BY <1>5 DEF SynStates
  <2>2. Expects(e, r.s) /\ TakenBy(e, r.s) = TakenBy(e, s) /\ TakenBy(e, m) = TakenBy(e, s)
    BY <1>5, <1>6, <1>8 DEF Expects, TakenBy, KeepsReceive
  <2> QED BY <1>3, <1>8, <2>1, <2>2 DEF Receiver, Received, KeepsReceive
<1>11. TakenBy(e, s) \in Nat
  BY TakenBounds
<1>12. Progress(e, s, r.s)
  <2>1. r.s.st = "SynReceivedWhileListening" => s.st = "Listen"
    BY <1>7, <1>8
  <2>2. r.s.st = "SynReceived" => s.st = "SynSent"
    BY <1>7, <1>8
  <2>3. r.s.st \in {"SynReceivedWhileListening", "SynReceived"}
    BY <1>7, <1>8
  <2> QED BY <1>2, <1>10, <1>11, <2>1, <2>2, <2>3 DEF Progress, Writing
<1>13. Untouched(s, r.s)
  <2>1. s.st = "Listen" => r.s.una = 0 /\ r.s.st = "SynReceivedWhileListening"
    BY <1>7, <1>8 DEF Indexed, KeepsSent
  <2> QED BY <1>2, <2>1 DEF Untouched, Untried
<1>14. Segment(m, h, TRUE, <<>>) \in Emitted(e, r.s)
  <2>1. TakenBy(e, r.s) >= TakenBy(e, m) /\ r.s.st # "SynSent"
    BY <1>5, <1>8, <1>10, <1>11
  <2>2. CASE h = Syn
    <3>1. m.iss = i /\ m.nxt = 0
      BY <1>3, <1>5, <1>7, <2>2 DEF KeepsSend, KeepsSent, Count
    <3>2. Norm(m.iss + m.nxt) = InitialSeq[e]
      <4>1. i + 0 = i /\ i \in Seqs
        BY Bounds DEF Bounded
      <4> QED BY <3>1, <4>1, NormSmall
    <3>3. TRUE \in BOOLEAN /\ (TRUE => r.s.st # "SynSent" /\ Expects(e, m)
                                       /\ TakenBy(e, r.s) >= TakenBy(e, m))
      BY <1>6, <2>1
    <3>4. Segment(m, Syn, TRUE, <<>>) \in Emitted(e, r.s)
      BY <1>6, <1>8, <3>2, <3>3, SynSent_, Zenon
    <3> QED BY <2>2, <3>4, Zenon
  <2>3. CASE h = Header
    BY <1>6, <1>8, <2>1, <2>3, HeaderSent
  <2> QED BY <1>7, <2>2, <2>3
<1> QED BY <1>8, <1>9, <1>10, <1>12, <1>13, <1>14, OneSegment DEF Passed

LEMMA ProgressOf ==
  ASSUME LinkInv, StreamSettings, NEW e \in Ends, NEW s \in Sockets, NEW t \in Sockets,
         t.st = s.st, t.rx = s.rx, t.gotFin = s.gotFin
  PROVE  TakenBy(e, t) = TakenBy(e, s) /\ Progress(e, s, t)
<1>1. TakenBy(e, s) \in Nat /\ TakenBy(e, t) = TakenBy(e, s)
  BY TakenBounds DEF TakenBy
<1>2. TakenBy(e, t) >= TakenBy(e, s)
  BY <1>1
<1> QED BY <1>1, <1>2 DEF Progress, Writing

\* A socket that has closed what it had to goes to the next state.
LEMMA FinishKeeps ==
  ASSUME LinkInv, StreamSettings, NEW e \in Ends, NEW s \in Sockets, Sender(e, s),
         Received(e, s), NEW r \in Results, Finishes(s, r)
  PROVE  Passed(e, s, r) /\ Untouched(s, r.s)
<1> DEFINE t == r.s
<1>1. PICK next \in {"WaitUserClose", "Closing", "Closed"} :
        /\ Moves(s, t, next) /\ r.out = <<>> /\ s.st \in {"LastAck", "FinWait2", "WaitUserClose"}
        /\ next = "Closing" => s.st = "FinWait2"
        /\ s.st = "WaitUserClose" \/ s.una = s.nxt
  BY DEF Finishes
<1> HIDE DEF t
<1>2. /\ t \in Sockets /\ t.st = next /\ KeepsReceive(s, t)
      /\ t.iss = s.iss /\ t.una = s.una /\ t.tx = s.tx /\ t.nxt = s.nxt
  BY <1>1 DEF Moves, KeepsSend, KeepsSent
<1>3. s.st \in Later /\ t.st \in Later /\ next # "Established"
  BY <1>1, <1>2 DEF Later, DataStates, Windowed, SynStates
<1>4. t.una >= t.nxt
  <2>1. s.nxt \in Nat
    BY SocketFields DEF SocketTyped
  <2> QED BY <1>1, <1>2, <2>1 DEF Sender
<1>5. t.st \in Windowed => Expects(e, s)
  <2>1. t.st \in Windowed => s.st \in Windowed
    BY <1>1, <1>2 DEF Windowed
  <2> QED BY <2>1 DEF Received
<1>6. Sender(e, t)
  BY <1>2, <1>3, <1>4, LaterStreams
<1>7. Receiver(e, t) /\ TakenBy(e, t) = TakenBy(e, s)
  BY <1>2, <1>3, <1>5, SameStreams
<1>8. TakenBy(e, s) \in Nat
  BY TakenBounds
<1>9. Progress(e, s, t) /\ Untouched(s, t)
  BY <1>1, <1>2, <1>7, <1>8 DEF Progress, Writing, Opening, SynStates, Untouched, Untried
<1> QED BY <1>1, <1>6, <1>7, <1>9, OneSegment DEF Passed, t

\* The connection is established, and the pass goes on.
LEMMA StartKeeps ==
  ASSUME LinkInv, StreamSettings, NEW e \in Ends, NEW s \in Sockets, Sender(e, s),
         Received(e, s), NEW g, Due(e, s, g), NEW r \in Results, Starts(s, g, r, TRUE)
  PROVE  Passed(e, s, r) /\ Untouched(s, r.s)
<1>1. PICK m \in Sockets : /\ s.st \in SynStates \ {"SynSent"} /\ s.una >= s.nxt
                           /\ Establishes(s, m) /\ Streams(m, g, r, TRUE)
  BY DEF Starts
<1>2. s.st \in Windowed /\ s.st \in Opening /\ s.st # "Listen" /\ s.st # "Unassigned"
  BY <1>1 DEF SynStates, Windowed, Opening
<1>3. /\ Indexed(m) /\ m.st = "Established" /\ m.iss = Norm(s.iss + s.nxt) /\ m.nxt = 0
      /\ m.una = 0 /\ m.tx = <<>> /\ KeepsReceive(s, m)
  BY <1>1 DEF Establishes
<1>4. s.iss = InitialSeq[e] /\ written[e] = <<>> /\ s.nxt = 1 /\ read[e] = <<>> /\ ~s.gotFin
  BY <1>2 DEF Sender, Received, Count
<1>5. Regular(e, m)
  <2>1. Offset(e, m) = 0 /\ InitialSeq[e] + 1 + 0 = InitialSeq[e] + 1
    <3>1. InitialSeq[e] \in Nat
      BY Bounds DEF Bounded
    <3> QED BY <1>3, <1>4, <3>1 DEF Offset
  <2>2. Part(m.tx, written[e], 0)
    BY <1>3, <1>4 DEF Part
  <2>3. Taken(Peer(e)) \in Nat
    <3>1. Peer(e) \in Ends /\ sock[Peer(e)] \in Sockets
      BY EndsOf, Bounds DEF Bounded
    <3> QED BY <3>1, TakenBounds DEF Taken
  <2>4. 0 + m.una = 0
    BY <1>3
  <2> QED BY <1>3, <1>4, <2>1, <2>2, <2>3, <2>4 DEF Regular
<1>6. Sender(e, m)
  BY <1>3, <1>5, SynStatesOf DEF Sender, Opening, SynStates
<1>7. Received(e, m)
  <2>1. Expects(e, s)
    BY <1>2 DEF Received
  <2>2. Expects(e, m)
    BY <1>3, <2>1 DEF Expects, KeepsReceive
  <2> QED BY <1>3, <2>2 DEF Received, KeepsReceive, Opening, SynStates
<1>8. Due(e, m, g)
  BY <1>2, <1>3 DEF Due, KeepsReceive
<1>9. Passed(e, m, r)
  BY <1>1, <1>3, <1>6, <1>7, <1>8, StreamsKeep
<1>10. Progress(e, s, m)
  <2>1. TakenBy(e, m) = TakenBy(e, s) /\ TakenBy(e, s) \in Nat
    BY <1>3, TakenBounds DEF TakenBy, KeepsReceive
  <2> QED BY <1>2, <1>3, <2>1 DEF Progress, Writing
<1>11. ~Untried(s)
  <2>1. s.st \in {"SynReceived", "SynReceivedWhileListening"} /\ s.una # 0
    BY <1>1, <1>4 DEF SynStates
  <2> QED BY <2>1 DEF Untried
<1> QED BY <1>9, <1>10, <1>11, PassedThrough DEF Untouched

LEMMA SwitchKeeps ==
  ASSUME LinkInv, StreamSettings, NEW e \in Ends, NEW s \in Sockets, Indexed(s), Arrived(e, s),
         NEW g, Due(e, s, g), NEW r, IsSwitched(s, g, r, TRUE)
  PROVE  Passed(e, s, r) /\ Untouched(s, r.s)
<1>1. Sender(e, s) /\ Received(e, s) /\ (s.st \in Opening => s.rx = <<>> \/ Shaken(s)) /\ r \in Results
  BY DEF Arrived, IsSwitched
<1>2. CASE Stays(s, r) /\ ~Shaken(s)
  <2>1. r.s = s /\ r.out = <<>> /\ Receiver(e, s)
    BY <1>1, <1>2 DEF Stays, Receiver
  <2>2. Progress(e, s, s)
    BY ProgressOf
  <2> QED BY <1>1, <2>1, <2>2, OneSegment DEF Passed, Untouched
<1>3. CASE Finishes(s, r)
  BY <1>1, <1>3, FinishKeeps
<1>4. CASE AnswersSyn(s, g, r, TRUE)
  BY <1>4, SynAnswered
<1>5. CASE Starts(s, g, r, TRUE)
  BY <1>1, <1>5, StartKeeps
<1>6. CASE Streams(s, g, r, TRUE)
  BY <1>1, <1>6, StreamsKeep
<1>7. CASE s.st = "Closed" /\ Frees(s, r)
  <2>1. IsReset(s, r.s) /\ r.out = <<>>
    BY <1>7 DEF Frees
  <2>2. Sender(e, r.s) /\ Receiver(e, r.s) /\ Progress(e, s, r.s) /\ Untouched(s, r.s)
    BY <1>1, <1>7, <2>1, ResetKeeps
  <2> QED BY <2>1, <2>2, OneSegment DEF Passed
<1> QED BY <1>2, <1>3, <1>4, <1>5, <1>6, <1>7 DEF IsSwitched

-----------------------------------------------------------------------------
(* Retransmissions, and the whole pass.                                    *)

LEMMA GiveUpKeeps ==
  ASSUME LinkInv, StreamSettings, NEW e \in Ends, NEW s \in Sockets, Arrived(e, s),
         s.una < s.nxt \/ s.st = "Closing", NEW r, GivesUp(s, r)
  PROVE  Passed(e, s, r) /\ Untouched(s, r.s)
<1>1. Sender(e, s) /\ Received(e, s) /\ (s.st \in Opening => s.rx = <<>> \/ Shaken(s))
  BY DEF Arrived
<1>2. s.st = "SynReceivedWhileListening" => s.rx = <<>> /\ Expects(e, s)
  <2>1. s.una \in Nat /\ s.nxt \in Nat
    BY SocketFields DEF SocketTyped
  <2>2. ~Shaken(s)
    BY <2>1 DEF Shaken, SynStates
  <2> QED BY <1>1, <2>2 DEF Received, Windowed, Opening, SynStates
<1>3. IsReset(s, r.s) /\ (r.out = <<>> \/ \E h \in Segments : r.out = <<h>> /\ IsRst(s, h))
  BY DEF GivesUp
<1>4. /\ r.s \in Sockets /\ Sender(e, r.s) /\ Receiver(e, r.s) /\ Progress(e, s, r.s)
      /\ Untouched(s, r.s) /\ r.s.st \in {"Listen", "Unassigned"}
  BY <1>1, <1>2, <1>3, ResetKeeps
<1>5. ASSUME NEW h \in Segments, IsRst(s, h)
      PROVE  h \in Emitted(e, r.s)
  <2>1. ~h.syn /\ ~h.fin /\ h.rst /\ h.data = <<>> /\ h.ackNbr = Norm(s.irs + s.rcv)
    BY <1>5 DEF IsRst
  <2>2. r.s.st # "Unassigned" => AcksTaken(h, e, r.s)
    <3>1. r.s.st # "Unassigned" => s.st = "SynReceivedWhileListening"
      BY <1>3 DEF IsReset
    <3>2. r.s.st # "Unassigned" => TakenBy(e, r.s) >= TakenBy(e, s)
      BY <1>4 DEF Progress
    <3> QED BY <1>2, <1>4, <2>1, <3>1, <3>2, AckSent
  <2> QED BY <1>4, <2>1, <2>2 DEF Emitted, Genuine
<1>6. r.out \in Seq(Emitted(e, r.s))
  BY <1>3, <1>5, OneSegment
<1> QED BY <1>4, <1>6 DEF Passed

LEMMA ResendKeeps ==
  ASSUME LinkInv, StreamSettings, NEW e \in Ends, NEW s \in Sockets, Arrived(e, s),
         s.una < s.nxt, s.st \in SynStates, NEW r \in Results, Resends(s, r, TRUE)
  PROVE  Passed(e, s, r) /\ Untouched(s, r.s)
<1> DEFINE t == r.s
           fAck == s.st # "SynSent"
<1>1. t.st = s.st /\ KeepsSent(s, t) /\ KeepsReceive(s, t) /\ t.nxt = 1 /\ t \in Sockets
  BY DEF Resends, Results
<1>2. PICK m \in Sockets :
        /\ Fits(m) /\ m.nxt = s.una /\ KeepsSent(s, m) /\ KeepsReceive(s, m)
        /\ r.out = <<Segment(m, Syn, fAck, <<>>)>>
  BY DEF Resends
<1> HIDE DEF t
<1>3. s.una \in Nat /\ s.nxt \in Nat
  BY SocketFields DEF SocketTyped
<1>4. s.st \in Opening /\ s.st # "Listen" /\ s.st \notin Later /\ s.st \notin Sealed /\ ~Shaken(s)
  BY <1>3, SynStatesOf DEF Shaken, SynStates, Sealed, Opening, Later, DataStates
<1>5. s.iss = InitialSeq[e] /\ written[e] = <<>> /\ ~s.probe /\ s.nxt = 1 /\ Received(e, s)
      /\ s.rx = <<>>
  BY <1>4 DEF Arrived, Sender, Count
<1>6. Sender(e, t)
  BY <1>1, <1>4, <1>5 DEF Sender, KeepsSent, Count, Sealed
<1>7. Expects(e, s) => Expects(e, t) /\ Expects(e, m)
  BY <1>1, <1>2 DEF Expects, KeepsReceive
<1>8. Receiver(e, t)
  BY <1>1, <1>4, <1>5, <1>7 DEF Receiver, Received, KeepsReceive
<1>9. TakenBy(e, t) = TakenBy(e, s) /\ Progress(e, s, t)
  BY <1>1, ProgressOf DEF KeepsReceive
<1>10. Untouched(s, t)
  BY <1>1 DEF Untouched, Untried, KeepsSent
<1>11. Norm(m.iss + m.nxt) = InitialSeq[e]
  <2>1. m.iss = InitialSeq[e] /\ m.nxt = 0
    BY <1>2, <1>3, <1>5 DEF KeepsSent
  <2>2. InitialSeq[e] + 0 = InitialSeq[e] /\ InitialSeq[e] \in Seqs
    BY Bounds DEF Bounded
  <2> QED BY <2>1, <2>2, NormSmall
<1>12. fAck => t.st # "SynSent" /\ Expects(e, m) /\ TakenBy(e, t) >= TakenBy(e, m)
  <2>1. fAck => Expects(e, s)
    <3>1. fAck => s.st \in Windowed
      BY DEF SynStates, Windowed
    <3> QED BY <1>5, <3>1 DEF Received
  <2>2. TakenBy(e, m) = TakenBy(e, s) /\ TakenBy(e, s) \in Nat
    BY <1>2, TakenBounds DEF TakenBy, KeepsReceive
  <2> QED BY <1>1, <1>7, <1>9, <2>1, <2>2
<1>13. fAck \in BOOLEAN
  OBVIOUS
<1> HIDE DEF fAck
<1>14. Segment(m, Syn, fAck, <<>>) \in Emitted(e, t)
  BY <1>1, <1>2, <1>11, <1>12, <1>13, SynSent_
<1> QED BY <1>2, <1>6, <1>8, <1>9, <1>10, <1>14, OneSegment DEF Passed, t

LEMMA BackOffKeeps ==
  ASSUME LinkInv, StreamSettings, NEW e \in Ends, NEW s \in Sockets, Indexed(s), Arrived(e, s),
         NEW g, Due(e, s, g), NEW r, BacksOffAndSwitches(s, g, r, TRUE)
  PROVE  Passed(e, s, r) /\ Untouched(s, r.s)
<1>1. PICK m \in Sockets : /\ s.una < s.nxt /\ s.st \notin SynStates
                           /\ BacksOff(s, m) /\ Indexed(m) /\ IsSwitched(m, g, r, TRUE)
  BY DEF BacksOffAndSwitches
<1>2. s.una \in Nat /\ s.nxt \in Nat
  BY SocketFields DEF SocketTyped
<1>3. Sender(e, s) /\ Received(e, s) /\ s.st \notin Sealed /\ s.st # "Listen"
      /\ s.st \notin Opening
  <2>1. s.st # "Listen"
    BY <1>1, <1>2 DEF Indexed
  <2> QED BY <1>1, <1>2, <2>1 DEF Arrived, Sender, Sealed, Opening
<1>4. /\ m.nxt = s.una /\ m.iss = s.iss /\ m.una = s.una /\ m.tx = s.tx /\ KeepsReceive(s, m)
      /\ \/ m.st = s.st
         \/ s.st = "LastAck" /\ m.st = "CloseWait"
         \/ s.st = "FinWait2" /\ m.st = "FinWait1"
  BY <1>1 DEF BacksOff, KeepsSent
<1>5. /\ m.st \in Later <=> s.st \in Later
      /\ m.st \in Windowed <=> s.st \in Windowed
      /\ m.st = "Established" <=> s.st = "Established"
      /\ m.st \notin Opening /\ m.st \notin Sealed
      /\ m.st = "Unassigned" <=> s.st = "Unassigned"
  BY <1>3, <1>4 DEF Later, DataStates, Windowed, SynStates, Opening, Sealed
<1>6. Sender(e, m)
  <2>1. s.st \in Later => Sender(e, m)
    BY <1>2, <1>3, <1>4, <1>5, LaterStreams
  <2>2. s.st \notin Later => Sender(e, m)
    BY <1>5 DEF Sender, Sealed
  <2> QED BY <2>1, <2>2
<1>7. Received(e, m)
  <2>1. Expects(e, s) => Expects(e, m)
    BY <1>4 DEF Expects, KeepsReceive
  <2>2. m.st \notin {"Listen", "SynSent"}
    BY <1>5 DEF Opening, SynStates
  <2> QED BY <1>3, <1>4, <1>5, <2>1, <2>2 DEF Received, KeepsReceive
<1>8. Arrived(e, m)
  BY <1>5, <1>6, <1>7 DEF Arrived
<1>9. Due(e, m, g)
  <2>1. m.st \notin {"Listen", "SynSent"}
    BY <1>5 DEF Opening, SynStates
  <2> QED BY <1>4, <1>5, <2>1 DEF Due, KeepsReceive
<1>10. Passed(e, m, r) /\ Untouched(m, r.s)
  BY <1>1, <1>8, <1>9, SwitchKeeps
<1>11. Progress(e, s, m)
  <2>1. TakenBy(e, m) = TakenBy(e, s) /\ TakenBy(e, s) \in Nat
    BY <1>4, TakenBounds DEF TakenBy, KeepsReceive
  <2> QED BY <1>5, <2>1 DEF Progress, Writing, Opening, SynStates
<1>12. Untouched(s, m)
  BY <1>5 DEF Untouched, Untried, Opening, SynStates
<1>13. r \in Results
  BY <1>1 DEF IsSwitched
<1> QED BY <1>10, <1>11, <1>12, <1>13, PassedThrough DEF Untouched

LEMMA RetransmitKeeps ==
  ASSUME LinkInv, StreamSettings, NEW e \in Ends, NEW s \in Sockets, Indexed(s), Arrived(e, s),
         NEW g, Due(e, s, g), NEW r, IsRetransmitted(s, g, r, TRUE)
  PROVE  Passed(e, s, r) /\ Untouched(s, r.s)
<1>1. r \in Results
  BY DEF IsRetransmitted
<1>2. CASE (s.una < s.nxt \/ s.st = "Closing") /\ GivesUp(s, r)
  BY <1>2, GiveUpKeeps
<1>3. CASE s.una < s.nxt /\ s.st \in SynStates /\ Resends(s, r, TRUE)
  BY <1>1, <1>3, ResendKeeps
<1>4. CASE BacksOffAndSwitches(s, g, r, TRUE)
  BY <1>4, BackOffKeeps
<1>5. CASE IsSwitched(s, g, r, TRUE)
  BY <1>5, SwitchKeeps
<1> QED BY <1>2, <1>3, <1>4, <1>5 DEF IsRetransmitted

\* A segment that a socket takes, and one that finds no socket.
LEMMA ProcessKeeps ==
  ASSUME LinkInv, StreamSettings, NEW e \in Ends, NEW g \in Emitted(Peer(e), sock[Peer(e)]),
         NEW r, IsProcessed(sock[e], g, r, TRUE)
  PROVE  Passed(e, sock[e], r) /\ (~g.ack => Untouched(sock[e], r.s))
<1> DEFINE s == sock[e]
<1>1. s \in Sockets /\ Indexed(s) /\ Sender(e, s) /\ Receiver(e, s)
  BY Bounds DEF Bounded
<1>2. s.st = "SynSent" => written[Peer(e)] = <<>>
  BY EndsOf DEF LinkInv, Waiting, Roles
<1>3. r \in Results
  BY DEF IsProcessed
<1>4. PICK t \in Sockets : IsAcked(s, g, t) /\ Processes(t, g, r, TRUE)
  BY DEF IsProcessed
<1> HIDE DEF s
<1>5. /\ Sender(e, t) /\ Progress(e, s, t) /\ Receiver(e, t)
      /\ ~g.ack => Untouched(s, t)
      /\ t.st \in SynStates /\ g.ack /\ AckInRange(t, g) => t.una >= t.nxt
  BY <1>1, <1>4, AckKeeps
<1>6. g \in Segments /\ t.st = s.st
  BY <1>4 DEF Emitted, IsAcked
<1>7. Indexed(t)
  BY <1>4 DEF Processes
<1>8. SUFFICES Passed(e, t, r) /\ (~g.ack => Untouched(t, r.s))
  <2>1. (~g.ack => Untouched(t, r.s)) => (~g.ack => Untouched(s, r.s))
    BY <1>5 DEF Untouched
  <2>2. Passed(e, t, r) => Passed(e, s, r)
    BY <1>1, <1>3, <1>5, PassedThrough
  <2> QED BY <2>1, <2>2 DEF s
<1>9. CASE Stays(t, r)
  <2>1. r.s = t /\ r.out = <<>>
    BY <1>9 DEF Stays
  <2>2. Progress(e, t, t)
    BY ProgressOf
  <2> QED BY <1>5, <2>1, <2>2, OneSegment DEF Passed, Untouched
<1>10. CASE Frees(t, r)
  <2>1. IsReset(t, r.s) /\ r.out = <<>>
    BY <1>10 DEF Frees
  <2>2. Received(e, t) /\ (t.st = "SynReceivedWhileListening" => t.rx = <<>>)
    BY <1>5 DEF Receiver, Opening, SynStates
  <2>3. Sender(e, r.s) /\ Receiver(e, r.s) /\ Progress(e, t, r.s) /\ Untouched(t, r.s)
    BY <1>5, <2>1, <2>2, ResetKeeps
  <2> QED BY <2>1, <2>3, OneSegment DEF Passed
<1>11. CASE g.ack /\ r.s = t /\ r.out = RstTo(g)
  <2>1. IsRstTo(g, RstTo(g))
    BY <1>6, ResetsTo
  <2>2. PICK h \in Segments :
          /\ r.out = <<h>> /\ h.rst /\ ~h.syn /\ ~h.fin /\ h.data = <<>> /\ h.ack = ~g.ack
    BY <1>11, <2>1 DEF IsRstTo
  <2>3. ~h.ack
    BY <1>11, <2>2
  <2>4. h \in Emitted(e, t)
    BY <2>2, <2>3 DEF Emitted, Genuine, AcksTaken
  <2>5. Progress(e, t, t)
    BY ProgressOf
  <2> QED BY <1>5, <1>11, <2>2, <2>4, <2>5, OneSegment DEF Passed
<1>12. CASE t.st \in Windowed /\ IsSent(t, r, Header, 0, TRUE, TRUE)
  <2>1. /\ r.s \in Sockets /\ r.s.st = t.st /\ KeepsSent(t, r.s) /\ KeepsReceive(t, r.s)
        /\ r.out = <<Segment(t, Header, TRUE, <<>>)>> /\ r.s.nxt = t.nxt
    <3>1. t.nxt \in Nat
      BY SocketFields DEF SocketTyped
    <3> QED BY <1>12, <3>1 DEF IsSent, Results
  <2>2. Expects(e, t) /\ t.st # "SynSent" /\ Fits(t)
    BY <1>5, <1>7, <1>12 DEF Receiver, Received, Windowed, Indexed
  <2>3. Sender(e, r.s)
    BY <1>5, <2>1 DEF Sender, Regular, Hurried, Offset, KeepsSent
  <2>4. Receiver(e, r.s)
    BY <1>5, <2>1 DEF Receiver, Received, Expects, KeepsReceive
  <2>5. Progress(e, t, r.s) /\ TakenBy(e, r.s) = TakenBy(e, t) /\ TakenBy(e, t) \in Nat
    BY <2>1, ProgressOf, TakenBounds DEF KeepsReceive
  <2>6. Segment(t, Header, TRUE, <<>>) \in Emitted(e, r.s)
    <3>1. TakenBy(e, r.s) >= TakenBy(e, t) /\ r.s.st # "SynSent"
      BY <2>1, <2>2, <2>5
    <3> QED BY <2>1, <2>2, <3>1, HeaderSent
  <2>7. Untouched(t, r.s)
    BY <2>1 DEF Untouched, Untried, KeepsSent
  <2> QED BY <2>1, <2>3, <2>4, <2>5, <2>6, <2>7, OneSegment DEF Passed
<1>13. CASE MayProcess(t, g) /\ IsRetransmitted(Load(t, g), g, r, TRUE)
  <2> DEFINE u == Load(t, g)
  <2>1. Loaded(e, t, g, u)
    BY <1>2, <1>5, <1>6, <1>7, <1>13, LoadKeeps
  <2>2. IsRetransmitted(u, g, r, TRUE)
    BY <1>13
  <2> HIDE DEF u
  <2>3. /\ u \in Sockets /\ Indexed(u) /\ u.st = t.st /\ KeepsSend(t, u)
        /\ Arrived(e, u) /\ Due(e, u, g) /\ Progress(e, t, u)
    BY <2>1 DEF Loaded
  <2>4. Passed(e, u, r) /\ Untouched(u, r.s)
    BY <2>2, <2>3, RetransmitKeeps
  <2>5. Passed(e, t, r)
    BY <1>3, <2>3, <2>4, PassedThrough
  <2>6. Untouched(t, r.s)
    BY <2>3, <2>4 DEF Untouched, Untried, KeepsSend, KeepsSent
  <2> QED BY <2>5, <2>6
<1> QED BY <1>4, <1>9, <1>10, <1>11, <1>12, <1>13 DEF Processes

LEMMA ClaimKeeps ==
  ASSUME LinkInv, StreamSettings, NEW e \in Ends, NEW g \in Emitted(Peer(e), sock[Peer(e)]),
         NEW r, (HasSocket(sock[e], g) /\ IsProcessed(sock[e], g, r, TRUE))
                \/ IsUnclaimed(sock[e], g, r)
  PROVE  Passed(e, sock[e], r) /\ (~g.ack => Untouched(sock[e], r.s))
<1>1. CASE IsProcessed(sock[e], g, r, TRUE)
  BY <1>1, ProcessKeeps
<1>2. CASE IsUnclaimed(sock[e], g, r)
  <2> DEFINE s == sock[e]
  <2>1. ~HasSocket(s, g) /\ r.s = s /\ (r.out = <<>> \/ (~g.rst /\ r.out = RstTo(g)))
    BY <1>2 DEF IsUnclaimed
  <2>2. s \in Sockets /\ Sender(e, s) /\ Receiver(e, s)
    BY Bounds DEF Bounded
  <2> HIDE DEF s
  <2>3. Progress(e, s, s)
    BY <2>2, ProgressOf
  <2>4. g \in Segments /\ Genuine(g, Peer(e), sock[Peer(e)])
    BY DEF Emitted
  <2>5. s.st \in {"Listen", "Unassigned"} /\ (s.st = "Listen" => ~g.syn)
    BY <2>1 DEF HasSocket
  <2>6. r.out = <<>> \/ \E h \in Emitted(e, s) : r.out = <<h>>
    <3>1. CASE ~g.rst /\ r.out = RstTo(g)
      <4>1. IsRstTo(g, RstTo(g))
        BY <2>4, ResetsTo
      <4>2. PICK h \in Segments :
              /\ r.out = <<h>> /\ h.rst /\ ~h.syn /\ ~h.fin /\ h.data = <<>> /\ h.ack = ~g.ack
        BY <3>1, <4>1 DEF IsRstTo
      <4>3. s.st = "Listen" => ~h.ack
        BY <2>4, <2>5, <3>1, <4>2 DEF Genuine
      <4>4. h \in Emitted(e, s)
        BY <2>5, <4>2, <4>3 DEF Emitted, Genuine, AcksTaken
      <4> QED BY <4>2, <4>4
    <3> QED BY <2>1, <3>1
  <2>7. r.out \in Seq(Emitted(e, s))
    BY <2>6, OneSegment
  <2> QED BY <2>1, <2>2, <2>3, <2>7 DEF Passed, Untouched, s
<1> QED BY <1>1, <1>2

LEMMA PollKeeps ==
  ASSUME LinkInv, StreamSettings, NEW e \in Ends,
         NEW r, IsRetransmitted(sock[e], NoSegment, r, TRUE)
  PROVE  Passed(e, sock[e], r) /\ Untouched(sock[e], r.s)
<1> DEFINE s == sock[e]
<1>1. s \in Sockets /\ Indexed(s) /\ Sender(e, s) /\ Receiver(e, s)
  BY Bounds DEF Bounded
<1>2. Arrived(e, s)
  BY <1>1 DEF Arrived, Receiver
<1>3. Due(e, s, NoSegment)
  BY DEF Due, GotSegment
<1> QED BY <1>1, <1>2, <1>3, RetransmitKeeps

-----------------------------------------------------------------------------
(* The steps keep the connection.                                          *)

LEMMA SeqGrows ==
  ASSUME NEW S, NEW T, S \subseteq T
  PROVE  Seq(S) \subseteq Seq(T)
OBVIOUS

\* What has been sent stays true of the socket that has sent it.
LEMMA EmittedGrows ==
  ASSUME LinkInv, StreamSettings, NEW e \in Ends, NEW s \in Sockets, NEW t \in Sockets,
         Progress(e, s, t)
  PROVE  Seq(Emitted(e, s)) \subseteq Seq(Emitted(e, t))
<1>1. ASSUME NEW g \in Emitted(e, s)
      PROVE  g \in Emitted(e, t)
  <2>1. g \in Segments /\ Genuine(g, e, s) /\ (s.st # "Unassigned" => AcksTaken(g, e, s))
        /\ (s.st = "SynSent" => ~g.ack)
    BY DEF Emitted
  <2>2. Genuine(g, e, t)
    BY <2>1 DEF Genuine, Progress
  <2>3. ASSUME t.st # "Unassigned"
        PROVE  AcksTaken(g, e, t)
    <3> DEFINE a == TakenBy(e, s)
               b == TakenBy(e, t)
    <3>1. AcksTaken(g, e, s) /\ b >= a
      BY <2>1, <2>3 DEF Progress
    <3>2. a \in Nat /\ b \in Nat
      BY TakenBounds
    <3>3. 1 .. 1 + a \subseteq 1 .. 1 + b
      <4> HIDE DEF a, b
      <4> QED BY <3>1, <3>2
    <3> QED BY <3>1, <3>3 DEF AcksTaken
  <2>4. t.st = "SynSent" => ~g.ack
    BY <2>1 DEF Progress
  <2> QED BY <2>1, <2>2, <2>3, <2>4 DEF Emitted
<1> QED BY <1>1, SeqGrows

\* The sockets become those of T and what they send is on its way.
Continues(T) ==
  \A f \in Ends : /\ Sender(f, T[f]) /\ Receiver(f, T[f]) /\ Progress(f, sock[f], T[f])
                  /\ sock[Peer(f)].st = "SynSent" => Untouched(sock[f], T[f])

LEMMA ConnectionKeeps ==
  ASSUME LinkInv, StreamSettings, NEW T \in [Ends -> Sockets], sock' = T, Continues(T),
         \A f \in Ends : net'[f] \in Seq(Emitted(Peer(f), T[Peer(f)])),
         written' = written, read' = read, LinkTyped', Unopened'
  PROVE  LinkInv'
<1>1. ASSUME NEW f \in Ends
      PROVE  Connected(f)'
  <2> DEFINE p == Peer(f)
  <2>1. p \in Ends /\ Peer(p) = f
    BY EndsOf
  <2>2. /\ Sender(f, T[f]) /\ Receiver(f, T[f])
        /\ Progress(p, sock[p], T[p]) /\ T[f] \in Sockets /\ T[p] \in Sockets
    BY <2>1 DEF Continues
  <2>3. Len(written[f]) <= MaxBytes[f]
    BY Bounds DEF Bounded
  <2>4. Sender(f, sock[f])'
    <3> DEFINE x == Offset(f, T[f]) + T[f].una
               a == TakenBy(p, sock[p])
               b == TakenBy(p, T[p])
    <3>1. /\ Alive(p) <=> sock[p].st # "Unassigned"
          /\ Alive(p)' <=> T[p].st # "Unassigned"
          /\ Taken(p) = a /\ Taken(p)' = b
      BY DEF Alive, Taken, TakenBy
    <3>2. Alive(p)' => Alive(p) /\ b >= a
      BY <2>2, <3>1 DEF Progress
    <3>3. a \in Nat /\ b \in Nat
      BY <2>1, <2>2, TakenBounds, Bounds DEF Bounded
    <3>4. x \in Int
      <4> DEFINE u == T[f].una
                 l == Len(T[f].tx)
                 w == Len(written[f])
      <4>1. u \in Nat /\ l \in Nat /\ w \in Nat
        BY <2>2, SocketFields, Bounds DEF Bounded, SocketTyped
      <4>2. x = w - l + u
        BY DEF Offset
      <4> HIDE DEF x, u, l, w
      <4> QED BY <4>1, <4>2
    <3>5. Alive(p)' /\ (Alive(p) => x <= Taken(p)) => x <= Taken(p)'
      <4> HIDE DEF x, a, b
      <4> QED BY <3>1, <3>2, <3>3, <3>4
    <3>6. Regular(f, T[f]) => Regular(f, sock[f])'
      BY <3>5 DEF Regular, Offset
    <3>7. Hurried(f, T[f]) => Hurried(f, sock[f])'
      BY DEF Hurried
    <3> QED BY <2>2, <3>6, <3>7 DEF Sender
  <2>5. Receiver(f, sock[f])'
    <3>1. Writing(T[p]) => Writing(sock[p])
      BY <2>2 DEF Progress
    <3>2. Received(f, sock[f])'
      BY <2>2, <3>1 DEF Receiver, Received, Expects
    <3> QED BY <2>2, <3>2 DEF Receiver
  <2>6. Emitted(p, sock[p])' = Emitted(p, T[p])
    BY DEF Emitted, Genuine, AcksTaken, TakenBy
  <2>7. net'[f] \in Seq(Emitted(p, sock[p])')
    BY <2>6
  <2> QED BY <2>3, <2>4, <2>5, <2>7 DEF Connected
<1>2. Roles'
  <2>1. Progress(Client, sock[Client], T[Client]) /\ Progress(Server, sock[Server], T[Server])
    BY EndsOf DEF Continues
  <2> QED BY <2>1 DEF LinkInv, Roles, Progress
<1>3. Waiting'
  <2>1. Progress(Client, sock[Client], T[Client])
        /\ (sock[Client].st = "SynSent" => Untouched(sock[Server], T[Server]))
    BY EndsOf DEF Continues
  <2> QED BY <2>1 DEF LinkInv, Waiting, Progress, Untouched
<1> QED BY <1>1, <1>2, <1>3 DEF LinkInv

LEMMA Idles ==
  ASSUME LinkInv, StreamSettings, NEW f \in Ends
  PROVE  /\ Sender(f, sock[f]) /\ Receiver(f, sock[f]) /\ Progress(f, sock[f], sock[f])
         /\ Untouched(sock[f], sock[f]) /\ sock[f] \in Sockets
         /\ net[f] \in Seq(Emitted(Peer(f), sock[Peer(f)]))
<1>1. sock[f] \in Sockets /\ Sender(f, sock[f]) /\ Receiver(f, sock[f])
  BY Bounds DEF Bounded
<1>2. Progress(f, sock[f], sock[f])
  BY <1>1, ProgressOf
<1> QED BY <1>1, <1>2 DEF Untouched, LinkInv, Connected

\* One of the sockets moves.
LEMMA OneMoves ==
  ASSUME LinkInv, StreamSettings, NEW e \in Ends, NEW t \in Sockets,
         sock' = [sock EXCEPT ![e] = t],
         Sender(e, t), Receiver(e, t), Progress(e, sock[e], t),
         sock[Peer(e)].st = "SynSent" => Untouched(sock[e], t),
         net'[e] \in Seq(Emitted(Peer(e), sock[Peer(e)])),
         net'[Peer(e)] \in Seq(Emitted(e, t)),
         written' = written, read' = read, LinkTyped', Unopened'
  PROVE  LinkInv'
<1> DEFINE p == Peer(e)
           T == [sock EXCEPT ![e] = t]
<1>1. p \in Ends /\ Peer(p) = e /\ p # e /\ \A f \in Ends : f = e \/ f = p
  BY EndsOf
<1>2. sock \in [Ends -> Sockets]
  BY DEF LinkInv, LinkTyped, TcpTypeOK
<1>3. T \in [Ends -> Sockets] /\ T[e] = t /\ T[p] = sock[p] /\ sock' = T
  BY <1>1, <1>2
<1> HIDE DEF T
<1>4. Continues(T)
  <2>1. Sender(p, sock[p]) /\ Receiver(p, sock[p]) /\ Progress(p, sock[p], sock[p])
        /\ Untouched(sock[p], sock[p])
    BY <1>1, Idles
  <2> SUFFICES ASSUME NEW f \in Ends
               PROVE  /\ Sender(f, T[f]) /\ Receiver(f, T[f]) /\ Progress(f, sock[f], T[f])
                      /\ sock[Peer(f)].st = "SynSent" => Untouched(sock[f], T[f])
    BY DEF Continues
  <2>2. CASE f = e
    BY <1>3, <2>2
  <2>3. CASE f = p
    BY <1>3, <2>1, <2>3
  <2> QED BY <1>1, <2>2, <2>3
<1>5. \A f \in Ends : net'[f] \in Seq(Emitted(Peer(f), T[Peer(f)]))
  BY <1>1, <1>3
<1> QED BY <1>3, <1>4, <1>5, ConnectionKeeps

\* A pass of one of them.
LEMMA PassKeeps ==
  ASSUME LinkInv, StreamSettings, NEW e \in Ends, NEW r \in Results, Passed(e, sock[e], r),
         sock[Peer(e)].st = "SynSent" => Untouched(sock[e], r.s),
         NEW in \in Seq(Emitted(Peer(e), sock[Peer(e)])), Step(e, r, in),
         written' = written, read' = read, LinkTyped', Unopened'
  PROVE  LinkInv'
<1> DEFINE p == Peer(e)
<1>1. p \in Ends /\ Peer(p) = e /\ p # e
  BY EndsOf
<1>2. net \in [Ends -> Seq(Segments)] /\ sock[e] \in Sockets /\ r.s \in Sockets
  BY Idles DEF LinkInv, LinkTyped, TcpTypeOK, Results
<1>3. sock' = [sock EXCEPT ![e] = r.s] /\ net' = [net EXCEPT ![e] = in, ![p] = net[p] \o r.out]
  BY <1>1, <1>2 DEF Step
<1>4. net'[e] = in /\ net'[p] = net[p] \o r.out
  BY <1>1, <1>2, <1>3
<1>5. Sender(e, r.s) /\ Receiver(e, r.s) /\ Progress(e, sock[e], r.s)
      /\ r.out \in Seq(Emitted(e, r.s))
  BY DEF Passed
<1>6. net[p] \in Seq(Emitted(e, r.s))
  <2>1. net[p] \in Seq(Emitted(e, sock[e]))
    BY <1>1, Idles
  <2> QED BY <1>2, <1>5, <2>1, EmittedGrows
<1>7. net'[p] \in Seq(Emitted(e, r.s))
  BY <1>4, <1>5, <1>6
<1> QED BY <1>2, <1>3, <1>4, <1>5, <1>7, OneMoves

\* The connection is opened once, before anything is on its way.
LEMMA OpensLeft ==
  ASSUME LinkInv, NEW what \in {"timeouts", "faults"}, NEW cond, Spend(what, cond)
  PROVE  budget'.opens = budget.opens
<1>1. budget \in Budgets /\ budget = [timeouts |-> budget.timeouts, faults |-> budget.faults,
                                       opens |-> budget.opens]
  BY DEF LinkInv, LinkTyped, TcpTypeOK, Budgets
<1>2. CASE cond
  <2>1. budget' = [budget EXCEPT ![what] = budget[what] - 1]
    BY <1>2 DEF Spend
  <2> QED BY <1>1, <2>1 DEF Budgets
<1>3. CASE ~cond
  BY <1>3 DEF Spend
<1> QED BY <1>2, <1>3

LEMMA DeliverKeeps ==
  ASSUME LinkInv, StreamSettings, LinkTyped', NEW e \in Ends, Deliver(e)
  PROVE  LinkInv'
<1> DEFINE p == Peer(e)
<1>1. PICK i \in DOMAIN net[e], keep \in BOOLEAN, ok \in SendOutcomes :
         /\ Step(e, TCPProcess(sock[e], net[e][i], NoTimer, ok),
                 IF keep THEN net[e] ELSE RemoveAt(net[e], i))
         /\ Spend("faults", keep \/ i > 1)
         /\ UNCHANGED <<written, read, left>>
  BY DEF Deliver
<1> DEFINE g  == net[e][i]
           r  == TCPProcess(sock[e], g, NoTimer, TRUE)
           in == IF keep THEN net[e] ELSE RemoveAt(net[e], i)
<1>2. sock[e] \in Sockets /\ Indexed(sock[e]) /\ net[e] \in Seq(Emitted(p, sock[p]))
  BY Idles, Bounds DEF Bounded
<1>3. g \in Emitted(p, sock[p]) /\ in \in Seq(Emitted(p, sock[p]))
  BY <1>2, Removes
<1>4. ok = TRUE
  BY DEF StreamSettings
<1>5. Step(e, r, in) /\ written' = written /\ read' = read
  BY <1>1, <1>4
<1>6. budget'.opens = budget.opens /\ budget.opens = 0
  <2>1. budget'.opens = budget.opens
    BY <1>1, OpensLeft
  <2>2. net[e] # <<>>
    BY <1>1
  <2> QED BY <2>1, <2>2 DEF LinkInv, Unopened
<1> HIDE DEF g, in
<1>7. g \in Segments
  BY <1>3 DEF Emitted
<1>8. /\ (HasSocket(sock[e], g) /\ IsProcessed(sock[e], g, r, TRUE)) \/ IsUnclaimed(sock[e], g, r)
      /\ r \in Results
  BY <1>2, <1>7, TimerTypes, Claims
<1> HIDE DEF r
<1>9. Passed(e, sock[e], r) /\ (~g.ack => Untouched(sock[e], r.s))
  BY <1>3, <1>8, ClaimKeeps
<1>10. sock[p].st = "SynSent" => ~g.ack
  BY <1>3 DEF Emitted
<1>11. Unopened'
  BY <1>6 DEF Unopened
<1> QED BY <1>3, <1>5, <1>8, <1>9, <1>10, <1>11, PassKeeps

LEMMA PollingKeeps ==
  ASSUME LinkInv, StreamSettings, LinkTyped', NEW e \in Ends, Poll(e)
  PROVE  LinkInv'
<1>1. PICK clk \in Clocks, ok \in SendOutcomes :
         /\ Step(e, Pass(e, clk, ok), net[e])
         /\ Spend("timeouts", clk.rto /\ Early)
         /\ UNCHANGED <<written, read, left>>
  BY DEF Poll
<1> DEFINE r == TCPStateMachine(sock[e], NoSegment, clk, TRUE)
<1>2. sock[e] \in Sockets /\ Indexed(sock[e]) /\ net[e] \in Seq(Emitted(Peer(e), sock[Peer(e)]))
  BY Idles, Bounds DEF Bounded
<1>3. ok = TRUE
  BY DEF StreamSettings
<1>4. Step(e, r, net[e]) /\ written' = written /\ read' = read
  BY <1>1, <1>3 DEF Pass
<1>5. IsRetransmitted(sock[e], NoSegment, r, TRUE)
  BY <1>2, TimerTypes, StateMachines
<1> HIDE DEF r
<1>6. r \in Results
  BY <1>5 DEF IsRetransmitted
<1>7. Passed(e, sock[e], r) /\ Untouched(sock[e], r.s)
  BY <1>5, PollKeeps
<1>8. budget'.opens = budget.opens
  BY <1>1, OpensLeft
<1>9. budget.opens = 0
  BY EndsOf DEF Poll, LinkInv, Unopened
<1>10. Unopened'
  BY <1>8, <1>9 DEF Unopened
<1> QED BY <1>2, <1>4, <1>6, <1>7, <1>10, PassKeeps

LEMMA LoseKeeps ==
  ASSUME LinkInv, StreamSettings, LinkTyped', NEW e \in Ends, Lose(e)
  PROVE  LinkInv'
<1>1. PICK i \in DOMAIN net[e] :
        /\ net' = [net EXCEPT ![e] = RemoveAt(net[e], i)] /\ Spend("faults", TRUE)
        /\ UNCHANGED <<sock, written, read, left>>
  BY DEF Lose
<1>2. net \in [Ends -> Seq(Segments)] /\ sock \in [Ends -> Sockets]
  BY DEF LinkInv, LinkTyped, TcpTypeOK
<1>3. \A f \in Ends : /\ Sender(f, sock[f]) /\ Receiver(f, sock[f])
                      /\ Progress(f, sock[f], sock[f]) /\ Untouched(sock[f], sock[f])
                      /\ net[f] \in Seq(Emitted(Peer(f), sock[Peer(f)]))
  BY Idles
<1>4. RemoveAt(net[e], i) \in Seq(Emitted(Peer(e), sock[Peer(e)]))
  BY <1>3, Removes
<1>5. \A f \in Ends : net'[f] \in Seq(Emitted(Peer(f), sock[Peer(f)]))
  BY <1>1, <1>2, <1>3, <1>4
<1>6. budget'.opens = budget.opens /\ net[e] # <<>>
  <2>1. Spend("faults", TRUE) /\ "faults" \in {"timeouts", "faults"}
    BY <1>1
  <2>2. budget'.opens = budget.opens
    BY <2>1, OpensLeft, Zenon
  <2> QED BY <1>1, <2>2
<1>7. Unopened'
  BY <1>6 DEF LinkInv, Unopened
<1>8. Continues(sock)
  BY <1>3 DEF Continues
<1>9. sock' = sock /\ written' = written /\ read' = read
  BY <1>1
<1> QED BY <1>2, <1>5, <1>7, <1>8, <1>9, ConnectionKeeps

\* Time passes.
LEMMA SameKept ==
  ASSUME LinkInv, StreamSettings, NEW e \in Ends, NEW t \in Sockets, t.st = sock[e].st,
         KeepsSend(sock[e], t), KeepsReceive(sock[e], t)
  PROVE  /\ Sender(e, t) /\ Receiver(e, t) /\ Progress(e, sock[e], t) /\ Untouched(sock[e], t)
         /\ Seq(Emitted(e, sock[e])) \subseteq Seq(Emitted(e, t))
<1> DEFINE s == sock[e]
<1>1. s \in Sockets /\ Sender(e, s) /\ Receiver(e, s)
  BY Idles
<1> HIDE DEF s
<1>2. Sender(e, t)
  BY <1>1 DEF s, Sender, Regular, Hurried, Offset, KeepsSend, KeepsSent
<1>3. Receiver(e, t)
  BY <1>1 DEF s, Receiver, Received, Expects, KeepsReceive
<1>4. Progress(e, s, t)
  BY <1>1, ProgressOf DEF s, KeepsReceive
<1>5. Untouched(s, t)
  BY DEF s, Untouched, Untried, KeepsSend, KeepsSent
<1>6. Seq(Emitted(e, s)) \subseteq Seq(Emitted(e, t))
  BY <1>1, <1>4, EmittedGrows
<1> QED BY <1>2, <1>3, <1>4, <1>5, <1>6 DEF s

LEMMA SilenceKeeps ==
  ASSUME LinkInv, StreamSettings, LinkTyped', Silence
  PROVE  LinkInv'
<1> DEFINE T == [e \in Ends |-> [sock[e] EXCEPT !.old = TRUE]]
<1>1. sock' = T /\ UNCHANGED <<net, written, read, left, budget>>
  BY DEF Silence
<1>2. ASSUME NEW f \in Ends
      PROVE  /\ T[f] \in Sockets /\ T[f].st = sock[f].st
             /\ KeepsSend(sock[f], T[f]) /\ KeepsReceive(sock[f], T[f])
  <2>1. sock[f] \in Sockets /\ Indexed(sock[f])
    BY Bounds DEF Bounded
  <2> QED BY <2>1, Ages
<1>3. T \in [Ends -> Sockets]
  BY <1>2
<1> HIDE DEF T
<1>4. \A f \in Ends :
        /\ Sender(f, T[f]) /\ Receiver(f, T[f]) /\ Progress(f, sock[f], T[f])
        /\ Untouched(sock[f], T[f])
        /\ Seq(Emitted(f, sock[f])) \subseteq Seq(Emitted(f, T[f]))
  BY <1>2, SameKept
<1>5. \A f \in Ends : net'[f] \in Seq(Emitted(Peer(f), T[Peer(f)]))
  <2> TAKE f \in Ends
  <2>1. Peer(f) \in Ends /\ net[f] \in Seq(Emitted(Peer(f), sock[Peer(f)]))
    BY EndsOf, Idles
  <2> QED BY <1>1, <1>4, <2>1
<1>6. Unopened'
  BY <1>1, <1>2, EndsOf DEF LinkInv, Unopened
<1>7. Continues(T)
  BY <1>4 DEF Continues
<1> QED BY <1>1, <1>3, <1>5, <1>6, <1>7, ConnectionKeeps

LEMMA LapseKeeps ==
  ASSUME LinkInv, StreamSettings, LinkTyped', NEW e \in Ends, Lapse(e)
  PROVE  LinkInv'
<1> DEFINE t == [sock[e] EXCEPT !.old = TRUE]
           p == Peer(e)
<1>1. sock' = [sock EXCEPT ![e] = t] /\ UNCHANGED <<net, written, read, left, budget>>
  BY DEF Lapse
<1>2. sock[e] \in Sockets /\ Indexed(sock[e]) /\ sock \in [Ends -> Sockets]
  BY Bounds DEF Bounded, LinkInv, LinkTyped, TcpTypeOK
<1>3. t \in Sockets /\ t.st = sock[e].st /\ KeepsSend(sock[e], t) /\ KeepsReceive(sock[e], t)
  BY <1>2, Ages
<1> HIDE DEF t
<1>4. /\ Sender(e, t) /\ Receiver(e, t) /\ Progress(e, sock[e], t) /\ Untouched(sock[e], t)
      /\ Seq(Emitted(e, sock[e])) \subseteq Seq(Emitted(e, t))
  BY <1>3, SameKept
<1>5. p \in Ends /\ Peer(p) = e /\ net[e] \in Seq(Emitted(p, sock[p]))
      /\ net[p] \in Seq(Emitted(e, sock[e]))
  BY EndsOf, Idles
<1>6. Unopened'
  BY <1>1, <1>2, <1>3 DEF LinkInv, Unopened
<1> QED BY <1>1, <1>3, <1>4, <1>5, <1>6, OneMoves

\* A user that aborts.
LEMMA AbortKeeps ==
  ASSUME LinkInv, StreamSettings, LinkTyped', NEW e \in Ends, Abort(e)
  PROVE  LinkInv'
<1> DEFINE p == Peer(e)
           s == sock[e]
<1>1. PICK ok \in SendOutcomes : Step(e, TCPAbort(sock[e], ok), net[e])
  BY DEF Abort
<1> DEFINE r == TCPAbort(s, ok)
<1>2. /\ s \in Sockets /\ Indexed(s) /\ Fits(s) /\ net[e] \in Seq(Emitted(p, sock[p]))
      /\ s.st \notin {"Unassigned", "Listen"} /\ ok \in BOOLEAN
  BY Idles, Bounds, TcpLinkAssumption DEF Bounded, Indexed, Abort
<1>3. IsAborted(r) /\ r \in Results
  BY <1>2, Aborts
<1>4. Step(e, r, net[e]) /\ UNCHANGED <<written, read, budget>>
  BY <1>1 DEF Abort
<1> HIDE DEF r, s
<1>5. /\ r.s \in Sockets /\ r.s.st = "Unassigned" /\ r.s.rx = <<>> /\ ~r.s.gotFin /\ r.s = Fresh
  BY <1>3, FreshType DEF IsAborted
<1>6. Sender(e, r.s)
  BY <1>5, SynStatesOf DEF Sender, Sealed
<1>7. Receiver(e, r.s)
  <2>1. Receiver(e, s)
    BY Idles DEF s
  <2>2. Part(<<>>, written[p], Len(read[e]))
    <3>1. Part(read[e], written[p], 0) /\ Len(read[e]) \in Nat
      BY <2>1, Bounds DEF Receiver, Received, Bounded
    <3> QED BY <3>1 DEF Part
  <2>3. "Unassigned" \notin Windowed \cup Opening \cup {"Listen", "SynSent"}
    BY DEF Windowed, Opening, SynStates
  <2> QED BY <1>5, <2>1, <2>2, <2>3 DEF Receiver, Received
<1>8. Progress(e, s, r.s) /\ Untouched(s, r.s)
  BY <1>5 DEF Progress, Writing, Opening, SynStates, Untouched, Untried
<1>9. r.out = <<>> \/ \E h \in Emitted(e, r.s) : r.out = <<h>>
  <2>1. CASE r.out = <<>>
    BY <2>1
  <2>2. CASE r.out # <<>>
    <3>1. PICK h \in Segments : /\ r.out = <<h>> /\ ~h.syn /\ ~h.fin /\ h.rst
                                /\ ~h.ack /\ h.data = <<>>
      BY <1>3, <2>2 DEF IsAborted
    <3>2. h \in Emitted(e, r.s)
      BY <3>1 DEF Emitted, Genuine, AcksTaken
    <3> QED BY <3>1, <3>2
  <2> QED BY <2>1, <2>2
<1>10. Passed(e, s, r)
  BY <1>6, <1>7, <1>8, <1>9, OneSegment DEF Passed
<1>11. Unopened'
  BY <1>2, <1>4, EndsOf DEF LinkInv, Unopened, s
<1> QED BY <1>2, <1>3, <1>4, <1>8, <1>10, <1>11, PassKeeps DEF s

\* A user that closes.
LEMMA CloseKeeps ==
  ASSUME LinkInv, StreamSettings, LinkTyped', NEW e \in Ends, Close(e)
  PROVE  LinkInv'
<1> DEFINE p == Peer(e)
           s == sock[e]
           t == TCPClose(s)
<1>1. sock \in [Ends -> Sockets]
  BY DEF LinkInv, LinkTyped, TcpTypeOK
<1>2. /\ sock' = [sock EXCEPT ![e] = t] /\ UNCHANGED <<net, written, read, budget>>
      /\ s.st \in {"Established", "CloseWait", "LastAck", "WaitUserClose"} \cup SynStates
  BY <1>1 DEF Close
<1>3. s \in Sockets /\ Indexed(s) /\ Sender(e, s) /\ Receiver(e, s)
  BY Bounds DEF Bounded
<1>4. IsClosed(s, t)
  BY <1>3, Closes
<1> HIDE DEF t, s
<1>5. /\ t \in Sockets /\ t.st = ClosedState(s) /\ KeepsReceive(s, t)
      /\ t.iss = s.iss /\ t.una = s.una /\ t.tx = s.tx /\ t.probe = s.probe
      /\ t.nxt = IF s.st \in SynStates THEN 0 ELSE s.nxt
  BY <1>4 DEF IsClosed, KeepsSent
<1>6. \/ s.st \in SynStates \ {"SynSent"} /\ t.st = "FinWait1"
      \/ s.st = "SynSent" /\ t.st = "WaitUserClose"
      \/ s.st = "Established" /\ t.st = "FinWait1"
      \/ s.st \in {"CloseWait", "LastAck", "WaitUserClose"} /\ t.st = s.st
  BY <1>2, <1>5 DEF ClosedState, SynStates
<1>7. t.st \in Later /\ t.st \notin {"Unassigned", "Established"} /\ s.st # "Unassigned"
      /\ t.st \notin Opening
  BY <1>6 DEF Later, DataStates, Windowed, SynStates, Opening
<1>8. s.una \in Nat /\ s.nxt \in Nat
  BY <1>3, SocketFields DEF SocketTyped
<1>9. Sender(e, t)
  <2>1. CASE s.st \in SynStates
    <3>1. Hurried(e, t)
      BY <1>3, <1>5, <1>7, <2>1, SynStatesOf DEF Sender, Hurried, Indexed
    <3>2. t.una >= t.nxt
      BY <1>5, <1>8, <2>1
    <3> QED BY <1>7, <3>1, <3>2 DEF Sender
  <2>2. CASE s.st \notin SynStates
    <3>1. s.st \in Later /\ (t.st \in Sealed => s.st \in Sealed) /\ t.nxt = s.nxt
      BY <1>5, <1>6, <2>2 DEF Later, DataStates, Windowed, SynStates, Sealed
    <3>2. t.st \in Sealed => t.una >= t.nxt
      BY <1>3, <1>5, <3>1 DEF Sender, Sealed
    <3> QED BY <1>3, <1>5, <1>7, <3>1, <3>2, LaterStreams
  <2> QED BY <2>1, <2>2
<1>10. Receiver(e, t) /\ TakenBy(e, t) = TakenBy(e, s)
  <2>1. t.st \in Windowed => s.st \in Windowed
    BY <1>6 DEF Windowed, SynStates
  <2>2. Received(e, s) /\ (t.st \in Windowed => Expects(e, s))
    BY <1>3, <2>1 DEF Receiver, Received
  <2> QED BY <1>3, <1>5, <1>7, <2>2, SameStreams
<1>11. TakenBy(e, s) \in Nat
  BY <1>3, TakenBounds
<1>12. Progress(e, s, t) /\ Untouched(s, t)
  BY <1>7, <1>10, <1>11 DEF Progress, Writing, Opening, SynStates, Untouched, Untried
<1>13. p \in Ends /\ Peer(p) = e /\ net[e] \in Seq(Emitted(p, sock[p]))
       /\ net[p] \in Seq(Emitted(e, s))
  BY EndsOf, Idles DEF s
<1>14. net[p] \in Seq(Emitted(e, t))
  BY <1>3, <1>5, <1>12, <1>13, EmittedGrows
<1>15. Unopened'
  <2>1. s.st \notin {"Unassigned", "Listen"}
    BY <1>2 DEF SynStates
  <2>2. budget.opens = 0
    BY <2>1, EndsOf DEF s, LinkInv, Unopened
  <2> QED BY <1>2, <2>2 DEF Unopened
<1> QED BY <1>2, <1>5, <1>9, <1>10, <1>12, <1>13, <1>14, <1>15, OneMoves DEF s

\* A user that opens: nothing has been sent before.
LEMMA OpenKeeps ==
  ASSUME LinkInv, StreamSettings, LinkTyped', Open
  PROVE  LinkInv'
<1> DEFINE i == InitialSeq[Client]
           n == MaxOpens - budget.opens
           iss == Norm(i + n * (W \div 4))
           r == TCPOpen(iss, TRUE)
           t == r.s
<1>0. Client \in Ends /\ Server \in Ends /\ Client # Server /\ Peer(Client) = Server
      /\ Peer(Server) = Client /\ (\A f \in Ends : f = Client \/ f = Server)
  BY EndsOf
<1>1. /\ Step(Client, r, net[Client]) /\ Spend("opens", TRUE)
      /\ written' = written /\ read' = read
  BY DEF Open
<1>2. budget.opens > 0 /\ budget' = [budget EXCEPT !.opens = budget.opens - 1]
      /\ budget \in Budgets
  <2>1. budget \in Budgets
    BY DEF LinkInv, LinkTyped, TcpTypeOK, Budgets
  <2> QED BY <1>1, <2>1 DEF Spend
<1>3. n = 0 /\ budget'.opens = 0
  <2>1. budget.opens \in 0 .. MaxOpens /\ MaxOpens \in Nat /\ MaxOpens <= 1
    BY <1>2, TcpLinkAssumption DEF Budgets, StreamSettings
  <2>2. budget.opens = 1 /\ MaxOpens = 1
    BY <1>2, <2>1
  <2> QED BY <1>2, <2>2 DEF Budgets
<1>4. i \in Nat /\ i \in Seqs /\ iss = i
  <2>1. i \in Nat /\ i \in Seqs
    BY <1>0, Bounds DEF Bounded
  <2>2. i + 0 * (W \div 4) = i
    BY <2>1, Sizes
  <2> QED BY <1>3, <2>1, <2>2, NormSmall
<1>5. /\ sock[Client].st = "Unassigned" /\ sock[Server].st = "Listen"
      /\ \A e \in Ends : net[e] = <<>> /\ written[e] = <<>> /\ read[e] = <<>>
  BY <1>2 DEF LinkInv, Unopened
<1>6. IsOpened(iss, r, TRUE) /\ r \in Results
  BY <1>4, Opens
<1> HIDE DEF iss, r, n
<1>7. PICK m \in Sockets :
        /\ m.st = "SynSent" /\ m.iss = iss /\ m.una = 0 /\ m.nxt = 0 /\ m.tx = <<>>
        /\ m.rx = <<>> /\ m.rcv = 0 /\ ~m.gotFin /\ ~m.probe /\ Indexed(m)
        /\ IsSent(m, r, Syn, 1, FALSE, TRUE)
  BY <1>6 DEF IsOpened
<1>8. /\ t \in Sockets /\ t.st = "SynSent" /\ t.iss = i /\ t.nxt = 1 /\ ~t.probe
      /\ t.rx = <<>> /\ t.rcv = 0 /\ ~t.gotFin /\ r.out = <<Segment(m, Syn, FALSE, <<>>)>>
  BY <1>4, <1>7 DEF IsSent, Results, KeepsSent, KeepsReceive
<1> HIDE DEF t
<1>9. sock \in [Ends -> Sockets] /\ net \in [Ends -> Seq(Segments)]
  BY DEF LinkInv, LinkTyped, TcpTypeOK
<1>10. /\ sock'[Client] = t /\ sock'[Server] = sock[Server]
       /\ net'[Client] = <<>> /\ net'[Server] = <<>> \o r.out
  <2>1. sock' = [sock EXCEPT ![Client] = t]
        /\ net' = [net EXCEPT ![Client] = <<>>, ![Server] = <<>> \o r.out]
    BY <1>0, <1>1, <1>5, <1>9 DEF Step, t
  <2> QED BY <1>0, <1>9, <2>1
<1>11. Sender(Client, t) /\ Receiver(Client, t)
  <2>1. "SynSent" \in Opening /\ "SynSent" \notin Later \cup Sealed \cup Windowed
    BY DEF Opening, SynStates, Later, DataStates, Windowed, Sealed
  <2>2. Part(<<>>, <<>>, 0)
    BY DEF Part
  <2> QED BY <1>0, <1>5, <1>8, <2>1, <2>2
      DEF Sender, Receiver, Received, Count, Sealed, Windowed
<1>12. Segment(m, Syn, FALSE, <<>>) \in Emitted(Client, t)
  <2>1. Norm(m.iss + m.nxt) = i
    BY <1>4, <1>7, NormSmall
  <2>2. Fits(m) /\ FALSE \in BOOLEAN
    BY <1>7 DEF Indexed
  <2>3. FALSE => t.st # "SynSent" /\ Expects(Client, m) /\ TakenBy(Client, t) >= TakenBy(Client, m)
    OBVIOUS
  <2> QED BY <1>0, <1>8, <2>1, <2>2, <2>3, SynSent_, Zenon
<1>13. /\ Sender(Client, sock[Client])' /\ Receiver(Client, sock[Client])'
       /\ Emitted(Client, sock[Client])' = Emitted(Client, t)
  <2>1. t.st \notin Later
    BY <1>8 DEF Later, DataStates, Windowed, SynStates
  <2>2. Sender(Client, sock[Client])'
    BY <1>1, <1>10, <1>11, <2>1 DEF Sender
  <2>3. Receiver(Client, sock[Client])'
    BY <1>1, <1>8, <1>10, <1>11 DEF Receiver, Received, Expects
  <2>4. Emitted(Client, sock[Client])' = Emitted(Client, t)
    BY <1>1, <1>10 DEF Emitted, Genuine, AcksTaken, TakenBy
  <2> QED BY <2>2, <2>3, <2>4
<1>14. Sender(Server, sock[Server])' /\ Receiver(Server, sock[Server])'
  <2>1. Sender(Server, sock[Server]) /\ Receiver(Server, sock[Server])
    BY <1>0, Idles
  <2>2. "Listen" \in Opening /\ "Listen" \notin Later
    BY SynStatesOf
  <2>3. Sender(Server, sock[Server])'
    BY <1>1, <1>5, <1>10, <2>1, <2>2 DEF Sender
  <2>4. Receiver(Server, sock[Server])'
    BY <1>1, <1>5, <1>10, <2>1, <2>2 DEF Receiver, Received, Expects
  <2> QED BY <2>3, <2>4
<1>15. net'[Server] \in Seq(Emitted(Client, sock[Client])')
  <2>1. r.out \in Seq(Emitted(Client, t))
    BY <1>8, <1>12, OneSegment
  <2>2. net'[Server] \in Seq(Emitted(Client, t))
    BY <1>10, <2>1
  <2> QED BY <1>13, <2>2
<1>16. net'[Client] \in Seq(Emitted(Server, sock[Server])')
  BY <1>10
<1>17. \A f \in Ends : Len(written'[f]) <= MaxBytes[f]
  BY <1>1, Bounds DEF Bounded
<1>18. \A f \in Ends : Connected(f)'
  BY <1>0, <1>13, <1>14, <1>15, <1>16, <1>17 DEF Connected
<1>19. Waiting' /\ Roles' /\ Unopened'
  BY <1>0, <1>1, <1>3, <1>5, <1>8, <1>10 DEF Waiting, Untried, Roles, Unopened
<1> QED BY <1>18, <1>19 DEF LinkInv

\* A user that reads all there is.
LEMMA ReadKeeps ==
  ASSUME LinkInv, StreamSettings, LinkTyped', NEW e \in Ends, Read(e)
  PROVE  LinkInv'
<1> DEFINE p == Peer(e)
           s == sock[e]
           q == sock[p]
           t == TCPRead(s, Len(s.rx))
           i == InitialSeq[p]
           r == Len(read[e])
           l == Len(s.rx)
           c == Count(s.gotFin)
           w == Len(written[p])
<1>0. p \in Ends /\ Peer(p) = e /\ p # e /\ (\A f \in Ends : f = e \/ f = p)
      /\ Peer(e) = p
  BY EndsOf
<1>1. sock \in [Ends -> Sockets] /\ read \in [Ends -> Seq(Bytes)]
  BY DEF LinkInv, LinkTyped, TcpTypeOK
<1>2. /\ sock' = [sock EXCEPT ![e] = t] /\ read' = [read EXCEPT ![e] = read[e] \o s.rx]
      /\ UNCHANGED <<net, written, left, budget>> /\ s.rx # <<>>
  BY <1>1 DEF Read
<1>3. /\ s \in Sockets /\ Indexed(s) /\ Sender(e, s) /\ Receiver(e, s)
      /\ q \in Sockets /\ Sender(p, q) /\ Receiver(p, q)
      /\ i \in Nat /\ r \in Nat /\ w \in Nat /\ written[p] \in Seq(Bytes)
  BY <1>0, Bounds DEF Bounded
<1>4. s.rx \in Seq(Bytes) /\ l \in Nat /\ l <= Pages /\ c \in 0 .. 1 /\ s.rcv \in Nat
  BY <1>3, StreamSizes, SocketFields, CountType DEF SocketTyped, Indexed
<1>5. IsRead(s, t)
  BY <1>3, Reads
<1> HIDE DEF t
<1>6. /\ t \in Sockets /\ t.st = s.st /\ KeepsSend(s, t) /\ t.gotFin = s.gotFin
      /\ t.rx = <<>> /\ t.irs = Norm(s.irs + l) /\ t.rcv = Norm(s.rcv - l)
  BY <1>5 DEF IsRead
<1>7. /\ sock'[e] = t /\ sock'[p] = q /\ read'[e] = read[e] \o s.rx /\ read'[p] = read[p]
  BY <1>0, <1>1, <1>2
<1>8. Len(read'[e]) = r + l
  <2>1. read[e] \in Seq(Bytes) /\ s.rx \in Seq(Bytes)
    BY <1>1, <1>4
  <2> QED BY <1>7, <2>1
<1>9. s.st \notin Opening
  BY <1>2, <1>3 DEF Receiver
<1>10. Received(e, s) /\ Part(read[e], written[p], 0) /\ Part(s.rx, written[p], r) /\ r + l <= w
  BY <1>3 DEF Receiver, Received, Part
<1>11. s.st \in Windowed =>
         /\ t.irs = Norm(i + 1 + (r + l)) /\ t.rcv = c
  <2> SUFFICES ASSUME s.st \in Windowed
               PROVE  t.irs = Norm(i + 1 + (r + l)) /\ t.rcv = c
    OBVIOUS
  <2>1. s.irs = Norm(i + 1 + r) /\ s.rcv = l + c
    BY <1>10 DEF Received, Expects
  <2>2. t.irs = Norm(Norm(i + 1 + r) + l) /\ t.rcv = Norm((l + c) - l)
    BY <1>6, <2>1
  <2> HIDE DEF i, r, l, c
  <2>3. i + 1 + r \in Int /\ l \in Int /\ (i + 1 + r) + l = i + 1 + (r + l)
        /\ (l + c) - l = c /\ c \in Seqs
    BY <1>3, <1>4, Sizes DEF Seqs
  <2>4. Norm(Norm(i + 1 + r) + l) = Norm((i + 1 + r) + l)
    BY <2>3, NormSum
  <2> QED BY <2>2, <2>3, <2>4, NormSmall
<1>12. TakenBy(e, sock[e])' = TakenBy(e, s)
  <2>1. TakenBy(e, sock[e])' = Len(read'[e]) + Len(t.rx) + Count(t.gotFin)
    BY <1>7 DEF TakenBy
  <2>2. Len(t.rx) = 0 /\ Count(t.gotFin) = c /\ TakenBy(e, s) = r + l + c
    BY <1>6 DEF TakenBy
  <2> HIDE DEF r, l, c
  <2> QED BY <1>3, <1>4, <1>8, <2>1, <2>2
<1>13. Received(e, sock[e])'
  <2>1. Part(read'[e], written[p], 0)
    <3>1. 0 + Len(read[e]) = r
      BY <1>3
    <3>2. Part(s.rx, written[p], 0 + Len(read[e]))
      BY <1>10, <3>1
    <3>3. read[e] \in Seq(Bytes) /\ 0 \in Nat
      BY <1>1
    <3>4. Part(read[e] \o s.rx, written[p], 0)
      BY <1>3, <1>4, <1>10, <3>2, <3>3, PartAppended
    <3> QED BY <1>7, <3>4
  <2>2. Part(t.rx, written[p], Len(read'[e]))
    <3>1. r + l \in 0 .. w
      <4>1. r \in Nat /\ l \in Nat /\ w \in Nat /\ r + l <= w
        BY <1>3, <1>4, <1>10
      <4> HIDE DEF r, l, w
      <4> QED BY <4>1
    <3>2. Part(<<>>, written[p], r + l)
      BY <1>3, <3>1, PartEmpty
    <3> QED BY <1>6, <1>8, <3>2
  <2>3. t.st \in Windowed => t.irs = Norm(i + 1 + Len(read'[e]))
                             /\ t.rcv = Len(t.rx) + Count(t.gotFin)
    <3>1. Len(t.rx) + Count(t.gotFin) = c
      BY <1>4, <1>6
    <3> QED BY <1>6, <1>8, <1>11, <3>1
  <2>4. t.gotFin => ~Writing(q) /\ Len(read'[e]) + Len(t.rx) = w
    <3>1. s.gotFin => ~Writing(q) /\ r + l = w
      BY <1>10 DEF Received
    <3>2. Len(t.rx) = 0 /\ (r + l) + 0 = r + l
      BY <1>3, <1>4, <1>6
    <3> QED BY <1>6, <1>8, <3>1, <3>2
  <2>5. t.st \notin Opening \cup {"Listen", "SynSent"}
    BY <1>6, <1>9 DEF Opening, SynStates
  <2>6. t.st = "Unassigned" => ~t.gotFin
    BY <1>6, <1>10 DEF Received
  <2>7. written' = written
    BY <1>2
  <2> HIDE DEF r, l, c, w
  <2>8. Expects(e, sock[e])' <=> t.irs = Norm(i + 1 + Len(read'[e]))
                                 /\ t.rcv = Len(t.rx) + Count(t.gotFin)
    BY <1>7 DEF Expects
  <2> QED BY <1>7, <2>1, <2>2, <2>3, <2>4, <2>5, <2>6, <2>7, <2>8 DEF Received, w
<1>14. Receiver(e, sock[e])'
  BY <1>6, <1>7, <1>9, <1>13 DEF Receiver
<1>15. Sender(e, sock[e])'
  <2>1. Taken(p)' = Taken(p) /\ Alive(p)' = Alive(p)
    BY <1>7 DEF Taken, TakenBy, Alive
  <2>2. t.iss = s.iss /\ t.una = s.una /\ t.nxt = s.nxt /\ t.tx = s.tx /\ t.probe = s.probe
        /\ written' = written
    BY <1>2, <1>6 DEF KeepsSend, KeepsSent
  <2>3. (Regular(e, s) => Regular(e, sock[e])') /\ (Hurried(e, s) => Hurried(e, sock[e])')
    BY <1>6, <1>7, <2>1, <2>2 DEF Regular, Hurried, Offset
  <2> QED BY <1>3, <1>6, <1>7, <2>2, <2>3 DEF Sender
<1>16. Sender(p, sock[p])'
  <2>1. Taken(e)' = Taken(e) /\ Alive(e)' = Alive(e)
    BY <1>6, <1>7, <1>12 DEF Taken, Alive
  <2>2. written' = written
    BY <1>2
  <2>3. (Regular(p, q) => Regular(p, sock[p])') /\ (Hurried(p, q) => Hurried(p, sock[p])')
    BY <1>0, <1>7, <2>1, <2>2 DEF Regular, Hurried, Offset
  <2> QED BY <1>3, <1>7, <2>2, <2>3 DEF Sender
<1>17. Receiver(p, sock[p])'
  <2>1. written' = written /\ Writing(t) = Writing(s)
    BY <1>2, <1>6 DEF Writing
  <2> QED BY <1>0, <1>3, <1>7, <2>1 DEF Receiver, Received, Expects
<1>18. Emitted(p, sock[p])' = Emitted(p, q)
  BY <1>2, <1>7 DEF Emitted, Genuine, AcksTaken, TakenBy
<1>19. Emitted(e, sock[e])' = Emitted(e, s)
  <2>1. written' = written /\ Writing(t) = Writing(s)
    BY <1>2, <1>6 DEF Writing
  <2>2. \A g : Genuine(g, e, sock[e])' = Genuine(g, e, s)
    BY <1>7, <2>1 DEF Genuine
  <2>3. \A g : AcksTaken(g, e, sock[e])' = AcksTaken(g, e, s)
    BY <1>12 DEF AcksTaken
  <2> QED BY <1>6, <1>7, <2>2, <2>3 DEF Emitted
<1>20. net'[e] \in Seq(Emitted(p, sock[p])') /\ net'[p] \in Seq(Emitted(e, sock[e])')
  <2>1. net[e] \in Seq(Emitted(p, q)) /\ net[p] \in Seq(Emitted(e, s))
    BY <1>0, Idles
  <2> QED BY <1>2, <1>18, <1>19, <2>1
<1>21. \A f \in Ends : Len(written'[f]) <= MaxBytes[f]
  BY <1>2, Bounds DEF Bounded
<1>22. \A f \in Ends : Connected(f)'
  <2>1. Connected(e)'
    BY <1>0, <1>14, <1>15, <1>20, <1>21 DEF Connected
  <2>2. Connected(p)'
    BY <1>0, <1>16, <1>17, <1>20, <1>21 DEF Connected
  <2> QED BY <1>0, <2>1, <2>2
<1>23. \A f \in Ends : sock'[f].st = sock[f].st /\ sock'[f].una = sock[f].una
  BY <1>0, <1>6, <1>7 DEF KeepsSend, KeepsSent
<1>24. Waiting' /\ Roles'
  BY <1>2, <1>23, EndsOf DEF LinkInv, Waiting, Untried, Roles
<1>25. Unopened'
  <2>1. budget.opens = 0
    <3> SUFFICES ASSUME budget.opens # 0 PROVE FALSE
      OBVIOUS
    <3>1. w = 0 /\ r = 0
      BY <1>0 DEF LinkInv, Unopened
    <3>2. l = 0
      <4> HIDE DEF l, w, r
      <4> QED BY <1>3, <1>4, <1>10, <3>1
    <3> QED BY <1>2, <1>4, <3>2
  <2> QED BY <1>2, <2>1 DEF Unopened
<1> QED BY <1>22, <1>24, <1>25 DEF LinkInv

\* A user that writes: the bytes go behind the ones that are there.
LEMMA WrittenStream ==
  ASSUME LinkInv, StreamSettings, NEW e \in Ends, sock[e].st = "Established",
         NEW t, NEW p \in Sockets, NEW y \in Seq(Bytes), NEW data,
         IsWritten(sock[e], t, data, p, y)
  PROVE  LET n == Offset(e, sock[e]) + sock[e].una
         IN  /\ n \in Nat /\ t.iss = Norm(InitialSeq[e] + 1 + n) /\ t.una = 0
             /\ Part(t.tx, written[e] \o y, n)
             /\ Len(written[e] \o y) - Len(t.tx) = n
             /\ Alive(Peer(e)) => n <= Taken(Peer(e))
<1> DEFINE s == sock[e]
           i == InitialSeq[e]
           x == written[e]
           w == Len(x)
           l == Len(s.tx)
           f == Offset(e, s)
           u == s.una
           m == Len(p.tx)
           k == Len(y)
           n == f + u
<1>1. /\ i \in Nat /\ x \in Seq(Bytes) /\ w \in Nat /\ s \in Sockets /\ Sender(e, s)
      /\ s.tx \in Seq(Bytes) /\ l \in Nat /\ u \in Nat /\ s.nxt \in Nat
      /\ u <= s.nxt /\ s.nxt <= l
  <2>1. /\ i \in Nat /\ x \in Seq(Bytes) /\ w \in Nat /\ s \in Sockets /\ Indexed(s)
        /\ Sender(e, s)
    BY Bounds DEF Bounded
  <2>2. s.tx \in Seq(Bytes) /\ l \in Nat /\ u \in Nat /\ s.nxt \in Nat
    BY <2>1, SocketFields DEF SocketTyped
  <2> QED BY <2>1, <2>2 DEF Indexed, Streaming
<1>2. /\ t.iss = p.iss /\ t.una = p.una /\ t.tx = p.tx \o y
      /\ p.iss = Norm(s.iss + u) /\ p.una = 0 /\ Piece(Bytes, p.tx, s.tx, u, l - u)
  BY DEF IsWritten, IsScaled
<1>3. Regular(e, s)
  BY <1>1, SynStatesOf DEF Sender, Hurried
<1>4. /\ s.iss = Norm(i + 1 + f) /\ f = w - l /\ f >= 0 /\ Part(s.tx, x, f)
      /\ Alive(Peer(e)) => n <= Taken(Peer(e))
  BY <1>3 DEF Regular, Offset
<1>5. p.tx \in Seq(Bytes) /\ m = (IF l - u > 0 THEN l - u ELSE 0)
  BY <1>2 DEF Piece
<1>6. k \in Nat
  OBVIOUS
<1>7. Len(t.tx) = m + k /\ Len(x \o y) = w + k
  BY <1>1, <1>2, <1>5, Appended
<1> HIDE DEF s, i, x, w, l, f, u, m, k, n
<1>8. f \in Nat /\ n \in Nat /\ m \in Nat /\ m = l - u /\ n + m = w /\ (w + k) - (m + k) = n
  BY <1>1, <1>4, <1>5, <1>6 DEF n
<1>9. Part(p.tx, x, n)
  <2>1. u <= Len(s.tx) /\ u + (l - u) <= Len(s.tx) /\ l - u \in Int
    <3>1. Len(s.tx) = l
      BY DEF l
    <3> QED BY <1>1, <3>1
  <2> QED BY <1>1, <1>2, <1>4, <1>5, <1>8, <2>1, PartOfPart DEF n
<1>10. Part(t.tx, x \o y, n)
  <2>1. n + Len(p.tx) = Len(x)
    BY <1>8 DEF m, w
  <2> QED BY <1>1, <1>2, <1>5, <1>8, <1>9, <2>1, PartWritten
<1>11. t.iss = Norm(i + 1 + n)
  <2>1. i + 1 + f \in Int /\ u \in Int /\ (i + 1 + f) + u = i + 1 + n
    BY <1>1, <1>8 DEF n
  <2>2. t.iss = Norm(Norm(i + 1 + f) + u)
    BY <1>2, <1>4
  <2> QED BY <2>1, <2>2, NormSum
<1> QED BY <1>2, <1>4, <1>7, <1>8, <1>10, <1>11 DEF s, i, x, f, u, n

LEMMA WriteKeeps ==
  ASSUME LinkInv, StreamSettings, LinkTyped', NEW e \in Ends, Write(e)
  PROVE  LinkInv'
<1> DEFINE p == Peer(e)
           s == sock[e]
           q == sock[p]
<1>0. p \in Ends /\ Peer(p) = e /\ p # e /\ (\A f \in Ends : f = e \/ f = p)
  BY EndsOf
<1>1. LinkTyped /\ sock \in [Ends -> Sockets] /\ written \in [Ends -> Seq(Bytes)]
  BY DEF LinkInv, LinkTyped, TcpTypeOK
<1>2. PICK t, m \in Sockets, y, data \in Seq(Bytes) :
        /\ IsWritten(s, t, data, m, y) /\ s.st = "Established"
        /\ sock' = [sock EXCEPT ![e] = t]
        /\ written' = [written EXCEPT ![e] = written[e] \o y]
        /\ Len(written[e]) + Len(y) <= MaxBytes[e]
        /\ UNCHANGED <<net, read, left, budget>>
  BY <1>1, WriteStep
<1>3. /\ s \in Sockets /\ Sender(e, s) /\ Receiver(e, s)
      /\ q \in Sockets /\ Sender(p, q) /\ Receiver(p, q)
  BY <1>0, Bounds DEF Bounded
<1>4. /\ sock'[e] = t /\ sock'[p] = q /\ written'[e] = written[e] \o y
      /\ written'[p] = written[p] /\ read' = read
  BY <1>0, <1>1, <1>2
<1>5. /\ t.st = "Established" /\ KeepsReceive(s, t)
  BY <1>2 DEF IsWritten, IsScaled, KeepsReceive
<1>6. written[e] \in Seq(Bytes) /\ read[p] \in Seq(Bytes) /\ q.rx \in Seq(Bytes)
      /\ Len(read[p]) \in Nat /\ written[e] \o y \in Seq(Bytes)
      /\ Len(written[e] \o y) = Len(written[e]) + Len(y)
  <2>1. written[e] \in Seq(Bytes) /\ read[p] \in Seq(Bytes) /\ q.rx \in Seq(Bytes)
        /\ Len(read[p]) \in Nat
    BY <1>0, <1>3, Bounds, SocketFields DEF Bounded, SocketTyped
  <2> QED BY <2>1, Appended
<1>7. Taken(p)' = Taken(p) /\ Alive(p)' = Alive(p) /\ Taken(e)' = Taken(e)
      /\ Alive(e)' = Alive(e)
  BY <1>2, <1>4, <1>5 DEF Taken, TakenBy, KeepsReceive, Alive
<1>8. "Established" \in Later /\ "Established" \notin Opening \cup Sealed
      /\ "Established" \notin SynStates \cup {"Listen", "Unassigned", "SynSent"}
      /\ Writing(s) /\ Writing(t)
  BY <1>2, <1>5 DEF Later, DataStates, Windowed, Opening, SynStates, Sealed, Writing
<1>9. Sender(e, sock[e])'
  <2> DEFINE n == Offset(e, s) + s.una
  <2>1. /\ n \in Nat /\ t.iss = Norm(InitialSeq[e] + 1 + n) /\ t.una = 0
        /\ Part(t.tx, written[e] \o y, n)
        /\ Len(written[e] \o y) - Len(t.tx) = n
        /\ Alive(p) => n <= Taken(p)
    BY <1>2, WrittenStream
  <2>2. Offset(e, sock[e])' = n
    BY <1>4, <2>1 DEF Offset
  <2> HIDE DEF n
  <2>3. n >= 0 /\ n + 0 = n
    BY <2>1
  <2>4. Regular(e, sock[e])'
    BY <1>4, <1>7, <2>1, <2>2, <2>3 DEF Regular
  <2> QED BY <1>4, <1>5, <1>8, <2>4 DEF Sender, Sealed
<1>10. Receiver(e, sock[e])'
  BY <1>0, <1>3, <1>4, <1>5, <1>8, <1>2
     DEF Receiver, Received, Expects, KeepsReceive
<1>11. Sender(p, sock[p])'
  <2>1. (Regular(p, q) => Regular(p, sock[p])') /\ (Hurried(p, q) => Hurried(p, sock[p])')
    BY <1>0, <1>4, <1>7 DEF Regular, Hurried, Offset
  <2> QED BY <1>3, <1>4, <2>1 DEF Sender
<1>12. ~q.gotFin
  BY <1>0, <1>3, <1>8 DEF Receiver, Received
<1>13. Receiver(p, sock[p])'
  <2>1. Part(read[p], written[e], 0) /\ Part(q.rx, written[e], Len(read[p]))
    BY <1>0, <1>3 DEF Receiver, Received
  <2>2. Part(read[p], written[e] \o y, 0) /\ Part(q.rx, written[e] \o y, Len(read[p]))
    BY <1>6, <2>1, PartGrows
  <2> QED BY <1>0, <1>3, <1>4, <1>12, <2>2 DEF Receiver, Received, Expects
<1>14. ASSUME NEW g \in Emitted(e, s)
       PROVE  g \in Emitted(e, sock[e])'
  <2>1. g \in Segments /\ Genuine(g, e, s) /\ (s.st # "Unassigned" => AcksTaken(g, e, s))
    BY DEF Emitted
  <2>2. AcksTaken(g, e, sock[e])'
    <3>1. TakenBy(e, sock[e])' = TakenBy(e, s)
      BY <1>7 DEF Taken
    <3> QED BY <1>2, <1>8, <2>1, <3>1 DEF AcksTaken
  <2>3. g.data # <<>> => Placed(g.data, written[e] \o y, InitialSeq[e], g.seq)
    <3> SUFFICES ASSUME g.data # <<>>
                 PROVE  Placed(g.data, written[e] \o y, InitialSeq[e], g.seq)
      OBVIOUS
    <3> DEFINE a == Len(written[e])
               b == Len(written[e] \o y)
               c == Len(y)
    <3>1. PICK k \in 0 .. a : /\ g.seq = Norm(InitialSeq[e] + 1 + k)
                              /\ Part(g.data, written[e], k)
      BY <2>1 DEF Genuine, Placed
    <3>2. g.data \in Seq(Bytes)
      BY <2>1, SegmentFields DEF SegmentTyped
    <3>3. a \in Nat /\ c \in Nat /\ b = a + c
      BY <1>6
    <3> HIDE DEF a, b, c
    <3>4. k \in Nat /\ k \in 0 .. b
      BY <3>1, <3>3
    <3>5. Part(g.data, written[e] \o y, k)
      BY <1>6, <3>1, <3>2, <3>4, PartGrows
    <3> QED BY <3>1, <3>4, <3>5 DEF Placed, b
  <2>4. Genuine(g, e, sock[e])'
    BY <1>4, <1>8, <2>1, <2>3 DEF Genuine
  <2> QED BY <1>4, <1>5, <2>1, <2>2, <2>4 DEF Emitted
<1>15. Emitted(p, sock[p])' = Emitted(p, q)
  BY <1>0, <1>4 DEF Emitted, Genuine, AcksTaken, TakenBy
<1>16. net'[e] \in Seq(Emitted(p, sock[p])') /\ net'[p] \in Seq(Emitted(e, sock[e])')
  <2>1. net[e] \in Seq(Emitted(p, q)) /\ net[p] \in Seq(Emitted(e, s))
    BY <1>0, Idles
  <2>2. Seq(Emitted(e, s)) \subseteq Seq(Emitted(e, sock[e])')
    BY <1>14, SeqGrows
  <2> QED BY <1>2, <1>15, <2>1, <2>2
<1>17. Len(written'[e]) <= MaxBytes[e] /\ Len(written'[p]) <= MaxBytes[p]
  BY <1>0, <1>2, <1>4, <1>6, Bounds DEF Bounded
<1>18. Connected(e)' /\ Connected(p)'
  BY <1>0, <1>9, <1>10, <1>11, <1>13, <1>16, <1>17 DEF Connected
<1>19. \A f \in Ends : Connected(f)'
  BY <1>0, <1>18
<1>20. sock'[e].st = s.st /\ sock'[p] = q
  BY <1>2, <1>4, <1>5
<1>21. Waiting'
  <2>1. sock[Client].st = "SynSent" => written[Server] = <<>> /\ Untried(sock[Server])
    BY DEF LinkInv, Waiting
  <2>2. CASE e = Server
    <3>1. sock[Client].st # "SynSent"
      BY <1>2, <2>1, <2>2 DEF Untried
    <3> QED BY <1>20, <2>2, <3>1, EndsOf DEF Waiting
  <2>3. CASE e = Client
    BY <1>4, <1>5, <2>3, EndsOf DEF Waiting
  <2> QED BY <2>2, <2>3, EndsOf DEF Ends
<1>22. Roles'
  BY <1>0, <1>20, EndsOf DEF LinkInv, Roles
<1>23. Unopened'
  <2>1. budget.opens = 0
    BY <1>2, EndsOf DEF LinkInv, Unopened
  <2> QED BY <1>2, <2>1 DEF Unopened
<1> QED BY <1>19, <1>21, <1>22, <1>23 DEF LinkInv

-----------------------------------------------------------------------------
(* The connection is a byte stream.                                        *)

LEMMA StreamInit == StreamSettings /\ Init => LinkInv
<1> SUFFICES ASSUME StreamSettings, Init PROVE LinkInv
  OBVIOUS
<1>0. Client \in Ends /\ Server \in Ends /\ Client # Server /\ Peer(Client) = Server
      /\ Peer(Server) = Client /\ (\A f \in Ends : f = Client \/ f = Server)
  BY EndsOf
<1> DEFINE i == InitialSeq[Server]
           t == TCPListen(i)
<1>1. LinkTyped /\ i \in Seqs
  BY <1>0, LinkInit, TcpLinkAssumption
<1>2. /\ t \in Sockets /\ t.st = "Listen" /\ t.iss = i /\ t.nxt = 0 /\ ~t.probe
      /\ t.rx = <<>> /\ t.rcv = 0 /\ ~t.gotFin
  BY <1>1, ListenType
<1> HIDE DEF t
<1>3. /\ sock[Client] = Fresh /\ sock[Server] = t
      /\ \A f \in Ends : net[f] = <<>> /\ written[f] = <<>> /\ read[f] = <<>>
  BY <1>0 DEF Init, t
<1>4. Part(<<>>, <<>>, 0)
  BY DEF Part
<1>5. "Listen" \in Opening /\ "Listen" \notin Later \cup Windowed \cup Sealed
      /\ "Unassigned" \notin Opening \cup Later \cup Windowed \cup Sealed
  BY SynStatesOf DEF Windowed, Sealed, Opening, SynStates
<1>6. Sender(Client, Fresh) /\ Sender(Server, t)
  BY <1>2, <1>3, <1>5, FreshType, <1>0 DEF Sender, Count, Sealed
<1>7. Receiver(Client, Fresh) /\ Receiver(Server, t)
  BY <1>0, <1>2, <1>3, <1>4, <1>5, FreshType DEF Receiver, Received
<1>8. \A f \in Ends : Connected(f)
  <2>1. \A f \in Ends : Len(written[f]) <= MaxBytes[f]
    <3>1. \A f \in Ends : MaxBytes[f] \in Nat
      BY TcpLinkAssumption
    <3> QED BY <1>3, <3>1
  <2>2. \A f \in Ends : net[f] \in Seq(Emitted(Peer(f), sock[Peer(f)]))
    <3>1. \A S : <<>> \in Seq(S)
      OBVIOUS
    <3> QED BY <1>3, <3>1, Zenon
  <2> QED BY <1>0, <1>3, <1>6, <1>7, <2>1, <2>2 DEF Connected
<1>9. Waiting /\ Roles
  BY <1>2, <1>3, FreshType DEF Waiting, Roles
<1>10. Unopened
  BY <1>2, <1>3, FreshType DEF Unopened, Init
<1> QED BY <1>1, <1>8, <1>9, <1>10 DEF LinkInv

LEMMA StreamNext == StreamSettings /\ LinkInv /\ [Next]_vars => LinkInv'
<1> SUFFICES ASSUME StreamSettings, LinkInv, [Next]_vars PROVE LinkInv'
  OBVIOUS
<1>1. LinkTyped'
  BY LinkNext DEF LinkInv
<1>2. CASE UNCHANGED vars
  <2>1. UNCHANGED <<sock, net, written, read, left, budget>>
    BY <1>2 DEF vars
  <2>2. \A e \in Ends : Connected(e)'
    <3> SUFFICES ASSUME NEW e \in Ends PROVE Connected(e)'
      OBVIOUS
    <3>1. Connected(e)
      BY DEF LinkInv
    <3>2. Sender(e, sock[e])' = Sender(e, sock[e])
      BY <2>1 DEF Sender, Regular, Hurried, Offset, Alive, Taken, TakenBy
    <3>3. Receiver(e, sock[e])' = Receiver(e, sock[e])
      BY <2>1 DEF Receiver, Received, Expects
    <3>4. Emitted(Peer(e), sock[Peer(e)])' = Emitted(Peer(e), sock[Peer(e)])
      BY <2>1 DEF Emitted, Genuine, AcksTaken, TakenBy
    <3> QED BY <2>1, <3>1, <3>2, <3>3, <3>4 DEF Connected
  <2>3. Waiting' /\ Roles' /\ Unopened'
    BY <2>1 DEF LinkInv, Waiting, Roles, Unopened
  <2> QED BY <1>1, <2>2, <2>3 DEF LinkInv
<1>3. CASE Open
  BY <1>1, <1>3, OpenKeeps
<1>4. CASE Silence
  BY <1>1, <1>4, SilenceKeeps
<1>5. ASSUME NEW e \in Ends, Deliver(e) PROVE LinkInv'
  BY <1>1, <1>5, DeliverKeeps
<1>6. ASSUME NEW e \in Ends, Poll(e) PROVE LinkInv'
  BY <1>1, <1>6, PollingKeeps
<1>7. ASSUME NEW e \in Ends, Lose(e) PROVE LinkInv'
  BY <1>1, <1>7, LoseKeeps
<1>8. ASSUME NEW e \in Ends, Lapse(e) PROVE LinkInv'
  BY <1>1, <1>8, LapseKeeps
<1>9. ASSUME NEW e \in Ends, Write(e) PROVE LinkInv'
  BY <1>1, <1>9, WriteKeeps
<1>10. ASSUME NEW e \in Ends, Read(e) PROVE LinkInv'
  BY <1>1, <1>10, ReadKeeps
<1>11. ASSUME NEW e \in Ends, Close(e) PROVE LinkInv'
  BY <1>1, <1>11, CloseKeeps
<1>12. ASSUME NEW e \in Ends, Abort(e) PROVE LinkInv'
  BY <1>1, <1>12, AbortKeeps
<1> QED BY <1>2, <1>3, <1>4, <1>5, <1>6, <1>7, <1>8, <1>9, <1>10, <1>11, <1>12 DEF Next

\* The invariant of a connection holds, for every value of the constants that
\* StreamSettings allows.
THEOREM LinkInvariant == ASSUME StreamSettings PROVE Spec => []LinkInv
<1>1. Init => LinkInv
  BY StreamInit
<1>2. LinkInv /\ [Next]_vars => LinkInv'
  BY StreamNext
<1> QED BY <1>1, <1>2, PTL DEF Spec

\* What a connection of two live sockets knows of the bytes of one end.
LEMMA Acknowledged ==
  ASSUME StreamSettings, LinkInv
  PROVE  AckedIsReceived
<1> SUFFICES ASSUME NEW e \in Ends, sock[e].st \in DataStates, sock[Peer(e)].st \in DataStates
             PROVE  Len(written[e]) - Len(sock[e].tx) + Min({sock[e].una, Len(sock[e].tx)})
                      <= Len(read[Peer(e)]) + Len(sock[Peer(e)].rx)
  BY DEF AckedIsReceived
<1> DEFINE p == Peer(e)
           s == sock[e]
           q == sock[p]
           w == Len(written[e])
           l == Len(s.tx)
           u == s.una
           a == Min({u, l})
           r == Len(read[p])
           b == Len(q.rx)
           c == Count(q.gotFin)
<1>1. p \in Ends /\ Peer(p) = e
  BY EndsOf
<1>2. /\ s \in Sockets /\ Sender(e, s) /\ w \in Nat /\ q \in Sockets /\ Received(p, q) /\ r \in Nat
  BY <1>1, Bounds DEF Bounded, Receiver
<1>3. l \in Nat /\ u \in Nat /\ b \in Nat /\ c \in 0 .. 1
  BY <1>2, SocketFields, CountType DEF SocketTyped
<1>4. s.st \in Later /\ Alive(p)
  BY DEF Later, Alive, DataStates, Windowed
<1>5. a = IF u <= l THEN u ELSE l
  BY <1>3, MinOf
<1>6. CASE Hurried(e, s)
  <2>1. w = 0 /\ l = 0
    BY <1>6 DEF Hurried
  <2> HIDE DEF w, l, u, a, r, b
  <2>2. w - l + a <= r + b
    BY <1>2, <1>3, <1>5, <2>1
  <2> QED BY <2>2 DEF w, l, u, a, r, b
<1>7. CASE Regular(e, s)
  <2>1. w - l + u <= r + b + c
    BY <1>4, <1>7 DEF Regular, Offset, Taken, TakenBy
  <2>2. q.gotFin => r + b = w
    BY <1>1, <1>2 DEF Received
  <2>3. ~q.gotFin => c = 0
    BY DEF Count
  <2> HIDE DEF w, l, u, a, r, b, c
  <2>4. w - l + a <= r + b
    BY <1>2, <1>3, <1>5, <2>1, <2>2, <2>3
  <2> QED BY <2>4 DEF w, l, u, a, r, b
<1> QED BY <1>2, <1>4, <1>6, <1>7 DEF Sender

LEMMA FinIsLast ==
  ASSUME StreamSettings, LinkInv
  PROVE  FinMeansAll
<1> SUFFICES ASSUME NEW e \in Ends, sock[e].gotFin
             PROVE  read[e] \o sock[e].rx = written[Peer(e)]
  BY DEF FinMeansAll
<1> DEFINE s == sock[e]
           x == written[Peer(e)]
           y == read[e] \o s.rx
<1>1. /\ read[e] \in Seq(Bytes) /\ s \in Sockets /\ Received(e, s) /\ x \in Seq(Bytes)
  BY EndsOf, Bounds DEF Bounded, Receiver
<1>2. s.rx \in Seq(Bytes)
  BY <1>1, SocketFields DEF SocketTyped
<1>3. /\ Part(read[e], x, 0) /\ Part(s.rx, x, Len(read[e]))
      /\ Len(read[e]) + Len(s.rx) = Len(x)
  BY <1>1 DEF Received
<1> HIDE DEF x
<1>4. Part(s.rx, x, 0 + Len(read[e]))
  BY <1>1, <1>3
<1>5. y \in Seq(Bytes) /\ Part(y, x, 0) /\ Len(y) = Len(x)
  BY <1>1, <1>2, <1>3, <1>4, PartAppended, Appended
<1> HIDE DEF y
<1>6. y = x
  BY <1>1, <1>5, PartWhole
<1> QED BY <1>6 DEF x, y

\* No byte is forgotten by its sender before the socket of the peer has it.
THEOREM NoByteLost == ASSUME StreamSettings PROVE Spec => []AckedIsReceived
<1>1. LinkInv => AckedIsReceived
  BY Acknowledged
<1> QED BY <1>1, LinkInvariant, PTL

\* A socket that has the FIN of its peer has all the peer has written.
THEOREM FinComesLast == ASSUME StreamSettings PROVE Spec => []FinMeansAll
<1>1. LinkInv => FinMeansAll
  BY FinIsLast
<1> QED BY <1>1, LinkInvariant, PTL

-----------------------------------------------------------------------------
(* The refinement of ByteStream.                                           *)

LEMMA BeginningOf ==
  ASSUME NEW S, NEW w \in Seq(S), NEW x \in Seq(S), Part(x, w, 0)
  PROVE  x = SubSeq(w, 1, Len(x)) /\ Len(x) \in 0 .. Len(w)
<1> DEFINE n == Len(x)
           m == Len(w)
           y == SubSeq(w, 1, n)
<1>1. n \in Nat /\ m \in Nat
  OBVIOUS
<1>2. 0 + n <= m /\ \A k \in 1 .. n : x[k] = w[0 + k]
  BY DEF Part
<1>3. n <= m /\ n \in 0 .. m /\ 0 + 1 = 1 /\ 0 + n = n
  <2> HIDE DEF n, m
  <2> QED BY <1>1, <1>2
<1>4. Piece(S, y, w, 0, n)
  <2>1. Piece(S, SubSeq(w, 0 + 1, 0 + n), w, 0, n)
    <3> HIDE DEF n
    <3>1. n > 0 => 0 + n <= Len(w)
      BY <1>1, <1>2
    <3> QED BY <1>1, <3>1, Pieces
  <2> QED BY <1>3, <2>1
<1> HIDE DEF y
<1>5. y \in Seq(S) /\ Len(y) = n /\ \A k \in 1 .. n : y[k] = w[0 + k]
  <2> HIDE DEF n
  <2> QED BY <1>1, <1>4 DEF Piece
<1>6. y = x
  BY <1>2, <1>5
<1> QED BY <1>3, <1>6 DEF y

\* A stream that grows.
LEMMA StrictlyGrows ==
  ASSUME NEW S, NEW x \in Seq(S), NEW y \in Seq(S), y # <<>>
  PROVE  IsStrictPrefix(x, x \o y) /\ Stream!IsStrictPrefix(x, x \o y)
<1> DEFINE z == x \o y
<1>1. Part(x, x, 0)
  BY DEF Part
<1>2. Part(x, z, 0) /\ z \in Seq(S) /\ Len(z) = Len(x) + Len(y)
  BY <1>1, PartGrows
<1>3. x = SubSeq(z, 1, Len(x)) /\ Len(x) \in 0 .. Len(z)
  BY <1>2, BeginningOf
<1>4. x = SubSeq(x, 1, Len(x))
  BY <1>1, BeginningOf
<1>5. x # z /\ Len(x) <= Len(z)
  BY <1>2
<1> QED BY <1>3, <1>4, <1>5
    DEF IsStrictPrefix, IsPrefix, Stream!IsStrictPrefix, Stream!IsPrefix

\* An application that writes lets the stream grow, unless there is no memory
\* for what it writes.
LEMMA WriteStreams ==
  ASSUME StreamSettings, LinkInv, NEW e \in Ends, Write(e)
  PROVE  Stream!Write(e) \/ UNCHANGED <<written, read>>
<1>1. LinkTyped /\ written \in [Ends -> Seq(Bytes)]
  BY DEF LinkInv, LinkTyped, TcpTypeOK
<1>2. PICK y \in Seq(Bytes) :
        written' = [written EXCEPT ![e] = written[e] \o y] /\ read' = read
  BY <1>1, WriteStep
<1>3. written'[e] = written[e] \o y /\ written[e] \in Seq(Bytes)
  BY <1>1, <1>2
<1>4. CASE y = <<>>
  BY <1>1, <1>2, <1>3, <1>4
<1>5. CASE y # <<>>
  <2>1. Stream!IsStrictPrefix(written[e], written'[e])
    BY <1>3, <1>5, StrictlyGrows
  <2> QED BY <1>2, <1>3, <2>1 DEF Stream!Write
<1> QED BY <1>4, <1>5

\* An application that reads gets the next bytes of what its peer has written.
LEMMA ReadStreams ==
  ASSUME StreamSettings, LinkInv, NEW e \in Ends, Read(e)
  PROVE  Stream!Read(e)
<1> DEFINE x == sock[e].rx
           w == written[Peer(e)]
           y == read[e] \o x
<1>1. read' = [read EXCEPT ![e] = y] /\ x # <<>> /\ written' = written
  BY DEF Read
<1>2. /\ read[e] \in Seq(Bytes) /\ w \in Seq(Bytes) /\ sock[e] \in Sockets
      /\ Received(e, sock[e])
  BY EndsOf, Bounds DEF Bounded, Receiver
<1>3. x \in Seq(Bytes) /\ Part(read[e], w, 0) /\ Part(x, w, Len(read[e]))
  BY <1>2, SocketFields DEF SocketTyped, Received
<1> HIDE DEF x, w
<1>4. Stream!IsStrictPrefix(read[e], y)
  BY <1>1, <1>2, <1>3, StrictlyGrows
<1>5. Part(x, w, 0 + Len(read[e]))
  BY <1>2, <1>3
<1>6. Part(y, w, 0) /\ y \in Seq(Bytes)
  BY <1>2, <1>3, <1>5, PartAppended, Appended
<1> HIDE DEF y
<1>7. y = SubSeq(w, 1, Len(y)) /\ Len(y) \in 0 .. Len(w)
  BY <1>2, <1>6, BeginningOf
<1>8. y \in Stream!Prefixes(w)
  BY <1>7 DEF Stream!Prefixes
<1> QED BY <1>1, <1>4, <1>8 DEF Stream!Read, w

\* Every other step leaves the streams as they are.
LEMMA StepStreams ==
  ASSUME StreamSettings, LinkInv, [Next]_vars
  PROVE  [Stream!Next]_(Stream!vars)
<1>1. ASSUME NEW e \in Ends, Write(e) PROVE Stream!Next \/ UNCHANGED <<written, read>>
  BY <1>1, WriteStreams DEF Stream!Next
<1>2. ASSUME NEW e \in Ends, Read(e) PROVE Stream!Next
  BY <1>2, ReadStreams DEF Stream!Next
<1>3. ASSUME Open \/ Silence \/ UNCHANGED vars
      PROVE  UNCHANGED <<written, read>>
  BY <1>3 DEF Open, Silence, vars
<1>4. ASSUME NEW e \in Ends, Deliver(e) \/ Poll(e) \/ Lose(e) \/ Lapse(e) \/ Close(e) \/ Abort(e)
      PROVE  UNCHANGED <<written, read>>
  BY <1>4 DEF Deliver, Poll, Lose, Lapse, Close, Abort
<1> QED BY <1>1, <1>2, <1>3, <1>4 DEF Next, Stream!vars

\* The connection of two sockets is a ByteStream: what each application has
\* read is, at any time, the beginning of what the other one has written,
\* whatever the network loses, duplicates or delays.
THEOREM LinkIsStream == ASSUME StreamSettings PROVE Spec => StreamSpec
<1>1. Init => Stream!Init
  BY DEF Init, Stream!Init
<1>2. LinkInv /\ [Next]_vars => [Stream!Next]_(Stream!vars)
  BY StepStreams
<1> QED BY <1>1, <1>2, LinkInvariant, PTL DEF Spec, StreamSpec, Stream!Spec
=============================================================================
