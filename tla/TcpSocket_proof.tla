---------------------------- MODULE TcpSocket_proof ----------------------------
(***************************************************************************)
(* What the operators of TcpSocket do to a socket, for any sequence space, *)
(* segment size and memory: their types, and which indexes they move.      *)
(***************************************************************************)
EXTENDS TcpSocket, SequenceTheorems, TLAPS

-----------------------------------------------------------------------------
(* Numbers modulo W.                                                       *)

LEMMA Sizes ==
  /\ W \in Nat /\ W > 1 /\ MSS \in Nat /\ MSS > 0 /\ Pages \in Nat /\ 4 * Pages < W
  /\ Retries \in Nat /\ Retries > 0
BY TcpSocketAssumption

LEMMA NormType ==
  ASSUME NEW n \in Int
  PROVE  Norm(n) \in Seqs /\ Norm(n) \in Nat
BY Sizes DEF Norm, Seqs

LEMMA NormSmall ==
  ASSUME NEW n \in Seqs
  PROVE  Norm(n) = n
BY Sizes DEF Norm, Seqs

\* Two numbers of the sequence space that differ by a multiple of W are one.
LEMMA NormDivides ==
  ASSUME NEW n \in Int
  PROVE  \E q \in Int : n = W * q + Norm(n)
<1>1. n = W * (n \div W) + Norm(n) /\ n \div W \in Int
  BY Sizes DEF Norm
<1> QED BY <1>1

LEMMA MultipleSmall ==
  ASSUME NEW d \in Int, W * d < W, -W < W * d
  PROVE  d = 0
<1>1. CASE d >= 1
  <2> DEFINE k == d - 1
  <2>1. k \in Nat /\ W * d = W + W * k /\ W * k \in Nat
    BY Sizes, <1>1
  <2> HIDE DEF k
  <2> QED BY <2>1, Sizes
<1>2. CASE d <= -1
  <2> DEFINE k == -1 - d
  <2>1. k \in Nat /\ W * d = -W - W * k /\ W * k \in Nat
    BY Sizes, <1>2
  <2> HIDE DEF k
  <2> QED BY <2>1, Sizes
<1> QED BY <1>1, <1>2

LEMMA NormUnique ==
  ASSUME NEW n \in Int, NEW q \in Int, NEW m \in Seqs, n = W * q + m
  PROVE  Norm(n) = m
<1>1. PICK p \in Int : n = W * p + Norm(n)
  BY NormDivides
<1>2. Norm(n) \in Seqs /\ m \in Seqs
  BY NormType
<1> DEFINE d == p - q
<1>3. W * d = W * p - W * q /\ d \in Int
  BY Sizes
<1>4. W * d = m - Norm(n)
  <2> DEFINE wp == W * p
             wq == W * q
  <2>1. wp \in Int /\ wq \in Int
    BY Sizes
  <2>2. W * d = wp - wq /\ n = wp + Norm(n) /\ n = wq + m
    BY <1>1, <1>3
  <2> HIDE DEF wp, wq, d
  <2> QED BY <2>1, <2>2, <1>2, Sizes DEF Seqs
<1>5. W * d < W /\ -W < W * d
  BY <1>2, <1>4, Sizes DEF Seqs
<1> HIDE DEF d
<1>6. d = 0
  BY <1>3, <1>5, MultipleSmall
<1>7. W * d = 0
  BY <1>6, Sizes
<1> QED BY <1>4, <1>7, <1>2 DEF Seqs

\* Moving a number of the sequence space, and comparing two of them.
LEMMA NormSum ==
  ASSUME NEW n \in Int, NEW m \in Int
  PROVE  Norm(Norm(n) + m) = Norm(n + m)
<1>1. PICK p \in Int : n = W * p + Norm(n)
  BY NormDivides
<1>2. PICK q \in Int : n + m = W * q + Norm(n + m)
  BY NormDivides
<1>3. Norm(n) \in Int /\ Norm(n + m) \in Seqs /\ Norm(n + m) \in Int
  BY NormType
<1> DEFINE d == q - p
<1>4. Norm(n) + m = W * d + Norm(n + m)
  <2> DEFINE wp == W * p
             wq == W * q
  <2>1. wp \in Int /\ wq \in Int /\ W * d = wq - wp
    BY Sizes
  <2>2. n = wp + Norm(n) /\ n + m = wq + Norm(n + m)
    BY <1>1, <1>2
  <2> HIDE DEF wp, wq, d
  <2> QED BY <2>1, <2>2, <1>3
<1> HIDE DEF d
<1>5. d \in Int
  BY DEF d
<1> QED BY <1>3, <1>4, <1>5, NormUnique

LEMMA NormDiff ==
  ASSUME NEW n \in Int, NEW m \in Int
  PROVE  Norm(Norm(n) - Norm(m)) = Norm(n - m)
<1>1. PICK q \in Int : m = W * q + Norm(m)
  BY NormDivides
<1>2. Norm(m) \in Int /\ Norm(n) \in Int
  BY NormType
<1>3. Norm(Norm(n) - Norm(m)) = Norm(n - Norm(m))
  <2>1. Norm(Norm(n) + (0 - Norm(m))) = Norm(n + (0 - Norm(m)))
    BY NormSum, <1>2
  <2>2. Norm(n) + (0 - Norm(m)) = Norm(n) - Norm(m) /\ n + (0 - Norm(m)) = n - Norm(m)
    BY <1>2
  <2> QED BY <2>1, <2>2
<1>4. PICK p \in Int : n - Norm(m) = W * p + Norm(n - Norm(m))
  BY NormDivides, <1>2
<1>5. Norm(n - Norm(m)) \in Seqs /\ Norm(n - Norm(m)) \in Int
  BY NormType, <1>2
<1> DEFINE d == p - q
<1>6. n - m = W * d + Norm(n - Norm(m))
  <2> DEFINE wp == W * p
             wq == W * q
             nm == Norm(m)
             r  == Norm(n - nm)
  <2>1. wp \in Int /\ wq \in Int /\ W * d = wp - wq
    BY Sizes
  <2>2. m = wq + nm /\ n - nm = wp + r /\ nm \in Int /\ r \in Int
    BY <1>1, <1>2, <1>4, <1>5
  <2> HIDE DEF wp, wq, d, nm, r
  <2>3. n - m = W * d + r
    BY <2>1, <2>2
  <2> QED BY <2>3 DEF nm, r
<1>7. d \in Int /\ n - m \in Int
  OBVIOUS
<1> HIDE DEF d
<1> QED BY <1>3, <1>5, <1>6, <1>7, NormUnique

\* A number just below the sequence space.
LEMMA NormNegative ==
  ASSUME NEW n \in Int, -W <= n, n < 0
  PROVE  Norm(n) = n + W
<1>1. n = W * (-1) + (n + W) /\ n + W \in Seqs
  BY Sizes DEF Seqs
<1> QED BY <1>1, NormUnique

\* Close numbers are told apart.
LEMMA NormEqual ==
  ASSUME NEW n \in Int, NEW m \in Int, n - m < W, m - n < W, Norm(n) = Norm(m)
  PROVE  n = m
<1>1. Norm(n - m) = 0
  <2>1. Norm(n) \in Int
    BY NormType
  <2>2. Norm(n) - Norm(m) = 0 /\ 0 \in Seqs
    BY <2>1, Sizes DEF Seqs
  <2> QED BY <2>2, NormDiff, NormSmall
<1>2. CASE n >= m
  BY <1>1, <1>2, NormSmall, Sizes DEF Seqs
<1>3. CASE n < m
  BY <1>1, <1>3, NormNegative, Sizes
<1> QED BY <1>2, <1>3

LEMMA MinOf ==
  ASSUME NEW a \in Int, NEW b \in Int
  PROVE  Min({a, b}) = IF a <= b THEN a ELSE b
BY DEF Min

LEMMA MaxOf ==
  ASSUME NEW a \in Int, NEW b \in Int
  PROVE  Max({a, b}) = IF a >= b THEN a ELSE b
BY DEF Max

-----------------------------------------------------------------------------
(* Sending.                                                                *)

\* The streams of a socket share its memory.
Fits(s) == Len(s.tx) + Len(s.rx) <= Pages

\* What one socket keeps of another: what it has to send, without and with the
\* index of the next byte, and what it has received.
KeepsSent(s, t) == t.iss = s.iss /\ t.una = s.una /\ t.tx = s.tx /\ t.probe = s.probe
KeepsSend(s, t) == KeepsSent(s, t) /\ t.nxt = s.nxt
KeepsReceive(s, t) == t.irs = s.irs /\ t.rcv = s.rcv /\ t.rx = s.rx /\ t.gotFin = s.gotFin

\* A result whose segments have their type, at most one of them.
Results == [s : Sockets, out : Seq(Segments)]

Headers == {Header, Syn, Fin, Rst}

\* The fields of a socket and of a segment, one by one.
SocketTyped(s) ==
  /\ s.st \in TcpStates /\ s.iss \in Seqs /\ s.una \in Seqs /\ s.nxt \in Seqs
  /\ s.tx \in Seq(Bytes) /\ s.wnd \in Nat /\ s.rtt \in Seqs /\ s.old \in BOOLEAN
  /\ s.retr \in 0 .. Retries /\ s.probe \in BOOLEAN /\ s.pause \in 0 .. CNTPAUSESEND
  /\ s.irs \in Seqs /\ s.rcv \in Seqs /\ s.rx \in Seq(Bytes) /\ s.need \in 0 .. 2
  /\ s.gotFin \in BOOLEAN /\ s.open \in BOOLEAN
  /\ Len(s.tx) \in Nat /\ Len(s.rx) \in Nat
  /\ s.una \in Nat /\ s.nxt \in Nat /\ s.rcv \in Nat /\ s.iss \in Nat /\ s.irs \in Nat

LEMMA SocketFields ==
  ASSUME NEW s \in Sockets
  PROVE  SocketTyped(s)
BY Sizes DEF Sockets, Seqs, SocketTyped

SegmentTyped(g) ==
  /\ g.syn \in BOOLEAN /\ g.fin \in BOOLEAN /\ g.rst \in BOOLEAN /\ g.ack \in BOOLEAN
  /\ g.seq \in Seqs /\ g.seq \in Nat /\ g.ackNbr \in Seqs /\ g.ackNbr \in Nat
  /\ g.wnd \in Nat /\ g.data \in Seq(Bytes) /\ Len(g.data) \in Nat

LEMMA SegmentFields ==
  ASSUME NEW g \in Segments
  PROVE  SegmentTyped(g)
BY Sizes DEF Segments, Seqs, SegmentTyped

LEMMA FreeSpace ==
  ASSUME NEW s \in Sockets, Fits(s)
  PROVE  Free(s) \in Nat /\ Len(s.tx) + Len(s.rx) + Free(s) = Pages
<1>1. SocketTyped(s)
  BY SocketFields
<1> DEFINE a == Len(s.tx)
           b == Len(s.rx)
<1>2. a \in Nat /\ b \in Nat /\ a + b <= Pages /\ Pages \in Nat
  BY <1>1, Sizes DEF Fits, SocketTyped
<1>3. Free(s) = Pages - a - b
  BY DEF Free
<1> HIDE DEF a, b
<1>4. Free(s) \in Nat /\ a + b + Free(s) = Pages
  BY <1>2, <1>3
<1> QED BY <1>4 DEF a, b

LEMMA WindowType ==
  ASSUME NEW s \in Sockets, Fits(s)
  PROVE  Window(s) \in 0 .. MSS
<1>1. Free(s) \in Nat
  BY FreeSpace
<1>2. Free(s) \div 4 \in Nat
  BY <1>1
<1> HIDE DEF Free
<1> QED BY <1>2, MinOf, Sizes DEF Window

LEMMA HeaderFields ==
  /\ \A h \in Headers : h.syn \in BOOLEAN /\ h.fin \in BOOLEAN /\ h.rst \in BOOLEAN
  /\ ~Header.syn /\ ~Header.fin /\ ~Header.rst
  /\ Syn.syn /\ ~Syn.fin /\ ~Syn.rst
  /\ ~Fin.syn /\ Fin.fin /\ ~Fin.rst
  /\ ~Rst.syn /\ ~Rst.fin /\ Rst.rst
<1>1. ~Header.syn /\ ~Header.fin /\ ~Header.rst
  BY DEF Header
<1>2. Syn.syn = TRUE /\ Syn.fin = FALSE /\ Syn.rst = FALSE
  BY DEF Header, Syn
<1>3. Fin.syn = FALSE /\ Fin.fin = TRUE /\ Fin.rst = FALSE
  BY DEF Header, Fin
<1>4. Rst.syn = FALSE /\ Rst.fin = FALSE /\ Rst.rst = TRUE
  BY DEF Header, Rst
<1>5. Header.syn = FALSE /\ Header.fin = FALSE /\ Header.rst = FALSE
  BY DEF Header
<1> QED BY <1>1, <1>2, <1>3, <1>4, <1>5 DEF Headers

IsSegment(g, s, h, fAck, data) ==
  /\ g \in Segments
  /\ g.syn = h.syn /\ g.fin = h.fin /\ g.rst = h.rst /\ g.ack = fAck
  /\ g.seq = Norm(s.iss + s.nxt) /\ g.ackNbr = Norm(s.irs + s.rcv) /\ g.data = data

LEMMA SegmentType ==
  ASSUME NEW s \in Sockets, Fits(s), NEW h \in Headers, NEW fAck \in BOOLEAN,
         NEW data \in Seq(Bytes)
  PROVE  IsSegment(Segment(s, h, fAck, data), s, h, fAck, data)
<1>1. h.syn \in BOOLEAN /\ h.fin \in BOOLEAN /\ h.rst \in BOOLEAN
  BY HeaderFields
<1>2. Norm(s.iss + s.nxt) \in Seqs /\ Norm(s.irs + s.rcv) \in Seqs
  <2>1. s.iss \in Nat /\ s.nxt \in Nat /\ s.irs \in Nat /\ s.rcv \in Nat
    BY SocketFields DEF SocketTyped
  <2>2. s.iss + s.nxt \in Int /\ s.irs + s.rcv \in Int
    BY <2>1
  <2> QED BY <2>2, NormType
<1>3. Window(s) \in 0 .. MSS
  BY WindowType
<1> HIDE DEF Norm, Window, Headers
<1> QED BY <1>1, <1>2, <1>3 DEF IsSegment, Segment, Segments

\* What is sent, and what the socket is after it.
Sends(s, r, h, cb, fAck, data, ok) ==
  /\ r \in Results
  /\ r.s.st = s.st /\ KeepsSent(s, r.s) /\ KeepsReceive(s, r.s)
  /\ r.s.nxt = IF ok THEN Norm(s.nxt + cb) ELSE s.nxt
  /\ r.out = IF ok THEN <<Segment(s, h, fAck, data)>> ELSE <<>>

LEMMA Transmits ==
  ASSUME NEW s \in Sockets, Fits(s), NEW h \in Headers, NEW cb \in Nat, NEW fAck \in BOOLEAN,
         NEW data \in Seq(Bytes), NEW ok \in BOOLEAN
  PROVE  Sends(s, TCPTransmit(s, h, cb, fAck, data, ok), h, cb, fAck, data, ok)
<1> DEFINE r    == TCPTransmit(s, h, cb, fAck, data, ok)
           nxt  == Norm(s.nxt + cb)
           wnd  == Max({s.wnd - cb, 0})
           need == IF fAck THEN 0 ELSE s.need
           pause == IF cb > 0 /\ s.pause > 0 THEN s.pause - 1 ELSE s.pause
           old  == s.old /\ ~Restarts(s)
           rtt  == IF Restarts(s) THEN nxt ELSE s.rtt
           t    == [s EXCEPT !.need = need, !.pause = pause, !.old = old, !.rtt = rtt,
                             !.nxt = nxt, !.wnd = wnd]
           g    == Segment(s, h, fAck, data)
<1>0. SocketTyped(s)
  BY SocketFields
<1>1. CASE ok = FALSE
  <2>1. r = [s |-> s, out |-> <<>>]
    BY <1>1 DEF TCPTransmit, Result
  <2>2. <<>> \in Seq(Segments)
    OBVIOUS
  <2> HIDE DEF r
  <2>3. r \in Results /\ r.s = s /\ r.out = <<>>
    BY <2>1, <2>2 DEF Results
  <2> QED BY <1>1, <2>3 DEF Sends, KeepsSent, KeepsReceive, r
<1>2. nxt \in Seqs /\ wnd \in Nat
  <2>1. s.nxt + cb \in Int /\ s.wnd - cb \in Int
    BY <1>0 DEF SocketTyped
  <2>2. wnd = IF s.wnd - cb >= 0 THEN s.wnd - cb ELSE 0
    BY <2>1, MaxOf
  <2>3. wnd \in Nat
    BY <2>1, <2>2
  <2> QED BY <2>1, <2>3, NormType
<1>3. need \in 0 .. 2 /\ pause \in 0 .. CNTPAUSESEND /\ old \in BOOLEAN
  BY <1>0 DEF CNTPAUSESEND, SocketTyped
<1>4. rtt \in Seqs
  BY <1>2, <1>0 DEF SocketTyped
<1>5. g \in Segments
  BY SegmentType DEF IsSegment
<1> HIDE DEF nxt, wnd, need, pause, old, rtt, g, r
<1>6. t \in Sockets
  BY <1>2, <1>3, <1>4 DEF Sockets
<1>7. t.st = s.st /\ KeepsSent(s, t) /\ KeepsReceive(s, t) /\ t.nxt = nxt
  BY DEF Sockets, KeepsSent, KeepsReceive
<1>8. CASE ok = TRUE
  <2>1. r = [s |-> t, out |-> <<g>>]
    BY <1>8 DEF TCPTransmit, Result, r, t, g, nxt, wnd, need, pause, old, rtt
  <2> HIDE DEF t
  <2>2. <<g>> \in Seq(Segments)
    BY <1>5
  <2>3. r \in Results /\ r.s = t /\ r.out = <<g>>
    BY <2>1, <2>2, <1>6 DEF Results
  <2> QED BY <1>7, <1>8, <2>3 DEF Sends, nxt, r, g
<1> QED BY <1>1, <1>8

-----------------------------------------------------------------------------
(* Pieces of a stream.                                                     *)

\* y is the b elements of x behind its a-th one, none if b is negative.
Piece(S, y, x, a, b) ==
  /\ y \in Seq(S) /\ Len(y) = IF b > 0 THEN b ELSE 0
  /\ \A n \in 1 .. Len(y) : y[n] = x[a + n]

LEMMA Pieces ==
  ASSUME NEW S, NEW x \in Seq(S), NEW a \in Nat, NEW b \in Int, b > 0 => a + b <= Len(x)
  PROVE  Piece(S, SubSeq(x, a + 1, a + b), x, a, b)
<1> DEFINE y == SubSeq(x, a + 1, a + b)
<1>1. y = [n \in 1 .. b |-> x[n + a]]
  <2>1. y = [n \in 1 .. (a + b) - (a + 1) + 1 |-> x[n + (a + 1) - 1]]
    OBVIOUS
  <2>2. (a + b) - (a + 1) + 1 = b /\ \A n \in 1 .. b : n + (a + 1) - 1 = n + a
    OBVIOUS
  <2> QED BY <2>1, <2>2
<1>2. CASE b > 0
  <2>1. \A n \in 1 .. b : x[n + a] \in S
    BY <1>2
  <2>2. y \in Seq(S) /\ Len(y) = b
    BY <1>1, <1>2, <2>1
  <2> QED BY <1>1, <1>2, <2>2 DEF Piece
<1>3. CASE b <= 0
  <2>1. 1 .. b = {}
    BY <1>3
  <2>2. y = <<>>
    BY <1>1, <2>1
  <2> QED BY <1>3, <2>2 DEF Piece
<1> QED BY <1>2, <1>3

\* The free memory of a socket takes cb bytes more.
LEMMA Appended ==
  ASSUME NEW x \in Seq(Bytes), NEW y \in Seq(Bytes)
  PROVE  x \o y \in Seq(Bytes) /\ Len(x \o y) = Len(x) + Len(y)
OBVIOUS

-----------------------------------------------------------------------------
(* The operators that change a socket.                                     *)

LEMMA FreshType ==
  /\ Fresh \in Sockets /\ Fresh.st = "Unassigned" /\ Fresh.iss = 0 /\ Fresh.una = 0
  /\ Fresh.nxt = 0 /\ Fresh.tx = <<>> /\ Fresh.probe = FALSE /\ Fresh.irs = 0
  /\ Fresh.rcv = 0 /\ Fresh.rx = <<>> /\ Fresh.gotFin = FALSE
<1>1. 0 \in Seqs /\ 0 \in 0 .. Retries /\ 0 \in 0 .. CNTPAUSESEND /\ "Unassigned" \in TcpStates
  BY Sizes DEF Seqs, CNTPAUSESEND, TcpStates
<1>2. <<>> \in Seq(Bytes)
  OBVIOUS
<1>3. Fresh \in Sockets
  BY <1>1, <1>2 DEF Fresh, Sockets
<1> QED BY <1>3 DEF Fresh

\* What TCPResetSocket leaves: nothing, or a socket that listens again.
IsReset(s, t) ==
  /\ t \in Sockets /\ t.una = 0 /\ t.nxt = 0 /\ t.tx = <<>> /\ t.rcv = 0 /\ ~t.gotFin
  /\ IF s.st = "SynReceivedWhileListening"
     THEN t.st = "Listen" /\ t.iss = s.iss /\ t.rx = s.rx /\ t.probe = s.probe
     ELSE t.st = "Unassigned" /\ t.rx = <<>>

LEMMA Resets ==
  ASSUME NEW s \in Sockets
  PROVE  IsReset(s, TCPResetSocket(s))
<1>0. SocketTyped(s)
  BY SocketFields
<1> DEFINE t == TCPResetSocket(s)
<1>1. CASE s.st = "SynReceivedWhileListening"
  <2>1. t = [Fresh EXCEPT !.st = "Listen", !.iss = s.iss, !.rx = s.rx,
                          !.pause = s.pause, !.retr = s.retr, !.probe = s.probe,
                          !.old = s.old, !.need = s.need]
    BY <1>1 DEF TCPResetSocket
  <2>2. "Listen" \in TcpStates
    BY DEF TcpStates
  <2> HIDE DEF t
  <2>3. t \in Sockets
    BY <1>0, <2>1, <2>2, FreshType DEF Sockets, SocketTyped
  <2>4. /\ t.una = 0 /\ t.nxt = 0 /\ t.tx = <<>> /\ t.rcv = 0 /\ ~t.gotFin
        /\ t.st = "Listen" /\ t.iss = s.iss /\ t.rx = s.rx /\ t.probe = s.probe
    BY <2>1, FreshType DEF Sockets
  <2> QED BY <1>1, <2>3, <2>4 DEF IsReset, t
<1>2. CASE s.st # "SynReceivedWhileListening"
  BY <1>2, FreshType DEF TCPResetSocket, IsReset
<1> QED BY <1>1, <1>2

\* What an acknowledgement moves: an old or a wrong one nothing.
Takes(s, g) == LET a == AckNbrOf(s, g)
               IN  g.ack /\ s.una <= a /\ (a <= s.nxt \/ a <= Len(s.tx))
IsAcked(s, g, t) ==
  /\ t \in Sockets /\ t.st = s.st /\ t.iss = s.iss /\ t.tx = s.tx /\ KeepsReceive(s, t)
  /\ IF Takes(s, g)
     THEN /\ t.una = AckNbrOf(s, g) /\ (t.probe => s.probe)
          /\ t.nxt = IF AckNbrOf(s, g) > s.nxt \/ s.probe THEN AckNbrOf(s, g) ELSE s.nxt
     ELSE t.una = s.una /\ t.nxt = s.nxt /\ t.probe = s.probe

LEMMA Acks ==
  ASSUME NEW s \in Sockets, NEW g \in Segments
  PROVE  IsAcked(s, g, TCPProcessACK(s, g)) /\ AckNbrOf(s, g) \in Seqs /\ AckNbrOf(s, g) \in Nat
<1>0. SocketTyped(s) /\ SegmentTyped(g)
  BY SocketFields, SegmentFields
<1> DEFINE t     == TCPProcessACK(s, g)
           a     == AckNbrOf(s, g)
           timed == IF a >= s.rtt THEN [s EXCEPT !.retr = 0, !.rtt = a] ELSE s
           taken == s.una <= a /\ (a <= s.nxt \/ a <= Len(s.tx))
           back  == a > s.nxt \/ s.probe
           nxt   == IF back THEN a ELSE s.nxt
           wnd   == Max({a + g.wnd - nxt, 0})
           pause == IF back \/ a # s.una THEN CNTPAUSESEND ELSE timed.pause
           probe == timed.probe /\ wnd = 0
           u     == [timed EXCEPT !.una = a, !.nxt = nxt, !.wnd = wnd, !.pause = pause,
                                  !.probe = probe]
<1>1. a \in Seqs /\ a \in Nat
  <2>1. g.ackNbr - s.iss \in Int
    BY <1>0 DEF SocketTyped, SegmentTyped
  <2> QED BY <2>1, NormType DEF AckNbrOf
<1>2. t = IF ~g.ack THEN s ELSE IF ~taken THEN timed ELSE u
  BY DEF TCPProcessACK
<1>3. Takes(s, g) <=> g.ack /\ taken
  BY DEF Takes
<1> HIDE DEF a, taken, t
<1>4. timed \in Sockets /\ timed.st = s.st /\ timed.iss = s.iss /\ timed.tx = s.tx
      /\ KeepsReceive(s, timed) /\ timed.una = s.una /\ timed.nxt = s.nxt
      /\ timed.probe = s.probe
  <2>1. 0 \in 0 .. Retries
    BY Sizes
  <2>2. CASE a >= s.rtt
    BY <1>1, <2>1, <2>2 DEF Sockets, KeepsReceive
  <2>3. CASE ~(a >= s.rtt)
    BY <2>3 DEF KeepsReceive
  <2> QED BY <2>2, <2>3
<1> HIDE DEF timed
<1>5. nxt \in Seqs /\ nxt \in Nat
  BY <1>0, <1>1 DEF SocketTyped
<1>6. wnd \in Nat
  <2>1. a + g.wnd - nxt \in Int
    BY <1>0, <1>1, <1>5 DEF SegmentTyped
  <2>2. wnd = IF a + g.wnd - nxt >= 0 THEN a + g.wnd - nxt ELSE 0
    BY <2>1, MaxOf
  <2> QED BY <2>1, <2>2
<1>7. pause \in 0 .. CNTPAUSESEND /\ probe \in BOOLEAN /\ (probe => s.probe)
  <2>1. SocketTyped(timed)
    BY <1>4, SocketFields
  <2>2. timed.pause \in 0 .. CNTPAUSESEND
    BY <2>1 DEF SocketTyped
  <2> QED BY <1>4, <2>2 DEF CNTPAUSESEND
<1>8. nxt = IF a > s.nxt \/ s.probe THEN a ELSE s.nxt
  OBVIOUS
<1> HIDE DEF nxt, wnd, pause, probe
<1>9. u \in Sockets
  BY <1>1, <1>4, <1>5, <1>6, <1>7 DEF Sockets
<1>10. /\ u.st = s.st /\ u.iss = s.iss /\ u.tx = s.tx /\ KeepsReceive(s, u)
       /\ u.una = a /\ u.nxt = nxt /\ (u.probe => s.probe)
  BY <1>4, <1>7 DEF Sockets, KeepsReceive
<1> HIDE DEF u
<1>11. CASE Takes(s, g)
  <2>1. t = u
    BY <1>2, <1>3, <1>11
  <2> QED BY <1>1, <1>8, <1>9, <1>10, <1>11, <2>1 DEF IsAcked, a, t
<1>12. CASE ~Takes(s, g)
  <2>1. t = s \/ t = timed
    BY <1>2, <1>3, <1>12
  <2> QED BY <1>1, <1>4, <1>12, <2>1 DEF IsAcked, a, t, KeepsReceive
<1> QED BY <1>11, <1>12

\* What a segment adds to the receive stream: its bytes behind the skip-th, as
\* many as there is memory for.
Skip(s, g) == Norm(s.rcv - SeqNbrOf(s, g))
IsLoaded(s, g, t) ==
  /\ t \in Sockets /\ Fits(t) /\ t.st = s.st /\ KeepsSend(s, t) /\ t.irs = s.irs
  /\ t.gotFin = s.gotFin
  /\ \/ t.rx = s.rx /\ t.rcv = s.rcv
     \/ \E cb \in Int, y \in Seq(Bytes) :
          /\ Len(g.data) > 0 /\ s.st \notin {"LastAck", "WaitUserClose", "Closed"}
          /\ Skip(s, g) <= Len(g.data) => cb >= 0
          /\ cb <= Len(g.data) - Skip(s, g) /\ Len(s.tx) + Len(s.rx) + cb <= Pages
          /\ Piece(Bytes, y, g.data, Skip(s, g), cb)
          /\ t.rx = s.rx \o y /\ t.rcv = Norm(s.rcv + cb)

LEMMA Loads ==
  ASSUME NEW s \in Sockets, Fits(s), NEW g \in Segments
  PROVE  IsLoaded(s, g, TCPAddRxDataToSocket(s, g)) /\ Skip(s, g) \in Seqs
<1>0. SocketTyped(s) /\ SegmentTyped(g)
  BY SocketFields, SegmentFields
<1> DEFINE t    == TCPAddRxDataToSocket(s, g)
           skip == Skip(s, g)
           d    == Len(g.data) - skip
           cb   == Min({d, Free(s)})
           y    == SubSeq(g.data, skip + 1, skip + cb)
           rx   == s.rx \o y
           need == Min({s.need + 1, 2})
           rcv  == Norm(s.rcv + cb)
           u    == [s EXCEPT !.need = need, !.rx = rx, !.rcv = rcv]
           none == Len(g.data) = 0 \/ s.st \in {"LastAck", "WaitUserClose", "Closed"}
<1>1. t = IF none THEN s ELSE u
  BY DEF TCPAddRxDataToSocket, Skip
<1>2. skip \in Seqs /\ skip \in Nat
  <2>1. g.seq - s.irs \in Int
    BY <1>0 DEF SocketTyped, SegmentTyped
  <2>2. SeqNbrOf(s, g) \in Nat
    BY <2>1, NormType DEF SeqNbrOf
  <2>3. s.rcv - SeqNbrOf(s, g) \in Int
    BY <1>0, <2>2 DEF SocketTyped
  <2> QED BY <2>3, NormType DEF Skip
<1> HIDE DEF skip, none
<1>3. CASE none
  BY <1>1, <1>2, <1>3 DEF IsLoaded, KeepsSend, KeepsSent, skip
<1>4. CASE ~none
  <2>1. d \in Int /\ Free(s) \in Nat /\ Len(s.tx) + Len(s.rx) + Free(s) = Pages
    <3>1. Len(g.data) \in Nat
      BY <1>0 DEF SegmentTyped
    <3>2. Free(s) \in Nat /\ Len(s.tx) + Len(s.rx) + Free(s) = Pages
      BY FreeSpace
    <3>3. d \in Int
      BY <1>2, <3>1
    <3> HIDE DEF d
    <3> QED BY <3>2, <3>3, Zenon
  <2> HIDE DEF d
  <2>2. cb \in Int /\ cb <= d /\ cb <= Free(s)
    BY <2>1, MinOf
  <2> HIDE DEF cb
  <2>3. Piece(Bytes, y, g.data, skip, cb)
    <3>1. g.data \in Seq(Bytes) /\ Len(g.data) \in Nat
      BY <1>0 DEF SegmentTyped
    <3>2. cb > 0 => skip + cb <= Len(g.data)
      BY <1>2, <2>2, <3>1 DEF d
    <3> QED BY <1>2, <2>2, <3>1, <3>2, Pieces
  <2> HIDE DEF y
  <2>4. y \in Seq(Bytes) /\ Len(y) = IF cb > 0 THEN cb ELSE 0
    BY <2>3 DEF Piece
  <2>5. rx \in Seq(Bytes) /\ Len(rx) = Len(s.rx) + Len(y)
    BY <1>0, <2>4, Appended DEF SocketTyped
  <2> HIDE DEF rx
  <2>6. need \in 0 .. 2
    <3>1. s.need + 1 \in Int /\ s.need + 1 >= 0
      BY <1>0 DEF SocketTyped
    <3> QED BY <3>1, MinOf
  <2>7. rcv \in Seqs
    <3>1. s.rcv + cb \in Int
      BY <1>0, <2>2 DEF SocketTyped
    <3> QED BY <3>1, NormType
  <2> HIDE DEF need, rcv
  <2>8. u \in Sockets
    BY <2>5, <2>6, <2>7 DEF Sockets
  <2>9. /\ u.st = s.st /\ KeepsSend(s, u) /\ u.irs = s.irs /\ u.gotFin = s.gotFin
        /\ u.rx = rx /\ u.rcv = rcv /\ u.tx = s.tx
    BY DEF Sockets, KeepsSend, KeepsSent
  <2> HIDE DEF u
  <2> DEFINE a == Len(s.tx)
             b == Len(s.rx)
             c == Len(rx)
             l == Len(y)
  <2>10. a \in Nat /\ b \in Nat /\ a + b + Free(s) = Pages /\ c = b + l
         /\ l = IF cb > 0 THEN cb ELSE 0
    BY <1>0, <2>1, <2>4, <2>5 DEF SocketTyped
  <2>11. Fits(u) <=> a + c <= Pages
    BY <2>9 DEF Fits
  <2> HIDE DEF a, b, c, l
  <2>12. Fits(u) /\ a + b + cb <= Pages
    BY <2>1, <2>2, <2>10, <2>11, Sizes
  <2>13. Len(s.tx) + Len(s.rx) + cb <= Pages
    BY <2>12 DEF a, b
  <2>14. cb <= Len(g.data) - Skip(s, g)
    BY <2>2 DEF d, skip
  <2>15. Len(g.data) > 0 /\ s.st \notin {"LastAck", "WaitUserClose", "Closed"}
    BY <1>0, <1>4 DEF none, SegmentTyped
  <2>16. u.rx = s.rx \o y /\ u.rcv = Norm(s.rcv + cb)
    BY <2>9 DEF rx, rcv
  <2>17. Piece(Bytes, y, g.data, Skip(s, g), cb)
    BY <2>3 DEF skip
  <2>18. Skip(s, g) <= Len(g.data) => cb >= 0
    <3>1. Skip(s, g) <= Len(g.data) => d >= 0
      BY <1>0, <1>2 DEF d, skip, SegmentTyped
    <3>2. d >= 0 => cb >= 0
      BY <2>1, MinOf DEF cb
    <3> QED BY <3>1, <3>2
  <2>19. IsLoaded(s, g, u)
    BY <2>2, <2>4, <2>8, <2>9, <2>12, <2>13, <2>14, <2>15, <2>16, <2>17, <2>18 DEF IsLoaded
  <2> QED BY <1>1, <1>2, <1>4, <2>19 DEF skip
<1> QED BY <1>3, <1>4

\* The SYN of the peer gives its initial number.
IsSynced(s, g, t) ==
  /\ t \in Sockets /\ t.st = s.st /\ KeepsSend(s, t)
  /\ t.rcv = s.rcv /\ t.rx = s.rx /\ t.gotFin = s.gotFin
  /\ t.irs = IF g.syn THEN Norm(g.seq + 1) ELSE s.irs

LEMMA Syncs ==
  ASSUME NEW s \in Sockets, NEW g \in Segments
  PROVE  IsSynced(s, g, TCPProcessSYN(s, g))
<1>0. SegmentTyped(g)
  BY SegmentFields
<1> DEFINE n == Norm(g.seq + 1)
<1>1. n \in Seqs
  <2>1. g.seq + 1 \in Int
    BY <1>0 DEF SegmentTyped
  <2> QED BY <2>1, NormType
<1> HIDE DEF n
<1>2. CASE g.syn
  <2> DEFINE t == [s EXCEPT !.irs = n]
  <2>1. t \in Sockets /\ t.irs = n /\ t.st = s.st /\ KeepsSend(s, t)
        /\ t.rcv = s.rcv /\ t.rx = s.rx /\ t.gotFin = s.gotFin
    BY <1>1 DEF Sockets, KeepsSend, KeepsSent
  <2>2. TCPProcessSYN(s, g) = t
    BY <1>2 DEF TCPProcessSYN, n
  <2> HIDE DEF t
  <2> QED BY <1>2, <2>1, <2>2 DEF IsSynced, n
<1>3. CASE ~g.syn
  BY <1>3 DEF TCPProcessSYN, IsSynced, KeepsSend, KeepsSent
<1> QED BY <1>2, <1>3

\* A reset that answers segment g.
IsRstTo(g, out) ==
  \E h \in Segments :
     /\ out = <<h>> /\ h.rst /\ ~h.syn /\ ~h.fin /\ h.data = <<>> /\ h.ack = ~g.ack
     /\ ~g.ack => h.ackNbr = Norm(g.seq + Len(g.data) + (IF g.syn THEN 1 ELSE 0))

LEMMA ResetsTo ==
  ASSUME NEW g \in Segments
  PROVE  IsRstTo(g, RstTo(g)) /\ RstTo(g) \in Seq(Segments)
<1>0. SegmentTyped(g)
  BY SegmentFields
<1> DEFINE n     == Norm(g.seq + Len(g.data) + (IF g.syn THEN 1 ELSE 0))
           iss   == IF g.ack THEN g.ackNbr ELSE 0
           irs   == IF g.ack THEN 0 ELSE n
           dummy == [Fresh EXCEPT !.iss = iss, !.irs = irs]
           na    == ~g.ack
           f     == Segment(dummy, Rst, na, <<>>)
           h     == [f EXCEPT !.wnd = 0]
<1>1. n \in Seqs
  <2>1. g.seq + Len(g.data) + (IF g.syn THEN 1 ELSE 0) \in Int
    BY <1>0 DEF SegmentTyped
  <2> QED BY <2>1, NormType
<1>2. iss \in Seqs /\ irs \in Seqs
  BY <1>0, <1>1, Sizes DEF SegmentTyped, Seqs
<1>3. RstTo(g) = <<h>>
  BY DEF RstTo
<1> HIDE DEF na
<1>4. irs = IF g.ack THEN 0 ELSE n
  OBVIOUS
<1> HIDE DEF n, iss, irs
<1>5. /\ dummy \in Sockets /\ dummy.irs = irs /\ dummy.rcv = 0 /\ dummy.tx = <<>>
      /\ dummy.rx = <<>>
  BY <1>2, FreshType DEF Sockets
<1> HIDE DEF dummy
<1>6. Fits(dummy)
  BY <1>5, Sizes DEF Fits
<1>7. /\ f \in Segments /\ f.syn = FALSE /\ f.fin = FALSE /\ f.rst = TRUE /\ f.ack = na
      /\ f.ackNbr = Norm(dummy.irs + dummy.rcv) /\ f.data = <<>>
  <2>1. Rst \in Headers
    BY Zenon DEF Headers
  <2>2. na \in BOOLEAN /\ <<>> \in Seq(Bytes)
    BY DEF na
  <2>3. Rst.syn = FALSE /\ Rst.fin = FALSE /\ Rst.rst = TRUE
    BY DEF Rst, Header
  <2>4. IsSegment(f, dummy, Rst, na, <<>>)
    BY <1>5, <1>6, <2>1, <2>2, SegmentType, Zenon DEF f
  <2> QED BY <2>3, <2>4 DEF IsSegment
<1> HIDE DEF f
<1>8. /\ h \in Segments /\ h.syn = FALSE /\ h.fin = FALSE /\ h.rst = TRUE /\ h.ack = na
      /\ h.ackNbr = f.ackNbr /\ h.data = <<>>
  <2>1. 0 \in 0 .. MSS
    BY Sizes
  <2>2. h \in Segments
    BY <1>7, <2>1 DEF Segments
  <2>3. /\ h.syn = f.syn /\ h.fin = f.fin /\ h.rst = f.rst /\ h.ack = f.ack
        /\ h.ackNbr = f.ackNbr /\ h.data = f.data
    BY <1>7 DEF Segments
  <2> QED BY <1>7, <2>2, <2>3
<1>9. ~g.ack => h.ackNbr = n
  <2> HAVE ~g.ack
  <2>1. irs + 0 = n
    BY <1>1, <1>4, Sizes DEF Seqs
  <2> QED BY <1>1, <1>5, <1>7, <1>8, <2>1, NormSmall
<1> HIDE DEF h
<1>10. <<h>> \in Seq(Segments)
  BY <1>8
<1> QED BY <1>3, <1>8, <1>9, <1>10 DEF IsRstTo, n, na

-----------------------------------------------------------------------------
(* The operators that send.                                                *)

\* The send indexes count from the first byte that is not acknowledged.
IsScaled(s, t) ==
  /\ t \in Sockets /\ t.st = s.st /\ t.probe = s.probe /\ KeepsReceive(s, t)
  /\ t.iss = Norm(s.iss + s.una) /\ t.una = 0 /\ t.nxt = Norm(s.nxt - s.una)
  /\ Piece(Bytes, t.tx, s.tx, s.una, Len(s.tx) - s.una)

LEMMA Scales ==
  ASSUME NEW s \in Sockets
  PROVE  IsScaled(s, TCPScaleSndIndexes(s))
<1>0. SocketTyped(s)
  BY SocketFields
<1> DEFINE iss == Norm(s.iss + s.una)
           nxt == Norm(s.nxt - s.una)
           rtt == Norm(s.rtt - s.una)
           tx  == SubSeq(s.tx, s.una + 1, Len(s.tx))
           t   == [s EXCEPT !.iss = iss, !.nxt = nxt, !.rtt = rtt, !.una = 0, !.tx = tx]
<1>1. TCPScaleSndIndexes(s) = t
  BY DEF TCPScaleSndIndexes
<1>2. iss \in Seqs /\ nxt \in Seqs /\ rtt \in Seqs
  <2>0. s.iss \in Int /\ s.una \in Int /\ s.nxt \in Int /\ s.rtt \in Int
    BY <1>0 DEF SocketTyped, Seqs
  <2>1. s.iss + s.una \in Int /\ s.nxt - s.una \in Int /\ s.rtt - s.una \in Int
    BY <2>0
  <2> QED BY <2>1, NormType
<1>3. Piece(Bytes, tx, s.tx, s.una, Len(s.tx) - s.una)
  <2> DEFINE l == Len(s.tx)
             b == l - s.una
  <2>1. l \in Nat /\ s.una \in Nat /\ s.tx \in Seq(Bytes)
    BY <1>0 DEF SocketTyped
  <2>2. b \in Int /\ s.una + b = l
    BY <2>1
  <2>3. tx = SubSeq(s.tx, s.una + 1, s.una + b)
    BY <2>2
  <2> HIDE DEF b, tx
  <2>4. b > 0 => s.una + b <= Len(s.tx)
    BY <2>2
  <2> QED BY <2>1, <2>2, <2>3, <2>4, Pieces DEF b
<1>4. tx \in Seq(Bytes)
  BY <1>3 DEF Piece
<1> HIDE DEF iss, nxt, rtt, tx
<1>5. 0 \in Seqs
  BY Sizes DEF Seqs
<1>6. t \in Sockets
  BY <1>2, <1>4, <1>5 DEF Sockets
<1>7. /\ t.st = s.st /\ t.probe = s.probe /\ KeepsReceive(s, t)
      /\ t.iss = iss /\ t.una = 0 /\ t.nxt = nxt /\ t.tx = tx
  BY DEF Sockets, KeepsReceive
<1> HIDE DEF t
<1> QED BY <1>1, <1>3, <1>6, <1>7 DEF IsScaled, iss, nxt

\* Nothing is unsent before something unacknowledged.
Ordered(s) == s.una <= s.nxt \/ s.tx = <<>>

Timers == [rto : BOOLEAN, flush : BOOLEAN]

\* What a pass sends of a stream: nothing, an acknowledgement, or data from
\* the next byte on, the indexes scaled.
IsQuiet(s, r) ==
  /\ KeepsSend(s, r.s)
  /\ r.out = <<>> \/ r.out = <<Segment(s, Header, TRUE, <<>>)>>
IsDataSent(s, r, cb, g, ok) ==
  /\ cb > 0 /\ s.una <= s.nxt /\ s.nxt + cb <= Len(s.tx)
  /\ r.s.iss = Norm(s.iss + s.una) /\ r.s.una = 0
  /\ r.s.nxt = s.nxt - s.una + (IF ok THEN cb ELSE 0)
  /\ Piece(Bytes, r.s.tx, s.tx, s.una, Len(s.tx) - s.una)
  /\ r.out = IF ok THEN <<g>> ELSE <<>>
  /\ ~g.syn /\ ~g.fin /\ ~g.rst /\ g.ack
  /\ g.seq = Norm(s.iss + s.nxt) /\ g.ackNbr = Norm(s.irs + s.rcv)
  /\ Piece(Bytes, g.data, s.tx, s.nxt, cb)
SendsData(s, r, ok) == \E cb \in Nat, g \in Segments : IsDataSent(s, r, cb, g, ok)
IsProcessedTx(s, r, ok) ==
  /\ r \in Results /\ r.s.st = s.st /\ KeepsReceive(s, r.s)
  /\ IsQuiet(s, r) \/ SendsData(s, r, ok)

LEMMA ProcessesTx ==
  ASSUME NEW s \in Sockets, Fits(s), Ordered(s), NEW clk \in Timers, NEW ok \in BOOLEAN
  PROVE  IsProcessedTx(s, TCPProcessTxSocketBuffers(s, clk, ok), ok)
<1>0. SocketTyped(s) /\ clk.flush \in BOOLEAN
  BY SocketFields DEF Timers
<1> DEFINE l     == Len(s.tx)
           d     == l - s.nxt
           lft   == Min({d, MSS})
           probe == s.wnd = 0 /\ clk.flush /\ lft > 0
           cb    == IF probe THEN 1
                    ELSE IF s.pause = 0 \/ lft < 0 THEN 0 ELSE Min({lft, s.wnd})
           due   == s.need > 1 \/ (s.need > 0 /\ clk.flush)
           q     == [s EXCEPT !.probe = s.probe \/ probe]
           p     == TCPScaleSndIndexes(q)
           data  == SubSeq(p.tx, p.nxt + 1, p.nxt + cb)
           r     == TCPProcessTxSocketBuffers(s, clk, ok)
           sent  == TCPTransmit(p, Header, cb, TRUE, data, ok)
           acked == TCPTransmit(s, Header, 0, TRUE, <<>>, ok)
<1>1. r = CASE cb > 0 -> sent
            [] cb = 0 /\ due -> acked
            [] OTHER -> Result(s, <<>>)
  BY DEF TCPProcessTxSocketBuffers
<1>2. l \in Nat /\ d \in Int /\ s.wnd \in Nat /\ s.nxt \in Nat /\ s.una \in Nat
      /\ s.tx \in Seq(Bytes)
  BY <1>0 DEF SocketTyped
<1>3. cb \in Nat /\ (cb > 0 => cb <= d)
  <2>1. lft \in Int /\ lft <= d
    BY <1>2, MinOf, Sizes
  <2> HIDE DEF lft, d, l
  <2>2. Min({lft, s.wnd}) = IF lft <= s.wnd THEN lft ELSE s.wnd
    BY <1>2, <2>1, MinOf
  <2> DEFINE m == Min({lft, s.wnd})
  <2>3. CASE probe
    <3>1. cb = 1 /\ lft >= 1
      BY <2>1, <2>3
    <3> HIDE DEF cb
    <3> QED BY <1>2, <2>1, <3>1
  <2>4. CASE ~probe
    <3>1. cb = IF s.pause = 0 \/ lft < 0 THEN 0 ELSE m
      BY <2>4
    <3> HIDE DEF cb, m, probe
    <3>2. m = IF lft <= s.wnd THEN lft ELSE s.wnd
      BY <2>2 DEF m
    <3> QED BY <1>2, <2>1, <3>1, <3>2
  <2> QED BY <2>3, <2>4
<1>4. q \in Sockets /\ q.st = s.st /\ KeepsReceive(s, q) /\ q.iss = s.iss /\ q.una = s.una
      /\ q.nxt = s.nxt /\ q.tx = s.tx
  <2>1. (s.probe \/ probe) \in BOOLEAN
    OBVIOUS
  <2> HIDE DEF probe
  <2> QED BY <2>1 DEF Sockets, KeepsReceive
<1> HIDE DEF cb, q
<1>5. IsScaled(q, p)
  BY <1>4, Scales
<1> HIDE DEF p
<1> HIDE DEF due, r, sent, acked
<1>6. Header \in Headers
  BY Zenon DEF Headers
<1>7. <<>> \in Seq(Segments) /\ <<>> \in Seq(Bytes)
  OBVIOUS
<1>8. CASE cb > 0
  <2>1. s.una <= s.nxt /\ s.nxt + cb <= l /\ l <= Pages
    <3>1. s.nxt + cb <= l
      BY <1>2, <1>3, <1>8
    <3>2. s.tx # <<>>
      <4>1. l > 0
        BY <1>2, <1>3, <1>8, <3>1
      <4> QED BY <4>1
    <3>3. l <= Pages
      <4> DEFINE b == Len(s.rx)
      <4>1. b \in Nat /\ l + b <= Pages
        BY <1>0 DEF SocketTyped, Fits
      <4> HIDE DEF b, l
      <4> QED BY <1>2, <4>1, Sizes
    <3> QED BY <3>1, <3>2, <3>3 DEF Ordered
  <2> DEFINE k == s.nxt - s.una
             m == l - s.una
  <2>2. k \in Nat /\ k + cb <= m /\ m \in Nat /\ s.una + k = s.nxt
    <3> DEFINE n == s.nxt
               u == s.una
    <3>1. /\ k = n - u /\ m = l - u /\ u <= n /\ n + cb <= l
          /\ n \in Nat /\ u \in Nat /\ l \in Nat /\ cb \in Nat
      BY <1>2, <1>3, <2>1
    <3> HIDE DEF k, m, l, n, u
    <3>2. k \in Nat /\ k + cb <= m /\ m \in Nat /\ u + k = n
      BY <3>1
    <3> QED BY <3>2 DEF n, u
  <2>3. p.nxt = k
    <3>1. k \in Seqs
      <4> DEFINE n == s.nxt
      <4> DEFINE u == s.una
      <4>1. n \in 0 .. W - 1 /\ n \in Nat /\ u \in Nat
        BY <1>0 DEF SocketTyped, Seqs
      <4>2. k \in Nat /\ u + k = n
        BY <2>2
      <4> HIDE DEF k, n, u
      <4> QED BY <4>1, <4>2, Sizes DEF Seqs
    <3>2. p.nxt = Norm(k)
      BY <1>4, <1>5 DEF IsScaled
    <3> HIDE DEF k
    <3> QED BY <3>1, <3>2, NormSmall
  <2>4. Piece(Bytes, p.tx, s.tx, s.una, m)
    BY <1>4, <1>5 DEF IsScaled
  <2> HIDE DEF k, m
  <2>5. p.tx \in Seq(Bytes) /\ Len(p.tx) = m /\ \A n \in 1 .. m : p.tx[n] = s.tx[s.una + n]
    BY <2>2, <2>4, <1>3, <1>8 DEF Piece
  <2>6. Piece(Bytes, data, p.tx, k, cb)
    <3>1. data = SubSeq(p.tx, k + 1, k + cb)
      BY <2>3
    <3> HIDE DEF data
    <3> QED BY <1>3, <2>2, <2>5, <3>1, Pieces
  <2> HIDE DEF data
  <2>7. data \in Seq(Bytes) /\ Len(data) = cb /\ \A n \in 1 .. cb : data[n] = p.tx[k + n]
    BY <1>3, <1>8, <2>6 DEF Piece
  <2>8. Piece(Bytes, data, s.tx, s.nxt, cb)
    <3>1. ASSUME NEW n \in 1 .. cb
          PROVE  data[n] = s.tx[s.nxt + n]
      <4>1. k + n \in 1 .. m /\ s.una + (k + n) = s.nxt + n
        BY <1>2, <1>3, <2>2
      <4>2. data[n] = p.tx[k + n]
        BY <2>7
      <4>3. p.tx[k + n] = s.tx[s.una + (k + n)]
        BY <2>5, <4>1, Zenon
      <4> QED BY <4>1, <4>2, <4>3
    <3> QED BY <1>3, <1>8, <2>7, <3>1 DEF Piece
  <2>9. Fits(p)
    <3> DEFINE b == Len(s.rx)
    <3>1. b \in Nat /\ l + b <= Pages /\ Len(p.rx) = b
      BY <1>0, <1>4, <1>5 DEF SocketTyped, Fits, IsScaled, KeepsReceive
    <3>2. Len(p.tx) = m /\ m <= l
      BY <1>2, <2>5 DEF m
    <3> HIDE DEF b, l
    <3>3. m + b <= Pages
      BY <1>2, <2>2, <3>1, <3>2, Sizes
    <3> QED BY <3>1, <3>2, <3>3 DEF Fits
  <2>10. p \in Sockets
    BY <1>5 DEF IsScaled
  <2>11. Sends(p, sent, Header, cb, TRUE, data, ok)
    BY <1>3, <1>6, <2>7, <2>9, <2>10, Transmits DEF data, sent
  <2>12. r = sent
    BY <1>1, <1>8
  <2> DEFINE g == Segment(p, Header, TRUE, data)
  <2>13. IsSegment(g, p, Header, TRUE, data)
    BY <1>6, <2>7, <2>9, <2>10, SegmentType
  <2> HIDE DEF g
  <2>14. g \in Segments /\ ~g.syn /\ ~g.fin /\ ~g.rst /\ g.ack /\ g.data = data
    BY <2>13, HeaderFields DEF IsSegment
  <2>15. g.seq = Norm(s.iss + s.nxt) /\ g.ackNbr = Norm(s.irs + s.rcv)
    <3>1. g.seq = Norm(p.iss + k) /\ g.ackNbr = Norm(p.irs + p.rcv)
      BY <2>3, <2>13 DEF IsSegment
    <3>2. p.iss = Norm(s.iss + s.una) /\ p.irs = s.irs /\ p.rcv = s.rcv
      BY <1>4, <1>5 DEF IsScaled, KeepsReceive
    <3>3. s.iss + s.una \in Int /\ k \in Int /\ s.iss + s.una + k = s.iss + s.nxt
      <4> DEFINE i == s.iss
                 n == s.nxt
                 u == s.una
      <4>1. i \in Nat /\ n \in Nat /\ u \in Nat
        BY <1>0 DEF SocketTyped
      <4>2. k \in Nat /\ u + k = n
        BY <2>2
      <4> HIDE DEF k, i, n, u
      <4>3. i + u \in Int /\ k \in Int /\ i + u + k = i + n
        BY <4>1, <4>2
      <4> QED BY <4>3 DEF i, n, u
    <3>4. Norm(Norm(s.iss + s.una) + k) = Norm(s.iss + s.una + k)
      BY <3>3, NormSum
    <3> QED BY <3>1, <3>2, <3>3, <3>4
  <2>16. r.s.nxt = k + (IF ok THEN cb ELSE 0)
    <3>1. k + cb \in Seqs
      BY <1>2, <1>3, <2>1, <2>2, Sizes DEF Seqs
    <3>2. r.s.nxt = IF ok THEN Norm(k + cb) ELSE k
      BY <2>3, <2>11, <2>12 DEF Sends
    <3> QED BY <2>2, <3>1, <3>2, NormSmall
  <2>17. /\ r \in Results /\ r.s.st = p.st /\ KeepsSent(p, r.s) /\ KeepsReceive(p, r.s)
         /\ r.out = IF ok THEN <<g>> ELSE <<>>
    BY <2>11, <2>12 DEF Sends, g
  <2>18. r \in Results /\ r.s.st = s.st /\ KeepsReceive(s, r.s)
    BY <1>4, <1>5, <2>17 DEF IsScaled, KeepsReceive
  <2>19. /\ r.s.iss = Norm(s.iss + s.una) /\ r.s.una = 0
         /\ Piece(Bytes, r.s.tx, s.tx, s.una, l - s.una)
    BY <1>4, <1>5, <2>4, <2>17 DEF IsScaled, KeepsSent, m
  <2>20. IsDataSent(s, r, cb, g, ok)
    BY <1>8, <2>1, <2>8, <2>14, <2>15, <2>16, <2>17, <2>19 DEF IsDataSent, k
  <2>21. SendsData(s, r, ok)
    BY <1>3, <2>14, <2>20, Zenon DEF SendsData
  <2> QED BY <2>18, <2>21 DEF IsProcessedTx, r
<1>9. CASE cb = 0 /\ due
  <2>1. Sends(s, acked, Header, 0, TRUE, <<>>, ok)
    BY <1>6, <1>7, Transmits DEF acked
  <2>2. r = acked
    BY <1>1, <1>9
  <2>3. Norm(s.nxt + 0) = s.nxt
    <3>1. s.nxt + 0 = s.nxt /\ s.nxt \in Seqs
      BY <1>0 DEF SocketTyped
    <3> QED BY <3>1, NormSmall
  <2>4. /\ r \in Results /\ r.s.st = s.st /\ KeepsReceive(s, r.s) /\ KeepsSend(s, r.s)
        /\ r.out = IF ok THEN <<Segment(s, Header, TRUE, <<>>)>> ELSE <<>>
    BY <2>1, <2>2, <2>3 DEF Sends, KeepsSend
  <2>5. IsQuiet(s, r)
    BY <2>4, Zenon DEF IsQuiet
  <2> QED BY <2>4, <2>5 DEF IsProcessedTx, r
<1>10. CASE ~(cb > 0) /\ ~(cb = 0 /\ due)
  <2>1. r = Result(s, <<>>)
    BY <1>1, <1>10
  <2>2. r \in Results /\ r.s = s /\ r.out = <<>>
    BY <1>7, <2>1 DEF Result, Results
  <2>3. KeepsSend(s, r.s) /\ KeepsReceive(s, r.s)
    BY <2>2 DEF KeepsSend, KeepsSent, KeepsReceive
  <2>4. IsQuiet(s, r)
    BY <2>2, <2>3, Zenon DEF IsQuiet
  <2> QED BY <2>2, <2>3, <2>4 DEF IsProcessedTx, r
<1> QED BY <1>8, <1>9, <1>10


-----------------------------------------------------------------------------
(* The indexes of a socket.                                                *)

\* The states in which no FIN has been sent, or it is to be sent again.
Streaming == {"Established", "FinWait1", "CloseWait"}

\* The indexes lie in the transmit stream or, for a SYN or a FIN, right behind
\* it; a socket that has no connection yet has nothing to send.
Indexed(s) ==
  /\ Fits(s) /\ Ordered(s)
  /\ s.una <= Len(s.tx) + 1 /\ s.nxt <= Len(s.tx) + 1
  /\ s.st \in Streaming => s.nxt <= Len(s.tx)
  /\ s.st = "Established" => s.una <= s.nxt
  /\ s.st \in SynStates \cup {"Listen", "Unassigned"} => s.tx = <<>>
  /\ s.st = "Listen" => s.una = 0 /\ s.nxt = 0

LEMMA StreamSizes ==
  ASSUME NEW s \in Sockets, Fits(s)
  PROVE  /\ Len(s.tx) \in Nat /\ Len(s.tx) <= Pages /\ Len(s.tx) + 1 < W
         /\ Len(s.rx) \in Nat /\ Len(s.rx) <= Pages
<1>1. SocketTyped(s)
  BY SocketFields
<1> DEFINE a == Len(s.tx)
           b == Len(s.rx)
<1>2. a \in Nat /\ b \in Nat /\ a + b <= Pages
  BY <1>1 DEF Fits, SocketTyped
<1> HIDE DEF a, b
<1>3. a <= Pages /\ b <= Pages /\ a + 1 < W
  BY <1>2, Sizes
<1> QED BY <1>2, <1>3 DEF a, b

\* The streams and the acknowledged index stay, the next one moves on.
LEMMA StillIndexed ==
  ASSUME NEW s \in Sockets, Indexed(s), NEW t \in Sockets,
         t.tx = s.tx, t.rx = s.rx, t.una = s.una,
         s.nxt <= t.nxt, t.nxt <= Len(s.tx) + 1,
         t.st \in Streaming => t.nxt <= Len(s.tx),
         t.st = "Established" => s.st = "Established",
         t.st \in SynStates \cup {"Unassigned"} =>
            s.st \in SynStates \cup {"Listen", "Unassigned"},
         t.st = "Listen" => s.st = "Listen" /\ t.nxt = 0
  PROVE  Indexed(t)
<1>1. SocketTyped(s) /\ SocketTyped(t)
  BY SocketFields
<1> DEFINE a == Len(s.tx)
<1>2. a \in Nat /\ Len(t.tx) = a /\ s.una \in Nat /\ s.nxt \in Nat /\ t.nxt \in Nat
  BY <1>1 DEF SocketTyped
<1>3. Fits(t)
  BY DEF Indexed, Fits
<1> HIDE DEF a
<1>4. t.una <= a + 1 /\ t.nxt <= a + 1 /\ (t.st \in Streaming => t.nxt <= a)
  BY DEF Indexed, a
<1>5. Ordered(t) /\ (t.st = "Established" => t.una <= t.nxt)
  BY <1>2 DEF Indexed, Ordered
<1>6. t.st \in SynStates \cup {"Listen", "Unassigned"} => t.tx = <<>>
  BY DEF Indexed
<1>7. t.st = "Listen" => t.una = 0 /\ t.nxt = 0
  BY DEF Indexed
<1> QED BY <1>2, <1>3, <1>4, <1>5, <1>6, <1>7 DEF Indexed

\* A segment without data, of a socket that has room for its phantom byte.
MaySend(s, cb) ==
  \/ cb = 0
  \/ /\ cb = 1 /\ s.nxt <= Len(s.tx)
     /\ s.st \notin Streaming \cup {"Listen", "Unassigned"}
IsSent(s, r, h, cb, fAck, ok) ==
  /\ r \in Results /\ Indexed(r.s)
  /\ r.s.st = s.st /\ KeepsSent(s, r.s) /\ KeepsReceive(s, r.s)
  /\ r.s.nxt = IF ok THEN s.nxt + cb ELSE s.nxt
  /\ r.out = IF ok THEN <<Segment(s, h, fAck, <<>>)>> ELSE <<>>

LEMMA SendsEmpty ==
  ASSUME NEW s \in Sockets, Indexed(s), NEW h \in Headers, NEW cb \in 0 .. 1,
         NEW fAck \in BOOLEAN, NEW ok \in BOOLEAN, MaySend(s, cb)
  PROVE  IsSent(s, TCPTransmit(s, h, cb, fAck, <<>>, ok), h, cb, fAck, ok)
<1> DEFINE r == TCPTransmit(s, h, cb, fAck, <<>>, ok)
           t == r.s
<1>0. SocketTyped(s) /\ Fits(s)
  BY SocketFields DEF Indexed
<1>1. cb \in Nat /\ <<>> \in Seq(Bytes)
  OBVIOUS
<1>2. Sends(s, r, h, cb, fAck, <<>>, ok)
  BY <1>0, <1>1, Transmits
<1> HIDE DEF r
<1>3. /\ r \in Results /\ t \in Sockets /\ t.st = s.st /\ KeepsSent(s, t) /\ KeepsReceive(s, t)
      /\ t.nxt = (IF ok THEN Norm(s.nxt + cb) ELSE s.nxt)
      /\ r.out = (IF ok THEN <<Segment(s, h, fAck, <<>>)>> ELSE <<>>)
  BY <1>2 DEF Sends, Results
<1> HIDE DEF t
<1> DEFINE a == Len(s.tx)
<1>4. a \in Nat /\ a + 1 < W /\ s.nxt \in Nat /\ s.nxt <= a + 1
  BY <1>0, StreamSizes DEF Indexed, SocketTyped
<1>5. s.nxt + cb <= a + 1
  BY <1>4 DEF MaySend
<1> HIDE DEF a
<1>6. t.nxt = IF ok THEN s.nxt + cb ELSE s.nxt
  <2>1. s.nxt + cb \in Seqs
    BY <1>1, <1>4, <1>5, Sizes DEF Seqs
  <2> QED BY <1>3, <2>1, NormSmall
<1>7. s.nxt <= t.nxt /\ t.nxt <= a + 1
  BY <1>1, <1>4, <1>5, <1>6
<1>8. t.st \in Streaming => t.nxt <= a
  <2> HAVE t.st \in Streaming
  <2>1. cb = 0 /\ s.nxt <= a
    BY <1>3 DEF MaySend, Indexed, a
  <2> QED BY <1>4, <1>6, <2>1
<1>9. t.st = "Listen" => t.nxt = 0
  <2> HAVE t.st = "Listen"
  <2>1. cb = 0 /\ s.nxt = 0
    BY <1>3 DEF MaySend, Indexed
  <2> QED BY <1>6, <2>1
<1>10. Indexed(t)
  BY <1>3, <1>7, <1>8, <1>9, StillIndexed DEF KeepsSent, KeepsReceive, a
<1> QED BY <1>3, <1>6, <1>10 DEF IsSent, t, r

\* What a pass sends of a stream leaves the indexes in place.
LEMMA StreamIndexed ==
  ASSUME NEW s \in Sockets, Indexed(s), NEW r, NEW ok \in BOOLEAN, IsProcessedTx(s, r, ok)
  PROVE  Indexed(r.s)
<1> DEFINE t == r.s
           a == Len(s.tx)
           b == Len(s.rx)
           c == Len(t.tx)
<1>0. SocketTyped(s) /\ t \in Sockets /\ SocketTyped(t)
  <2>1. t \in Sockets
    BY DEF IsProcessedTx, Results
  <2> HIDE DEF t
  <2> QED BY <2>1, SocketFields
<1>1. t.st = s.st /\ KeepsReceive(s, t)
  BY DEF IsProcessedTx
<1>2. CASE IsQuiet(s, r)
  <2>1. KeepsSend(s, t)
    BY <1>2 DEF IsQuiet
  <2>2. s.nxt \in Nat
    BY <1>0 DEF SocketTyped
  <2> HIDE DEF t, a
  <2>3. s.nxt <= t.nxt /\ t.nxt <= Len(s.tx) + 1 /\ (t.st \in Streaming => t.nxt <= Len(s.tx))
        /\ (t.st = "Listen" => t.nxt = 0)
    BY <1>1, <2>1, <2>2 DEF KeepsSend, Indexed
  <2>4. Indexed(t)
    BY <1>0, <1>1, <2>1, <2>3, StillIndexed DEF KeepsSend, KeepsSent, KeepsReceive
  <2> QED BY <2>4 DEF t
<1>3. CASE SendsData(s, r, ok)
  <2>1. PICK cb \in Nat, g \in Segments : IsDataSent(s, r, cb, g, ok)
    BY <1>3 DEF SendsData
  <2>2. /\ cb > 0 /\ s.una <= s.nxt /\ s.nxt + cb <= a /\ t.una = 0
        /\ t.nxt = s.nxt - s.una + (IF ok THEN cb ELSE 0)
        /\ Piece(Bytes, t.tx, s.tx, s.una, a - s.una)
    BY <2>1 DEF IsDataSent
  <2>3. a \in Nat /\ b \in Nat /\ s.una \in Nat /\ s.nxt \in Nat /\ a + b <= Pages
    BY <1>0 DEF SocketTyped, Indexed, Fits
  <2>4. c = (IF a - s.una > 0 THEN a - s.una ELSE 0) /\ Len(t.rx) = b
    BY <1>1, <2>2 DEF Piece, KeepsReceive
  <2>5. t.st \notin SynStates \cup {"Listen", "Unassigned"}
    <3>1. s.tx # <<>>
      <4>1. a > 0
        BY <2>2, <2>3
      <4> QED BY <4>1
    <3> QED BY <1>1, <3>1 DEF Indexed
  <2>6. Fits(t) <=> c + b <= Pages
    BY <2>4 DEF Fits
  <2>7. Ordered(t) <=> 0 <= t.nxt \/ t.tx = <<>>
    BY <2>2 DEF Ordered
  <2> DEFINE n == t.nxt
             u == s.una
             x == s.nxt
  <2>12. n \in Nat
    BY <1>0 DEF SocketTyped
  <2>13. n = x - u + cb \/ n = x - u
    BY <2>2, <2>3
  <2>14. u <= x /\ x + cb <= a /\ cb > 0 /\ (c = IF a - u > 0 THEN a - u ELSE 0)
         /\ a \in Nat /\ b \in Nat /\ u \in Nat /\ x \in Nat /\ a + b <= Pages
    BY <2>2, <2>3, <2>4
  <2> HIDE DEF a, b, c, t, n, u, x
  <2>8. c + b <= Pages /\ n <= c /\ c \in Nat
    <3>1. c = a - u
      BY <2>14
    <3>2. c \in Nat /\ c <= a
      BY <2>14, <3>1
    <3>3. c + b <= Pages
      BY <2>14, <3>2, Sizes
    <3>4. n <= c
      BY <2>12, <2>13, <2>14, <3>1
    <3> QED BY <3>2, <3>3, <3>4
  <2>15. t.nxt <= c /\ t.nxt <= c + 1 /\ 0 <= c + 1 /\ 0 <= t.nxt
    BY <2>8, <2>12 DEF n
  <2>9. Indexed(t)
    BY <2>2, <2>5, <2>6, <2>7, <2>8, <2>15 DEF Indexed, c, Streaming, SynStates
  <2> QED BY <2>9 DEF t
<1> QED BY <1>2, <1>3 DEF IsProcessedTx

-----------------------------------------------------------------------------
(* The checks keep the indexes in place.                                   *)

\* An acknowledgement is believed up to the last byte sent or, after a
\* retransmission timeout, up to the last one written.
LEMMA AcksIndexed ==
  ASSUME NEW s \in Sockets, Indexed(s), NEW g \in Segments
  PROVE  Indexed(TCPProcessACK(s, g))
<1> DEFINE t == TCPProcessACK(s, g)
           n == AckNbrOf(s, g)
           a == Len(s.tx)
<1>1. IsAcked(s, g, t) /\ n \in Nat
  BY Acks
<1> HIDE DEF t
<1>2. t \in Sockets /\ t.st = s.st /\ t.tx = s.tx /\ t.rx = s.rx
  BY <1>1 DEF IsAcked, KeepsReceive
<1>3. SocketTyped(s) /\ SocketTyped(t)
  BY <1>2, SocketFields
<1>4. a \in Nat /\ s.una \in Nat /\ s.nxt \in Nat
  BY <1>3 DEF SocketTyped
<1>5. Fits(t)
  BY <1>2 DEF Indexed, Fits
<1>6. CASE Takes(s, g)
  <2>1. s.una <= n /\ (n <= s.nxt \/ n <= a) /\ t.una = n
        /\ t.nxt = (IF n > s.nxt \/ s.probe THEN n ELSE s.nxt)
    BY <1>1, <1>6 DEF IsAcked, Takes
  <2>2. s.nxt <= a + 1 /\ (s.st \in Streaming => s.nxt <= a)
        /\ (s.st = "Listen" => s.una = 0 /\ s.nxt = 0 /\ a = 0)
    BY DEF Indexed
  <2> HIDE DEF n, a
  <2>3. t.una <= t.nxt
    BY <1>1, <1>4, <2>1
  <2>4. t.una <= a + 1 /\ t.nxt <= a + 1 /\ (s.st \in Streaming => t.nxt <= a)
    BY <1>1, <1>4, <2>1, <2>2
  <2>5. s.st = "Listen" => t.una = 0 /\ t.nxt = 0
    BY <1>1, <1>4, <2>1, <2>2
  <2>6. s.st \in SynStates \cup {"Listen", "Unassigned"} => s.tx = <<>>
    BY DEF Indexed
  <2>7. Indexed(t)
    BY <1>2, <1>5, <2>3, <2>4, <2>5, <2>6 DEF Indexed, Ordered, a
  <2> QED BY <2>7 DEF t
<1>7. CASE ~Takes(s, g)
  <2>1. t.una = s.una /\ t.nxt = s.nxt
    BY <1>1, <1>7 DEF IsAcked
  <2>2. Indexed(t)
    BY <1>2, <1>5, <2>1 DEF Indexed, Ordered
  <2> QED BY <2>2 DEF t
<1> QED BY <1>6, <1>7

LEMMA KeptIndexed ==
  ASSUME NEW s, Indexed(s), NEW t, Fits(t), t.st = s.st, KeepsSend(s, t)
  PROVE  Indexed(t)
BY DEF Indexed, Ordered, KeepsSend, KeepsSent

\* The segment is processed: its SYN gives the initial number of the peer, its
\* data go to the receive stream.
Load(s, g) == TCPAddRxDataToSocket(TCPProcessSYN(s, g), g)

LEMMA LoadIndexed ==
  ASSUME NEW s \in Sockets, Indexed(s), NEW g \in Segments
  PROVE  /\ TCPProcessSYN(s, g) \in Sockets /\ Indexed(TCPProcessSYN(s, g))
         /\ Load(s, g) \in Sockets /\ Indexed(Load(s, g))
<1> DEFINE t == TCPProcessSYN(s, g)
           u == TCPAddRxDataToSocket(t, g)
<1>1. IsSynced(s, g, t)
  BY Syncs
<1> HIDE DEF t
<1>2. t \in Sockets /\ t.st = s.st /\ KeepsSend(s, t) /\ Fits(t)
  BY <1>1 DEF IsSynced, Indexed, Fits, KeepsSend, KeepsSent
<1>3. Indexed(t)
  BY <1>2, KeptIndexed
<1>4. IsLoaded(t, g, u)
  BY <1>2, Loads
<1> HIDE DEF u
<1>5. u \in Sockets /\ u.st = t.st /\ KeepsSend(t, u) /\ Fits(u)
  BY <1>4 DEF IsLoaded
<1>6. Indexed(u)
  BY <1>3, <1>5, KeptIndexed
<1> QED BY <1>2, <1>3, <1>5, <1>6 DEF Load, t, u

LEMMA ResetIndexed ==
  ASSUME NEW s \in Sockets, Fits(s), NEW t, IsReset(s, t)
  PROVE  t \in Sockets /\ Indexed(t)
<1>1. t \in Sockets /\ t.una = 0 /\ t.nxt = 0 /\ t.tx = <<>> /\ (t.rx = s.rx \/ t.rx = <<>>)
      /\ t.st \in {"Listen", "Unassigned"}
  BY DEF IsReset
<1>2. Fits(t)
  <2>1. Len(s.rx) <= Pages /\ Len(<<>>) = 0
    BY StreamSizes
  <2>2. Len(t.rx) <= Pages /\ Len(t.rx) \in Nat
    <3>1. Len(s.rx) \in Nat
      BY StreamSizes
    <3> QED BY <1>1, <2>1, <3>1, Sizes
  <2>3. Len(t.tx) = 0
    BY <1>1
  <2> QED BY <2>2, <2>3, Sizes DEF Fits
<1> QED BY <1>1, <1>2 DEF Indexed, Ordered, Streaming

-----------------------------------------------------------------------------
(* The steps of a pass.                                                    *)

\* A change of state, and the FIN of the peer with one.
Moves(s, t, next) ==
  t \in Sockets /\ t.st = next /\ KeepsSend(s, t) /\ KeepsReceive(s, t)
TakesFin(s, t, next) ==
  /\ t \in Sockets /\ t.st = next /\ KeepsSend(s, t)
  /\ t.irs = s.irs /\ t.rx = s.rx /\ t.rcv = Norm(s.rcv + 1) /\ t.gotFin

LEMMA Moved ==
  ASSUME NEW s \in Sockets, NEW next \in TcpStates
  PROVE  Moves(s, [s EXCEPT !.st = next], next)
BY DEF Moves, Sockets, KeepsSend, KeepsSent, KeepsReceive

LEMMA TakenFin ==
  ASSUME NEW s \in Sockets, NEW next \in TcpStates
  PROVE  TakesFin(s, GotFin(s, next), next)
<1> DEFINE rcv == Norm(s.rcv + 1)
           t   == [s EXCEPT !.rcv = rcv, !.gotFin = TRUE, !.st = next]
<1>1. rcv \in Seqs
  <2>1. s.rcv + 1 \in Int
    BY SocketFields DEF SocketTyped
  <2> QED BY <2>1, NormType
<1>2. GotFin(s, next) = t
  BY DEF GotFin
<1> HIDE DEF rcv
<1>3. t \in Sockets /\ t.st = next /\ KeepsSend(s, t) /\ t.irs = s.irs /\ t.rx = s.rx
      /\ t.rcv = rcv /\ t.gotFin
  BY <1>1 DEF Sockets, KeepsSend, KeepsSent
<1> QED BY <1>2, <1>3 DEF TakesFin, rcv

\* Neither disturbs the indexes of a socket that stays connected.
LEMMA MovedIndexed ==
  ASSUME NEW s \in Sockets, Indexed(s), NEW next \in TcpStates, NEW t,
         Moves(s, t, next) \/ TakesFin(s, t, next),
         next \in Streaming => s.nxt <= Len(s.tx),
         next = "Established" => s.st = "Established",
         next \in SynStates \cup {"Unassigned"} =>
            s.st \in SynStates \cup {"Listen", "Unassigned"},
         next # "Listen"
  PROVE  t \in Sockets /\ Indexed(t)
<1>1. t \in Sockets /\ t.st = next /\ KeepsSend(s, t) /\ t.rx = s.rx
  BY DEF Moves, TakesFin, KeepsReceive
<1>2. s.nxt \in Nat
  BY SocketFields DEF SocketTyped
<1>3. t.tx = s.tx /\ t.una = s.una /\ s.nxt <= t.nxt /\ t.nxt <= Len(s.tx) + 1
  BY <1>1, <1>2 DEF KeepsSend, KeepsSent, Indexed
<1>4. t.st \in Streaming => t.nxt <= Len(s.tx)
  BY <1>1 DEF KeepsSend
<1> QED BY <1>1, <1>3, <1>4, StillIndexed

\* The first pass after the acknowledgement of the SYN.
Establishes(s, t) ==
  /\ t \in Sockets /\ Indexed(t) /\ t.st = "Established"
  /\ t.iss = Norm(s.iss + s.nxt) /\ t.nxt = 0 /\ t.una = 0 /\ t.tx = <<>>
  /\ KeepsReceive(s, t)

LEMMA Establish_ ==
  ASSUME NEW s \in Sockets, Fits(s)
  PROVE  Establishes(s, Establish(s))
<1> DEFINE iss == Norm(s.iss + s.nxt)
           t   == [s EXCEPT !.st = "Established", !.iss = iss, !.rtt = 0, !.nxt = 0,
                            !.una = 0, !.tx = <<>>, !.pause = CNTPAUSESEND]
<1>1. iss \in Seqs
  <2>1. s.iss + s.nxt \in Int
    BY SocketFields DEF SocketTyped
  <2> QED BY <2>1, NormType
<1>2. Establish(s) = t
  BY DEF Establish
<1>3. 0 \in Seqs /\ CNTPAUSESEND \in 0 .. CNTPAUSESEND /\ "Established" \in TcpStates
      /\ <<>> \in Seq(Bytes)
  BY Sizes DEF Seqs, CNTPAUSESEND, TcpStates, Windowed
<1> HIDE DEF iss
<1>4. t \in Sockets /\ t.st = "Established" /\ t.iss = iss /\ t.nxt = 0 /\ t.una = 0
      /\ t.tx = <<>> /\ KeepsReceive(s, t)
  BY <1>1, <1>3 DEF Sockets, KeepsReceive
<1> HIDE DEF t
<1>5. Fits(t)
  <2>1. Len(t.tx) = 0 /\ Len(t.rx) = Len(s.rx) /\ Len(s.rx) \in Nat /\ Len(s.rx) <= Pages
    BY <1>4, StreamSizes DEF KeepsReceive
  <2> QED BY <2>1, Sizes DEF Fits
<1>6. Indexed(t)
  <2>1. Len(t.tx) = 0
    BY <1>4
  <2> QED BY <1>4, <1>5, <2>1 DEF Indexed, Ordered, SynStates
<1> QED BY <1>2, <1>4, <1>6 DEF Establishes, iss

\* A retransmission timeout.
BacksOff(s, t) ==
  /\ t \in Sockets /\ t.nxt = s.una /\ KeepsSent(s, t) /\ KeepsReceive(s, t)
  /\ t.st = CASE s.st = "LastAck"  -> "CloseWait"
              [] s.st = "FinWait2" -> "FinWait1"
              [] OTHER             -> s.st

LEMMA BackOff_ ==
  ASSUME NEW s \in Sockets
  PROVE  BacksOff(s, BackOff(s))
<1> DEFINE retr == Min({s.retr + 1, Retries})
           st   == CASE s.st = "LastAck"  -> "CloseWait"
                     [] s.st = "FinWait2" -> "FinWait1"
                     [] OTHER             -> s.st
           t    == [s EXCEPT !.retr = retr, !.nxt = s.una, !.pause = 1, !.st = st]
<1>0. SocketTyped(s)
  BY SocketFields
<1>1. BackOff(s) = t
  BY DEF BackOff
<1>2. retr \in 0 .. Retries
  <2>1. s.retr \in 0 .. Retries
    BY <1>0 DEF SocketTyped
  <2>2. s.retr + 1 \in Int /\ Retries \in Int
    BY <2>1, Sizes
  <2>3. retr = IF s.retr + 1 <= Retries THEN s.retr + 1 ELSE Retries
    BY <2>2, MinOf
  <2> QED BY <2>1, <2>3, Sizes
<1>3. st \in TcpStates
  BY <1>0 DEF SocketTyped, TcpStates, Windowed
<1>4. s.una \in Seqs /\ 1 \in 0 .. CNTPAUSESEND
  BY <1>0 DEF SocketTyped, CNTPAUSESEND
<1> HIDE DEF retr, st
<1>5. t \in Sockets /\ t.nxt = s.una /\ KeepsSent(s, t) /\ KeepsReceive(s, t) /\ t.st = st
  BY <1>2, <1>3, <1>4 DEF Sockets, KeepsSent, KeepsReceive
<1> QED BY <1>1, <1>5 DEF BacksOff, st

LEMMA BackOffIndexed ==
  ASSUME NEW s \in Sockets, Indexed(s), s.una < s.nxt, NEW t, BacksOff(s, t)
  PROVE  Indexed(t)
<1> DEFINE a == Len(s.tx)
<1>1. s.una \in Nat /\ s.nxt \in Nat /\ a \in Nat /\ s.nxt <= a + 1
  BY SocketFields DEF SocketTyped, Indexed
<1>2. t.tx = s.tx /\ t.rx = s.rx /\ t.una = s.una /\ t.nxt = s.una
  BY DEF BacksOff, KeepsSent, KeepsReceive
<1>3. s.una <= a
  BY <1>1
<1>4. Fits(t)
  BY <1>2 DEF Indexed, Fits
<1>5. /\ t.st \in SynStates \cup {"Listen", "Unassigned"} =>
            s.st \in SynStates \cup {"Listen", "Unassigned"}
      /\ t.st # "Listen"
  <2>1. s.st # "Listen"
    BY <1>1 DEF Indexed
  <2> QED BY <2>1 DEF BacksOff, SynStates
<1>6. t.una <= Len(t.tx) /\ t.nxt <= Len(t.tx) /\ t.una <= Len(t.tx) + 1
      /\ t.nxt <= Len(t.tx) + 1 /\ t.una <= t.nxt
  <2>1. Len(t.tx) = a
    BY <1>2
  <2> HIDE DEF a
  <2> QED BY <1>1, <1>2, <1>3, <2>1
<1>7. t.st \in SynStates \cup {"Listen", "Unassigned"} => t.tx = <<>>
  BY <1>2, <1>5 DEF Indexed
<1> QED BY <1>4, <1>5, <1>6, <1>7 DEF Indexed, Ordered

\* What the switch over the state does.  The FIN of the peer is answered, with
\* a FIN when everything has been sent before.
AnswersFin(s, r, ok) ==
  \E m \in Sockets, next \in TcpStates :
    /\ TakesFin(s, m, next)
    /\ \/ /\ s.st = "Established" /\ s.nxt = Len(s.tx) /\ next = "LastAck"
          /\ IsSent(m, r, Fin, 1, TRUE, ok)
       \/ /\ \/ s.st \in {"Established", "FinWait1"} /\ next = "CloseWait"
             \/ s.st = "FinWait2" /\ next = "LastAck"
             \/ s.st = "FinWait2" /\ s.una = s.nxt /\ next = "WaitUserClose"
             \/ s.st = "Closing" /\ next = "WaitUserClose"
          /\ IsSent(m, r, Header, 0, TRUE, ok)

\* Our FIN goes out when everything has been acknowledged.
SendsFin(s, r, ok) ==
  \E m \in Sockets, next \in TcpStates :
    /\ \/ s.st = "CloseWait" /\ next = "LastAck"
       \/ s.st = "FinWait1" /\ next = "FinWait2"
    /\ Len(s.tx) = s.una /\ Moves(s, m, next) /\ IsSent(m, r, Fin, 1, TRUE, ok)

SendsStream(s, r, ok) == s.st \in Streaming /\ IsProcessedTx(s, r, ok)

GotSegment(g) == g # NoSegment
Streams(s, g, r, ok) ==
  \/ GotSegment(g) /\ g.fin /\ AnswersFin(s, r, ok)
  \/ SendsFin(s, r, ok)
  \/ SendsStream(s, r, ok)

AnswersSyn(s, g, r, ok) ==
  \E m \in Sockets :
    \/ /\ s.st = "Listen" /\ GotSegment(g) /\ Moves(s, m, "SynReceivedWhileListening")
       /\ IsSent(m, r, Syn, 1, TRUE, ok)
    \/ /\ s.st = "SynSent" /\ GotSegment(g) /\ g.syn /\ Moves(s, m, "SynReceived")
       /\ IsSent(m, r, Header, 0, TRUE, ok)

Starts(s, g, r, ok) ==
  \E m \in Sockets : /\ s.st \in SynStates \ {"SynSent"} /\ s.una >= s.nxt
                     /\ Establishes(s, m) /\ Streams(m, g, r, ok)

Finishes(s, r) ==
  /\ r.out = <<>>
  /\ \/ s.st = "LastAck" /\ s.una = s.nxt /\ Moves(s, r.s, "WaitUserClose")
     \/ s.st = "FinWait2" /\ s.una = s.nxt /\ Moves(s, r.s, "Closing")
     \/ s.st = "WaitUserClose" /\ Moves(s, r.s, "Closed")

Stays(s, r) == r.s = s /\ r.out = <<>>
Frees(s, r) == IsReset(s, r.s) /\ r.out = <<>>

\* The SYN of the socket has been acknowledged.
Shaken(s) == s.st \in SynStates \ {"SynSent"} /\ s.una >= s.nxt
IsSwitched(s, g, r, ok) ==
  /\ r \in Results /\ Indexed(r.s)
  /\ \/ (Stays(s, r) /\ ~Shaken(s)) \/ Finishes(s, r) \/ AnswersSyn(s, g, r, ok) \/ Starts(s, g, r, ok)
     \/ Streams(s, g, r, ok) \/ (s.st = "Closed" /\ Frees(s, r))

LEMMA ResultType ==
  ASSUME NEW s \in Sockets
  PROVE  Result(s, <<>>) \in Results /\ Result(s, <<>>).s = s /\ Result(s, <<>>).out = <<>>
<1>1. <<>> \in Seq(Segments)
  OBVIOUS
<1> QED BY <1>1 DEF Result, Results

LEMMA HeadersOf == Header \in Headers /\ Syn \in Headers /\ Fin \in Headers /\ Rst \in Headers
BY Zenon DEF Headers

LEMMA StatesOf ==
  /\ {"CloseWait", "LastAck", "WaitUserClose", "FinWait2", "FinWait1", "Closing", "Closed",
      "SynReceived", "SynReceivedWhileListening", "Established", "Listen", "Unassigned",
      "SynSent"} \subseteq TcpStates
  /\ \A st \in TcpStates : st \in {"CloseWait", "LastAck", "WaitUserClose", "FinWait2",
      "FinWait1", "Closing", "Closed", "SynReceived", "SynReceivedWhileListening",
      "Established", "Listen", "Unassigned", "SynSent"}
BY DEF TcpStates, SynStates, Windowed

LEMMA AcksEmpty ==
  ASSUME NEW s \in Sockets, Indexed(s), NEW ok \in BOOLEAN
  PROVE  IsSent(s, Acknowledge(s, ok), Header, 0, TRUE, ok)
<1>1. Header \in Headers /\ 0 \in 0 .. 1 /\ TRUE \in BOOLEAN /\ MaySend(s, 0)
  BY HeadersOf DEF MaySend
<1>2. IsSent(s, TCPTransmit(s, Header, 0, TRUE, <<>>, ok), Header, 0, TRUE, ok)
  BY <1>1, SendsEmpty, Zenon
<1> QED BY <1>2, Zenon DEF Acknowledge

\* The FIN of the peer, acknowledged and no more.
LEMMA AcksFin ==
  ASSUME NEW s \in Sockets, Indexed(s), NEW ok \in BOOLEAN, NEW next \in TcpStates,
         \/ s.st \in {"Established", "FinWait1"} /\ next = "CloseWait"
         \/ s.st = "FinWait2" /\ next = "LastAck"
         \/ s.st = "FinWait2" /\ s.una = s.nxt /\ next = "WaitUserClose"
         \/ s.st = "Closing" /\ next = "WaitUserClose"
  PROVE  LET r == Acknowledge(GotFin(s, next), ok)
         IN  AnswersFin(s, r, ok) /\ r \in Results /\ Indexed(r.s)
<1> DEFINE m == GotFin(s, next)
           r == Acknowledge(m, ok)
<1>1. TakesFin(s, m, next)
  BY TakenFin
<1> HIDE DEF m
<1>2. m \in Sockets /\ Indexed(m)
  <2>1. next \in Streaming => s.nxt <= Len(s.tx)
    BY DEF Indexed, Streaming
  <2>2. next \notin SynStates \cup {"Unassigned", "Established", "Listen"}
    BY DEF SynStates
  <2> QED BY <1>1, <2>1, <2>2, MovedIndexed
<1>3. IsSent(m, r, Header, 0, TRUE, ok)
  BY <1>2, AcksEmpty
<1> HIDE DEF r
<1>4. AnswersFin(s, r, ok)
  BY <1>1, <1>2, <1>3 DEF AnswersFin
<1>5. r \in Results /\ Indexed(r.s)
  BY <1>3 DEF IsSent
<1> QED BY <1>4, <1>5 DEF r, m

LEMMA FlushesAndFINs ==
  ASSUME NEW s \in Sockets, Indexed(s), NEW clk \in Timers, NEW ok \in BOOLEAN,
         NEW next \in TcpStates,
         \/ s.st = "CloseWait" /\ next = "LastAck"
         \/ s.st = "FinWait1" /\ next = "FinWait2"
  PROVE  LET r == TCPFlushSocketAndFIN(s, next, clk, ok)
         IN  (SendsFin(s, r, ok) \/ SendsStream(s, r, ok)) /\ r \in Results /\ Indexed(r.s)
<1> DEFINE r == TCPFlushSocketAndFIN(s, next, clk, ok)
<1>1. CASE Len(s.tx) = s.una
  <2> DEFINE m == [s EXCEPT !.st = next]
  <2>1. Moves(s, m, next)
    BY Moved
  <2>2. r = TCPTransmit(m, Fin, 1, TRUE, <<>>, ok)
    BY <1>1 DEF TCPFlushSocketAndFIN
  <2> HIDE DEF m, r
  <2>3. next \notin SynStates \cup {"Unassigned", "Established", "Listen"} \cup Streaming
    BY DEF SynStates, Streaming
  <2>4. m \in Sockets /\ Indexed(m)
    BY <2>1, <2>3, MovedIndexed
  <2>5. MaySend(m, 1)
    <3>1. s.nxt <= Len(s.tx)
      BY DEF Indexed, Streaming
    <3> QED BY <2>1, <2>3, <3>1 DEF MaySend, Moves, KeepsSend, KeepsSent
  <2>6. IsSent(m, r, Fin, 1, TRUE, ok)
    <3>1. Fin \in Headers /\ 1 \in 0 .. 1 /\ TRUE \in BOOLEAN
      BY HeadersOf
    <3>2. IsSent(m, TCPTransmit(m, Fin, 1, TRUE, <<>>, ok), Fin, 1, TRUE, ok)
      BY <2>4, <2>5, <3>1, SendsEmpty, Zenon
    <3> QED BY <2>2, <3>2, Zenon
  <2>7. SendsFin(s, r, ok)
    BY <1>1, <2>1, <2>4, <2>6 DEF SendsFin
  <2>8. r \in Results /\ Indexed(r.s)
    BY <2>6 DEF IsSent
  <2> QED BY <2>7, <2>8 DEF r
<1>2. CASE Len(s.tx) # s.una
  <2>1. r = TCPProcessTxSocketBuffers(s, clk, ok)
    BY <1>2 DEF TCPFlushSocketAndFIN
  <2> HIDE DEF r
  <2>2. IsProcessedTx(s, r, ok)
    BY <2>1, ProcessesTx DEF Indexed
  <2>3. Indexed(r.s)
    BY <2>2, StreamIndexed
  <2>4. SendsStream(s, r, ok) /\ r \in Results
    BY <2>2 DEF SendsStream, IsProcessedTx, Streaming
  <2> QED BY <2>3, <2>4 DEF r
<1> QED BY <1>1, <1>2

LEMMA EstablishedStreams ==
  ASSUME NEW s \in Sockets, Indexed(s), s.st = "Established", NEW g,
         NEW clk \in Timers, NEW ok \in BOOLEAN
  PROVE  LET r == Established(s, g, clk, ok)
         IN  Streams(s, g, r, ok) /\ r \in Results /\ Indexed(r.s)
<1> DEFINE r   == Established(s, g, clk, ok)
           fin == GotSegment(g) /\ g.fin
<1>1. r = CASE fin /\ s.nxt = Len(s.tx) ->
                 TCPTransmit(GotFin(s, "LastAck"), Fin, 1, TRUE, <<>>, ok)
            [] fin /\ s.nxt # Len(s.tx) -> Acknowledge(GotFin(s, "CloseWait"), ok)
            [] OTHER -> TCPProcessTxSocketBuffers(s, clk, ok)
  BY DEF Established, GotSegment
<1> HIDE DEF r
<1>2. CASE fin /\ s.nxt = Len(s.tx)
  <2> DEFINE m == GotFin(s, "LastAck")
  <2>1. TakesFin(s, m, "LastAck")
    BY StatesOf, TakenFin
  <2>2. r = TCPTransmit(m, Fin, 1, TRUE, <<>>, ok)
    BY <1>1, <1>2
  <2> HIDE DEF m, fin
  <2>3. "LastAck" \notin SynStates \cup {"Unassigned", "Established", "Listen"} \cup Streaming
    BY DEF SynStates, Streaming
  <2>4. m \in Sockets /\ Indexed(m)
    BY <2>1, <2>3, StatesOf, MovedIndexed
  <2>5. MaySend(m, 1)
    <3>1. s.nxt <= Len(s.tx)
      BY DEF Indexed, Streaming
    <3> QED BY <2>1, <2>3, <3>1 DEF MaySend, TakesFin, KeepsSend, KeepsSent
  <2>6. IsSent(m, r, Fin, 1, TRUE, ok)
    <3>1. Fin \in Headers /\ 1 \in 0 .. 1 /\ TRUE \in BOOLEAN
      BY HeadersOf
    <3>2. IsSent(m, TCPTransmit(m, Fin, 1, TRUE, <<>>, ok), Fin, 1, TRUE, ok)
      BY <2>4, <2>5, <3>1, SendsEmpty, Zenon
    <3> QED BY <2>2, <3>2, Zenon
  <2>7. AnswersFin(s, r, ok)
    BY <1>2, <2>1, <2>4, <2>6, StatesOf DEF AnswersFin
  <2>8. r \in Results /\ Indexed(r.s)
    BY <2>6 DEF IsSent
  <2> QED BY <1>2, <2>7, <2>8 DEF Streams, fin, r
<1>3. CASE fin /\ s.nxt # Len(s.tx)
  <2>1. r = Acknowledge(GotFin(s, "CloseWait"), ok)
    BY <1>1, <1>3
  <2>2. AnswersFin(s, r, ok) /\ r \in Results /\ Indexed(r.s)
    BY <2>1, StatesOf, AcksFin
  <2> QED BY <1>3, <2>2 DEF Streams, r
<1>4. CASE ~fin
  <2>1. r = TCPProcessTxSocketBuffers(s, clk, ok)
    BY <1>1, <1>4
  <2>2. IsProcessedTx(s, r, ok)
    BY <2>1, ProcessesTx DEF Indexed
  <2>3. Indexed(r.s)
    BY <2>2, StreamIndexed
  <2>4. SendsStream(s, r, ok) /\ r \in Results
    BY <2>2 DEF SendsStream, IsProcessedTx, Streaming
  <2> QED BY <2>3, <2>4 DEF Streams, r
<1> QED BY <1>2, <1>3, <1>4

LEMMA Switches ==
  ASSUME NEW s \in Sockets, Indexed(s), NEW g, NEW clk \in Timers, NEW ok \in BOOLEAN
  PROVE  IsSwitched(s, g, Switch(s, g, clk, ok), ok)
<1> DEFINE r    == Switch(s, g, clk, ok)
           here == GotSegment(g)
           fin  == here /\ g.fin
           caughtUp == s.una = s.nxt
<1>1. r = CASE s.st = "Listen" /\ here ->
                TCPTransmit([s EXCEPT !.st = "SynReceivedWhileListening"], Syn, 1, TRUE, <<>>, ok)
            [] s.st = "SynSent" /\ here /\ g.syn -> Acknowledge([s EXCEPT !.st = "SynReceived"], ok)
            [] s.st \in SynStates \ {"SynSent"} /\ s.una >= s.nxt ->
                Established(Establish(s), g, clk, ok)
            [] s.st = "Established" -> Established(s, g, clk, ok)
            [] s.st = "CloseWait" -> TCPFlushSocketAndFIN(s, "LastAck", clk, ok)
            [] s.st = "LastAck" /\ here /\ caughtUp -> Result([s EXCEPT !.st = "WaitUserClose"], <<>>)
            [] s.st = "FinWait1" /\ fin -> Acknowledge(GotFin(s, "CloseWait"), ok)
            [] s.st = "FinWait1" /\ ~fin -> TCPFlushSocketAndFIN(s, "FinWait2", clk, ok)
            [] s.st = "FinWait2" /\ fin ->
                Acknowledge(GotFin(s, IF caughtUp THEN "WaitUserClose" ELSE "LastAck"), ok)
            [] s.st = "FinWait2" /\ here /\ ~fin /\ caughtUp -> Result([s EXCEPT !.st = "Closing"], <<>>)
            [] s.st = "Closing" /\ fin -> Acknowledge(GotFin(s, "WaitUserClose"), ok)
            [] s.st = "WaitUserClose" /\ ~s.open -> Result([s EXCEPT !.st = "Closed"], <<>>)
            [] s.st = "Closed" -> Result(TCPResetSocket(s), <<>>)
            [] OTHER -> Result(s, <<>>)
  BY DEF Switch, GotSegment
<1> HIDE DEF r
<1>2. ASSUME NEW next \in TcpStates, r = Result([s EXCEPT !.st = next], <<>>),
             \/ s.st = "LastAck" /\ s.una = s.nxt /\ next = "WaitUserClose"
             \/ s.st = "FinWait2" /\ s.una = s.nxt /\ next = "Closing"
             \/ s.st = "WaitUserClose" /\ next = "Closed"
      PROVE  IsSwitched(s, g, r, ok)
  <2> DEFINE m == [s EXCEPT !.st = next]
  <2>1. Moves(s, m, next)
    BY Moved
  <2> HIDE DEF m
  <2>2. next \notin SynStates \cup {"Unassigned", "Established", "Listen"} \cup Streaming
    BY <1>2 DEF SynStates, Streaming
  <2>3. m \in Sockets /\ Indexed(m)
    BY <2>1, <2>2, MovedIndexed
  <2>4. r \in Results /\ r.s = m /\ r.out = <<>>
    BY <1>2, <2>3, ResultType DEF m
  <2>5. Finishes(s, r)
    BY <1>2, <2>1, <2>4 DEF Finishes
  <2> QED BY <2>3, <2>4, <2>5 DEF IsSwitched
<1>3. CASE s.st = "Listen" /\ here
  <2> DEFINE m == [s EXCEPT !.st = "SynReceivedWhileListening"]
  <2>1. Moves(s, m, "SynReceivedWhileListening")
    BY StatesOf, Moved
  <2>2. r = TCPTransmit(m, Syn, 1, TRUE, <<>>, ok)
    BY <1>1, <1>3 DEF SynStates
  <2> HIDE DEF m
  <2>3. "SynReceivedWhileListening" \notin {"Unassigned", "Established", "Listen"} \cup Streaming
    BY DEF Streaming
  <2>4. m \in Sockets /\ Indexed(m)
    BY <1>3, <2>1, <2>3, StatesOf, MovedIndexed
  <2>5. MaySend(m, 1)
    <3>1. s.nxt <= Len(s.tx)
      BY <1>3, StreamSizes DEF Indexed
    <3> QED BY <2>1, <2>3, <3>1 DEF MaySend, Moves, KeepsSend, KeepsSent
  <2>6. IsSent(m, r, Syn, 1, TRUE, ok)
    <3>1. Syn \in Headers /\ 1 \in 0 .. 1 /\ TRUE \in BOOLEAN
      BY HeadersOf
    <3>2. IsSent(m, TCPTransmit(m, Syn, 1, TRUE, <<>>, ok), Syn, 1, TRUE, ok)
      BY <2>4, <2>5, <3>1, SendsEmpty, Zenon
    <3> QED BY <2>2, <3>2, Zenon
  <2>7. AnswersSyn(s, g, r, ok)
    BY <1>3, <2>1, <2>4, <2>6 DEF AnswersSyn
  <2>8. r \in Results /\ Indexed(r.s)
    BY <2>6 DEF IsSent
  <2> QED BY <2>7, <2>8 DEF IsSwitched, r
<1>4. CASE s.st = "SynSent" /\ here /\ g.syn
  <2> DEFINE m == [s EXCEPT !.st = "SynReceived"]
  <2>1. Moves(s, m, "SynReceived")
    BY StatesOf, Moved
  <2>2. r = Acknowledge(m, ok)
    BY <1>1, <1>4
  <2> HIDE DEF m
  <2>3. "SynReceived" \notin {"Unassigned", "Established", "Listen"} \cup Streaming
        /\ s.st \in SynStates
    BY <1>4 DEF Streaming, SynStates
  <2>4. m \in Sockets /\ Indexed(m)
    BY <2>1, <2>3, StatesOf, MovedIndexed
  <2>5. IsSent(m, r, Header, 0, TRUE, ok)
    BY <2>2, <2>4, AcksEmpty
  <2>6. AnswersSyn(s, g, r, ok)
    BY <1>4, <2>1, <2>4, <2>5 DEF AnswersSyn
  <2>7. r \in Results /\ Indexed(r.s)
    BY <2>5 DEF IsSent
  <2> QED BY <2>6, <2>7 DEF IsSwitched, r
<1>5. CASE s.st \in SynStates \ {"SynSent"} /\ s.una >= s.nxt
  <2> DEFINE m == Establish(s)
  <2>1. Establishes(s, m)
    BY Establish_ DEF Indexed
  <2>2. r = Established(m, g, clk, ok)
    BY <1>1, <1>5 DEF SynStates
  <2> HIDE DEF m
  <2>3. m \in Sockets /\ Indexed(m) /\ m.st = "Established"
    BY <2>1 DEF Establishes
  <2>4. Streams(m, g, r, ok) /\ r \in Results /\ Indexed(r.s)
    BY <2>2, <2>3, EstablishedStreams
  <2>5. Starts(s, g, r, ok)
    BY <1>5, <2>1, <2>3, <2>4 DEF Starts
  <2> QED BY <2>4, <2>5 DEF IsSwitched, r
<1>6. CASE s.st = "Established"
  <2>1. r = Established(s, g, clk, ok)
    BY <1>1, <1>6 DEF SynStates
  <2>2. Streams(s, g, r, ok) /\ r \in Results /\ Indexed(r.s)
    BY <1>6, <2>1, EstablishedStreams
  <2> QED BY <2>2 DEF IsSwitched, r
<1>7. CASE s.st = "CloseWait"
  <2>1. r = TCPFlushSocketAndFIN(s, "LastAck", clk, ok)
    BY <1>1, <1>7 DEF SynStates
  <2>2. (SendsFin(s, r, ok) \/ SendsStream(s, r, ok)) /\ r \in Results /\ Indexed(r.s)
    BY <1>7, <2>1, StatesOf, FlushesAndFINs
  <2> QED BY <2>2 DEF IsSwitched, Streams, r
<1>8. CASE s.st = "LastAck" /\ here /\ caughtUp
  <2>1. r = Result([s EXCEPT !.st = "WaitUserClose"], <<>>)
    BY <1>1, <1>8 DEF SynStates
  <2> QED BY <1>2, <1>8, <2>1, StatesOf DEF r
<1>9. CASE s.st = "FinWait1" /\ fin
  <2>1. r = Acknowledge(GotFin(s, "CloseWait"), ok)
    BY <1>1, <1>9 DEF SynStates
  <2>2. AnswersFin(s, r, ok) /\ r \in Results /\ Indexed(r.s)
    BY <1>9, <2>1, StatesOf, AcksFin
  <2> QED BY <1>9, <2>2 DEF IsSwitched, Streams, r
<1>10. CASE s.st = "FinWait1" /\ ~fin
  <2>1. r = TCPFlushSocketAndFIN(s, "FinWait2", clk, ok)
    BY <1>1, <1>10 DEF SynStates
  <2>2. (SendsFin(s, r, ok) \/ SendsStream(s, r, ok)) /\ r \in Results /\ Indexed(r.s)
    BY <1>10, <2>1, StatesOf, FlushesAndFINs
  <2> QED BY <2>2 DEF IsSwitched, Streams, r
<1>11. CASE s.st = "FinWait2" /\ fin
  <2> DEFINE next == IF caughtUp THEN "WaitUserClose" ELSE "LastAck"
  <2>1. r = Acknowledge(GotFin(s, next), ok)
    BY <1>1, <1>11 DEF SynStates
  <2>2. next \in TcpStates /\ (next = "LastAck" \/ (caughtUp /\ next = "WaitUserClose"))
    BY StatesOf
  <2> HIDE DEF next
  <2>3. AnswersFin(s, r, ok) /\ r \in Results /\ Indexed(r.s)
    BY <1>11, <2>1, <2>2, AcksFin
  <2> QED BY <1>11, <2>3 DEF IsSwitched, Streams, r
<1>12. CASE s.st = "FinWait2" /\ here /\ ~fin /\ caughtUp
  <2>1. r = Result([s EXCEPT !.st = "Closing"], <<>>)
    BY <1>1, <1>12 DEF SynStates
  <2> QED BY <1>2, <1>12, <2>1, StatesOf DEF r
<1>13. CASE s.st = "Closing" /\ fin
  <2>1. r = Acknowledge(GotFin(s, "WaitUserClose"), ok)
    BY <1>1, <1>13 DEF SynStates
  <2>2. AnswersFin(s, r, ok) /\ r \in Results /\ Indexed(r.s)
    BY <1>13, <2>1, StatesOf, AcksFin
  <2> QED BY <1>13, <2>2 DEF IsSwitched, Streams, r
<1>14. CASE s.st = "WaitUserClose" /\ ~s.open
  <2>1. r = Result([s EXCEPT !.st = "Closed"], <<>>)
    BY <1>1, <1>14 DEF SynStates
  <2> QED BY <1>2, <1>14, <2>1, StatesOf DEF r
<1>15. CASE s.st = "Closed"
  <2>1. r = Result(TCPResetSocket(s), <<>>)
    BY <1>1, <1>15 DEF SynStates
  <2> DEFINE t == TCPResetSocket(s)
  <2>2. IsReset(s, t)
    BY Resets
  <2> HIDE DEF t
  <2>3. t \in Sockets /\ Indexed(t)
    BY <2>2, ResetIndexed DEF Indexed
  <2>4. r \in Results /\ r.s = t /\ r.out = <<>>
    BY <2>1, <2>3, ResultType DEF t
  <2> QED BY <1>15, <2>2, <2>3, <2>4 DEF IsSwitched, Frees, r
<1>16. CASE r = Result(s, <<>>) /\ ~Shaken(s)
  <2>1. r \in Results /\ r.s = s /\ r.out = <<>>
    BY <1>16, ResultType
  <2> QED BY <1>16, <2>1 DEF IsSwitched, Stays, r
<1>17. Shaken(s) <=> s.st \in SynStates \ {"SynSent"} /\ s.una >= s.nxt
  BY DEF Shaken
<1> QED
  BY <1>1, <1>3, <1>4, <1>5, <1>6, <1>7, <1>8, <1>9, <1>10, <1>11, <1>12, <1>13, <1>14,
     <1>15, <1>16, <1>17

-----------------------------------------------------------------------------
(* Retransmission, and the whole pass.                                     *)

\* A SYN that was not acknowledged is sent again.
Resends(s, r, ok) ==
  /\ r.s.st = s.st /\ KeepsSent(s, r.s) /\ KeepsReceive(s, r.s) /\ r.s.nxt = 1
  /\ \E m \in Sockets : 
        /\ Fits(m) /\ m.nxt = s.una /\ KeepsSent(s, m) /\ KeepsReceive(s, m)
        /\ r.out = IF ok THEN <<Segment(m, Syn, s.st # "SynSent", <<>>)>> ELSE <<>>

LEMMA ResendsSyn ==
  ASSUME NEW s \in Sockets, Indexed(s), s.una < s.nxt, s.st \in SynStates, NEW ok \in BOOLEAN
  PROVE  LET r == ResendSyn(s, ok)
         IN  Resends(s, r, ok) /\ r \in Results /\ Indexed(r.s)
<1> DEFINE m    == BackOff(s)
           fAck == s.st # "SynSent"
           q    == TCPTransmit(m, Syn, 1, fAck, <<>>, ok)
           t    == [q.s EXCEPT !.nxt = 1]
           r    == ResendSyn(s, ok)
<1>1. BacksOff(s, m)
  BY BackOff_
<1>2. r = Result(t, q.out)
  BY DEF ResendSyn
<1> HIDE DEF m
<1>3. m \in Sockets /\ Indexed(m) /\ m.st = s.st
  BY <1>1, BackOffIndexed DEF BacksOff, SynStates
<1>4. s.tx = <<>> /\ m.tx = <<>> /\ m.nxt = s.una /\ KeepsSent(s, m) /\ KeepsReceive(s, m)
  BY <1>1 DEF BacksOff, KeepsSent, Indexed
<1>5. s.una = 0 /\ s.nxt = 1
  <2>1. s.una \in Nat /\ s.nxt \in Nat /\ s.nxt <= Len(s.tx) + 1 /\ Len(s.tx) = 0
    BY <1>4, SocketFields DEF SocketTyped, Indexed
  <2> QED BY <2>1
<1>6. IsSent(m, q, Syn, 1, fAck, ok)
  <2>1. Syn \in Headers /\ 1 \in 0 .. 1 /\ fAck \in BOOLEAN
    BY HeadersOf
  <2>2. MaySend(m, 1)
    <3>1. Len(m.tx) = 0
      BY <1>4
    <3> QED BY <1>3, <1>4, <1>5, <3>1 DEF MaySend, SynStates, Streaming
  <2> HIDE DEF fAck
  <2> QED BY <1>3, <2>1, <2>2, SendsEmpty
<1> HIDE DEF q
<1>7. /\ q.out \in Seq(Segments) /\ q.s \in Sockets /\ Indexed(q.s) /\ q.s.st = s.st
      /\ KeepsSent(m, q.s) /\ KeepsReceive(m, q.s)
      /\ q.out = IF ok THEN <<Segment(m, Syn, fAck, <<>>)>> ELSE <<>>
  BY <1>3, <1>6 DEF IsSent, Results
<1>8. 1 \in Seqs
  BY Sizes DEF Seqs
<1>9. t \in Sockets /\ t.st = s.st /\ KeepsSent(q.s, t) /\ KeepsReceive(q.s, t) /\ t.nxt = 1
  BY <1>7, <1>8 DEF Sockets, KeepsSent, KeepsReceive
<1> HIDE DEF t
<1>10. KeepsSent(s, t) /\ KeepsReceive(s, t)
  BY <1>4, <1>7, <1>9 DEF KeepsSent, KeepsReceive
<1>11. Indexed(t)
  <2>1. Fits(t)
    BY <1>10 DEF Indexed, Fits, KeepsSent, KeepsReceive
  <2>2. t.una = 0 /\ Len(t.tx) = 0 /\ t.tx = <<>>
    BY <1>4, <1>5, <1>10 DEF KeepsSent
  <2>3. t.st \notin Streaming \cup {"Listen", "Established"}
    BY <1>9 DEF SynStates, Streaming
  <2> QED BY <1>9, <2>1, <2>2, <2>3 DEF Indexed, Ordered
<1>12. r.s = t /\ r.out = q.out /\ r \in Results
  BY <1>2, <1>7, <1>9 DEF Result, Results
<1> HIDE DEF r
<1>13. Resends(s, r, ok)
  BY <1>3, <1>4, <1>7, <1>9, <1>10, <1>12 DEF Resends, Indexed, fAck
<1> QED BY <1>11, <1>12, <1>13 DEF r

\* A connection that is given up: a reset goes out, and the socket is reset.
IsRst(s, g) ==
  /\ g \in Segments /\ ~g.syn /\ ~g.fin /\ g.rst /\ g.data = <<>>
  /\ g.ackNbr = Norm(s.irs + s.rcv)
GivesUp(s, r) ==
  /\ IsReset(s, r.s)
  /\ r.out = <<>> \/ \E g \in Segments : r.out = <<g>> /\ IsRst(s, g)

LEMMA GiveUp_ ==
  ASSUME NEW s \in Sockets, Fits(s), NEW ok \in BOOLEAN
  PROVE  LET r == GiveUp(s, ok)
         IN  GivesUp(s, r) /\ r \in Results /\ Indexed(r.s)
<1> DEFINE m == [s EXCEPT !.nxt = s.una]
           q == TCPTransmit(m, Rst, 0, TRUE, <<>>, ok)
           t == TCPResetSocket(q.s)
           r == GiveUp(s, ok)
           g == Segment(m, Rst, TRUE, <<>>)
<1>1. r = Result(t, q.out)
  BY DEF GiveUp
<1>2. m \in Sockets /\ m.st = s.st /\ KeepsSent(s, m) /\ KeepsReceive(s, m)
  <2>1. s.una \in Seqs
    BY SocketFields DEF SocketTyped
  <2> QED BY <2>1 DEF Sockets, KeepsSent, KeepsReceive
<1> HIDE DEF m
<1>3. Fits(m)
  BY <1>2 DEF Fits, KeepsSent, KeepsReceive
<1>4. Rst \in Headers /\ 0 \in Nat /\ TRUE \in BOOLEAN /\ <<>> \in Seq(Bytes)
  BY HeadersOf
<1>5. Sends(m, q, Rst, 0, TRUE, <<>>, ok)
  BY <1>2, <1>3, <1>4, Transmits, Zenon
<1>6. IsSegment(g, m, Rst, TRUE, <<>>)
  BY <1>2, <1>3, <1>4, SegmentType, Zenon
<1> HIDE DEF q
<1>7. /\ q.s \in Sockets /\ q.s.st = m.st /\ KeepsSent(m, q.s) /\ KeepsReceive(m, q.s)
      /\ q.out \in Seq(Segments) /\ q.out = IF ok THEN <<g>> ELSE <<>>
  BY <1>5 DEF Sends, Results
<1>8. IsReset(q.s, t)
  BY <1>7, Resets
<1> HIDE DEF t, g
<1>9. IsReset(s, t)
  BY <1>2, <1>7, <1>8 DEF IsReset, KeepsSent, KeepsReceive
<1>10. t \in Sockets /\ Indexed(t)
  BY <1>9, ResetIndexed
<1>11. r.s = t /\ r.out = q.out /\ r \in Results
  BY <1>1, <1>7, <1>10 DEF Result, Results
<1> HIDE DEF r
<1>12. IsRst(s, g)
  <2>1. ~Rst.syn /\ ~Rst.fin /\ Rst.rst
    BY HeaderFields
  <2> QED BY <1>2, <1>6, <2>1 DEF IsSegment, IsRst, KeepsReceive
<1>13. g \in Segments
  BY <1>12 DEF IsRst
<1>14. GivesUp(s, r)
  BY <1>7, <1>9, <1>11, <1>12, <1>13 DEF GivesUp
<1> QED BY <1>10, <1>11, <1>14 DEF r

\* What a pass does after the segment, if there is one, has been processed.
BacksOffAndSwitches(s, g, r, ok) ==
  \E m \in Sockets : /\ s.una < s.nxt /\ s.st \notin SynStates
                     /\ BacksOff(s, m) /\ Indexed(m) /\ IsSwitched(m, g, r, ok)
IsRetransmitted(s, g, r, ok) ==
  /\ r \in Results /\ Indexed(r.s)
  /\ \/ (s.una < s.nxt \/ s.st = "Closing") /\ GivesUp(s, r)
     \/ s.una < s.nxt /\ s.st \in SynStates /\ Resends(s, r, ok)
     \/ BacksOffAndSwitches(s, g, r, ok)
     \/ IsSwitched(s, g, r, ok)

LEMMA Retransmits ==
  ASSUME NEW s \in Sockets, Indexed(s), NEW g, NEW clk \in Timers, NEW ok \in BOOLEAN
  PROVE  IsRetransmitted(s, g, TCPCheckForReTransmit(s, g, clk, ok), ok)
<1> DEFINE r == TCPCheckForReTransmit(s, g, clk, ok)
           waiting == s.una < s.nxt
<1>1. r = CASE waiting /\ s.old -> GiveUp(s, ok)
            [] waiting /\ ~s.old /\ clk.rto /\ s.st \in SynStates -> ResendSyn(s, ok)
            [] waiting /\ ~s.old /\ clk.rto /\ s.st \notin SynStates -> Switch(BackOff(s), g, clk, ok)
            [] ~waiting /\ s.retr = 0 /\ s.st = "Closing" /\ clk.rto -> GiveUp(s, ok)
            [] OTHER -> Switch(s, g, clk, ok)
  BY DEF TCPCheckForReTransmit
<1>2. Fits(s)
  BY DEF Indexed
<1> HIDE DEF r
<1>3. CASE r = GiveUp(s, ok) /\ (waiting \/ s.st = "Closing")
  <2>1. GivesUp(s, r) /\ r \in Results /\ Indexed(r.s)
    BY <1>2, <1>3, GiveUp_
  <2> QED BY <1>3, <2>1 DEF IsRetransmitted, r
<1>4. CASE r = ResendSyn(s, ok) /\ waiting /\ s.st \in SynStates
  <2>1. Resends(s, r, ok) /\ r \in Results /\ Indexed(r.s)
    BY <1>4, ResendsSyn
  <2> QED BY <1>4, <2>1 DEF IsRetransmitted, r
<1>5. CASE r = Switch(BackOff(s), g, clk, ok) /\ waiting /\ s.st \notin SynStates
  <2> DEFINE m == BackOff(s)
  <2>1. BacksOff(s, m)
    BY BackOff_
  <2>2. r = Switch(m, g, clk, ok)
    BY <1>5
  <2> HIDE DEF m
  <2>3. m \in Sockets /\ Indexed(m)
    BY <1>5, <2>1, BackOffIndexed DEF BacksOff
  <2>4. IsSwitched(m, g, r, ok)
    BY <2>2, <2>3, Switches
  <2>5. r \in Results /\ Indexed(r.s)
    BY <2>4 DEF IsSwitched
  <2>6. BacksOffAndSwitches(s, g, r, ok)
    BY <1>5, <2>1, <2>3, <2>4 DEF BacksOffAndSwitches
  <2> QED BY <2>5, <2>6 DEF IsRetransmitted, r
<1>6. CASE r = Switch(s, g, clk, ok)
  <2>1. IsSwitched(s, g, r, ok)
    BY <1>6, Switches
  <2>2. r \in Results /\ Indexed(r.s)
    BY <2>1 DEF IsSwitched
  <2> QED BY <2>1, <2>2 DEF IsRetransmitted, r
<1> QED BY <1>1, <1>3, <1>4, <1>5, <1>6

LEMMA NotASegment == NoSegment \notin Segments
<1>1. SUFFICES ASSUME NoSegment \in Segments PROVE FALSE
  OBVIOUS
<1>2. "syn" \in DOMAIN NoSegment
  BY <1>1 DEF Segments
<1>3. DOMAIN NoSegment = {"none"}
  BY DEF NoSegment
<1> QED BY <1>2, <1>3

\* The segments that a socket processes.
AckInRange(s, g) == 0 < AckNbrOf(s, g) /\ AckNbrOf(s, g) <= s.nxt
MayProcess(s, g) ==
  /\ ~g.rst
  /\ \/ s.st = "Listen" /\ ~g.ack
     \/ s.st = "SynSent"
     \/ s.st \in Windowed /\ InWindow(s, g)
  /\ s.st \in SynStates /\ g.ack => AckInRange(s, g)

Processes(s, g, r, ok) ==
  /\ s \in Sockets /\ Indexed(s)
  /\ \/ Stays(s, r)
     \/ Frees(s, r)
     \/ g.ack /\ r.s = s /\ r.out = RstTo(g)
     \/ s.st \in Windowed /\ IsSent(s, r, Header, 0, TRUE, ok)
     \/ MayProcess(s, g) /\ IsRetransmitted(Load(s, g), g, r, ok)
IsProcessed(s, g, r, ok) ==
  /\ r \in Results /\ Indexed(r.s)
  /\ \E t \in Sockets : IsAcked(s, g, t) /\ Processes(t, g, r, ok)

LEMMA Verdicts ==
  ASSUME NEW s \in Sockets, NEW g \in Segments
  PROVE  LET v == TCPCheckForRST(s, g)
         IN  /\ v \in {"drop", "reset", "rst", "ack", "process"}
             /\ v = "process" => MayProcess(s, g)
             /\ v = "rst" => g.ack
             /\ v = "ack" => s.st \in Windowed
<1> DEFINE v == TCPCheckForRST(s, g)
           inRange == AckInRange(s, g)
           opening == s.st \in SynStates
<1>0. g.rst \in BOOLEAN /\ g.ack \in BOOLEAN /\ inRange \in BOOLEAN
  BY SegmentFields DEF SegmentTyped, AckInRange
<1>1. v = CASE s.st = "Listen" -> IF g.rst THEN "drop"
                                  ELSE IF g.ack THEN "rst" ELSE "process"
            [] opening /\ g.ack /\ ~inRange -> IF g.rst THEN "drop" ELSE "rst"
            [] opening /\ g.ack /\ inRange /\ g.rst -> "reset"
            [] opening /\ ~g.ack /\ g.rst -> IF SeqNbrOf(s, g) = s.rcv THEN "reset" ELSE "drop"
            [] s.st = "SynSent" /\ ~g.rst /\ (g.ack => inRange) -> "process"
            [] OTHER -> IF s.st \notin Windowed THEN "drop"
                        ELSE IF InWindow(s, g) THEN IF g.rst THEN "reset" ELSE "process"
                        ELSE IF g.rst THEN "drop" ELSE "ack"
  BY DEF TCPCheckForRST, AckInRange
<1> HIDE DEF v, inRange
<1>2. "Listen" \notin SynStates /\ "SynSent" \in SynStates
  BY DEF SynStates
<1>3. v \in {"drop", "reset", "rst", "ack", "process"}
  BY <1>0, <1>1
<1>4. v = "process" => MayProcess(s, g)
  <2> HAVE v = "process"
  <2>1. ~g.rst /\ (opening /\ g.ack => inRange)
    BY <1>0, <1>1, <1>2
  <2>2. \/ s.st = "Listen" /\ ~g.ack
        \/ s.st = "SynSent"
        \/ s.st \in Windowed /\ InWindow(s, g)
    BY <1>0, <1>1, <1>2
  <2> QED BY <2>1, <2>2 DEF MayProcess, inRange
<1>5. v = "rst" => g.ack
  BY <1>0, <1>1, <1>2
<1>6. v = "ack" => s.st \in Windowed
  BY <1>0, <1>1, <1>2
<1> QED BY <1>3, <1>4, <1>5, <1>6 DEF v

LEMMA StateMachines ==
  ASSUME NEW s \in Sockets, Indexed(s), NEW clk \in Timers, NEW ok \in BOOLEAN
  PROVE  /\ IsRetransmitted(s, NoSegment, TCPStateMachine(s, NoSegment, clk, ok), ok)
         /\ \A g \in Segments : IsProcessed(s, g, TCPStateMachine(s, g, clk, ok), ok)
<1>1. IsRetransmitted(s, NoSegment, TCPStateMachine(s, NoSegment, clk, ok), ok)
  <2>1. TCPStateMachine(s, NoSegment, clk, ok) = TCPCheckForReTransmit(s, NoSegment, clk, ok)
    BY DEF TCPStateMachine
  <2> QED BY <2>1, Retransmits
<1>2. ASSUME NEW g \in Segments
      PROVE  IsProcessed(s, g, TCPStateMachine(s, g, clk, ok), ok)
  <2> DEFINE r == TCPStateMachine(s, g, clk, ok)
             t == TCPProcessACK(s, g)
             v == TCPCheckForRST(t, g)
             u == Load(t, g)
  <2>1. r = CASE v = "drop"  -> Result(t, <<>>)
              [] v = "reset" -> Result(TCPResetSocket(t), <<>>)
              [] v = "rst"   -> Result(t, RstTo(g))
              [] v = "ack"   -> Acknowledge(t, ok)
              [] v = "process" -> TCPCheckForReTransmit(u, g, clk, ok)
    BY NotASegment DEF TCPStateMachine, Load
  <2>2. IsAcked(s, g, t) /\ Indexed(t)
    BY Acks, AcksIndexed
  <2> HIDE DEF t
  <2>3. t \in Sockets
    BY <2>2 DEF IsAcked
  <2>4. /\ v \in {"drop", "reset", "rst", "ack", "process"}
        /\ v = "process" => MayProcess(t, g)
        /\ v = "rst" => g.ack
        /\ v = "ack" => t.st \in Windowed
    BY <2>3, Verdicts
  <2> HIDE DEF v, u, r
  <2>5. SUFFICES r \in Results /\ Indexed(r.s) /\ Processes(t, g, r, ok)
    BY <2>2, <2>3 DEF IsProcessed, r
  <2>6. CASE v = "drop"
    <3>1. r = Result(t, <<>>)
      BY <2>1, <2>6
    <3> QED BY <2>2, <2>3, <3>1, ResultType DEF Processes, Stays
  <2>7. CASE v = "reset"
    <3> DEFINE w == TCPResetSocket(t)
    <3>1. r = Result(w, <<>>)
      BY <2>1, <2>7
    <3>2. IsReset(t, w)
      BY <2>3, Resets
    <3> HIDE DEF w
    <3>3. w \in Sockets /\ Indexed(w)
      BY <2>2, <2>3, <3>2, ResetIndexed DEF Indexed
    <3>4. r \in Results /\ r.s = w /\ r.out = <<>>
      BY <3>1, <3>3, ResultType
    <3>5. Frees(t, r)
      BY <3>2, <3>4 DEF Frees
    <3> QED BY <2>2, <2>3, <3>3, <3>4, <3>5 DEF Processes
  <2>8. CASE v = "rst"
    <3> DEFINE out == RstTo(g)
    <3>1. r = Result(t, out)
      BY <2>1, <2>8
    <3>2. out \in Seq(Segments)
      BY ResetsTo
    <3> HIDE DEF out
    <3>3. r \in Results /\ r.s = t /\ r.out = out
      BY <2>3, <3>1, <3>2 DEF Result, Results
    <3> QED BY <2>2, <2>3, <2>4, <2>8, <3>3 DEF Processes, out
  <2>9. CASE v = "ack"
    <3>1. r = Acknowledge(t, ok)
      BY <2>1, <2>9
    <3>2. IsSent(t, r, Header, 0, TRUE, ok)
      BY <2>2, <2>3, <3>1, AcksEmpty
    <3>3. r \in Results /\ Indexed(r.s)
      BY <3>2 DEF IsSent
    <3> QED BY <2>2, <2>3, <2>4, <2>9, <3>2, <3>3 DEF Processes
  <2>10. CASE v = "process"
    <3>1. r = TCPCheckForReTransmit(u, g, clk, ok)
      BY <2>1, <2>10
    <3>2. u \in Sockets /\ Indexed(u)
      BY <2>2, <2>3, LoadIndexed DEF u
    <3>3. IsRetransmitted(u, g, r, ok)
      BY <3>1, <3>2, Retransmits
    <3>4. r \in Results /\ Indexed(r.s)
      BY <3>3 DEF IsRetransmitted
    <3> QED BY <2>2, <2>3, <2>4, <2>10, <3>3, <3>4 DEF Processes, u
  <2> QED BY <2>4, <2>6, <2>7, <2>8, <2>9, <2>10
<1> QED BY <1>1, <1>2

IsUnclaimed(s, g, r) ==
  ~HasSocket(s, g) /\ r.s = s /\ (r.out = <<>> \/ (~g.rst /\ r.out = RstTo(g)))

LEMMA Claims ==
  ASSUME NEW s \in Sockets, Indexed(s), NEW g \in Segments, NEW clk \in Timers,
         NEW ok \in BOOLEAN
  PROVE  LET r == TCPProcess(s, g, clk, ok)
         IN  /\ (HasSocket(s, g) /\ IsProcessed(s, g, r, ok)) \/ IsUnclaimed(s, g, r)
             /\ r \in Results /\ Indexed(r.s)
<1> DEFINE r == TCPProcess(s, g, clk, ok)
<1>1. CASE HasSocket(s, g)
  <2>1. r = TCPStateMachine(s, g, clk, ok)
    BY <1>1 DEF TCPProcess
  <2> HIDE DEF r
  <2>2. IsProcessed(s, g, r, ok)
    BY <2>1, StateMachines
  <2>3. r \in Results /\ Indexed(r.s)
    BY <2>2 DEF IsProcessed
  <2> QED BY <1>1, <2>2, <2>3 DEF r
<1>2. CASE ~HasSocket(s, g)
  <2> DEFINE out == IF g.rst THEN <<>> ELSE RstTo(g)
  <2>1. r = Result(s, out)
    BY <1>2 DEF TCPProcess
  <2>2. out \in Seq(Segments) /\ (out = <<>> \/ (~g.rst /\ out = RstTo(g)))
    BY ResetsTo
  <2> HIDE DEF out, r
  <2>3. r \in Results /\ r.s = s /\ r.out = out
    BY <2>1, <2>2 DEF Result, Results
  <2>4. IsUnclaimed(s, g, r)
    BY <1>2, <2>2, <2>3 DEF IsUnclaimed
  <2> QED BY <2>3, <2>4 DEF r
<1> QED BY <1>1, <1>2

-----------------------------------------------------------------------------
(* The calls of the application.                                           *)

LEMMA FreshIndexed == Indexed(Fresh)
<1>1. Len(Fresh.tx) = 0 /\ Len(Fresh.rx) = 0
  BY FreshType
<1> QED BY <1>1, FreshType, Sizes DEF Indexed, Fits, Ordered, Streaming

\* A connection that is opened: its SYN goes out.
IsOpened(iss, r, ok) ==
  \E m \in Sockets :
     /\ m.st = "SynSent" /\ m.iss = iss /\ m.una = 0 /\ m.nxt = 0 /\ m.tx = <<>>
     /\ m.rx = <<>> /\ m.rcv = 0 /\ ~m.gotFin /\ ~m.probe /\ Indexed(m)
     /\ IsSent(m, r, Syn, 1, FALSE, ok)

LEMMA Opens ==
  ASSUME NEW iss \in Seqs, NEW ok \in BOOLEAN
  PROVE  LET r == TCPOpen(iss, ok)
         IN  IsOpened(iss, r, ok) /\ r \in Results /\ Indexed(r.s)
<1> DEFINE m == [Fresh EXCEPT !.st = "SynSent", !.iss = iss, !.open = TRUE]
           r == TCPOpen(iss, ok)
<1>1. r = TCPTransmit(m, Syn, 1, FALSE, <<>>, ok)
  BY DEF TCPOpen
<1>2. m \in Sockets
  BY FreshType, StatesOf DEF Sockets
<1>3. /\ m.st = "SynSent" /\ m.iss = iss /\ m.una = 0 /\ m.nxt = 0 /\ m.tx = <<>>
      /\ m.rx = <<>> /\ m.rcv = 0 /\ ~m.gotFin /\ ~m.probe
  BY FreshType DEF Sockets
<1> HIDE DEF m, r
<1>4. Len(m.tx) = 0 /\ Len(m.rx) = 0
  BY <1>3
<1>5. Indexed(m)
  BY <1>3, <1>4, Sizes DEF Indexed, Fits, Ordered, Streaming
<1>6. Syn \in Headers /\ 1 \in 0 .. 1 /\ FALSE \in BOOLEAN /\ MaySend(m, 1)
  BY <1>3, <1>4, HeadersOf DEF MaySend, Streaming
<1>7. IsSent(m, TCPTransmit(m, Syn, 1, FALSE, <<>>, ok), Syn, 1, FALSE, ok)
  BY <1>2, <1>5, <1>6, SendsEmpty, Zenon
<1>8. IsSent(m, r, Syn, 1, FALSE, ok)
  BY <1>1, <1>7, Zenon
<1>9. IsOpened(iss, r, ok)
  BY <1>2, <1>3, <1>5, <1>8 DEF IsOpened
<1>10. r \in Results /\ Indexed(r.s)
  BY <1>8 DEF IsSent
<1> QED BY <1>9, <1>10 DEF r

LEMMA ListenType ==
  ASSUME NEW iss \in Seqs
  PROVE  LET s == TCPListen(iss)
         IN  /\ s \in Sockets /\ Indexed(s) /\ s.st = "Listen" /\ s.iss = iss /\ s.una = 0
             /\ s.nxt = 0 /\ s.tx = <<>> /\ s.rx = <<>> /\ s.rcv = 0 /\ ~s.gotFin /\ ~s.probe
<1> DEFINE s == TCPListen(iss)
<1>1. s = [Fresh EXCEPT !.st = "Listen", !.iss = iss, !.open = TRUE]
  BY DEF TCPListen
<1> HIDE DEF s
<1>2. s \in Sockets
  BY <1>1, FreshType, StatesOf DEF Sockets
<1>3. /\ s.st = "Listen" /\ s.iss = iss /\ s.una = 0 /\ s.nxt = 0 /\ s.tx = <<>>
      /\ s.rx = <<>> /\ s.rcv = 0 /\ ~s.gotFin /\ ~s.probe
  BY <1>1, FreshType DEF Sockets
<1>4. Len(s.tx) = 0 /\ Len(s.rx) = 0
  BY <1>3
<1>5. Indexed(s)
  BY <1>3, <1>4, Sizes DEF Indexed, Fits, Ordered, Streaming
<1> QED BY <1>2, <1>3, <1>5 DEF s

\* The user has closed: nothing is written any more, and a SYN on its way is
\* forgotten.
ClosedState(s) ==
  CASE s.st = "Listen" -> "Closed"
    [] s.st = "SynSent" -> "WaitUserClose"
    [] s.st \in {"SynReceived", "SynReceivedWhileListening", "Established"} -> "FinWait1"
    [] OTHER -> s.st
IsClosed(s, t) ==
  /\ t \in Sockets /\ t.st = ClosedState(s) /\ KeepsSent(s, t) /\ KeepsReceive(s, t)
  /\ t.nxt = IF s.st \in SynStates THEN 0 ELSE s.nxt

LEMMA Closes ==
  ASSUME NEW s \in Sockets, Indexed(s)
  PROVE  IsClosed(s, TCPClose(s)) /\ Indexed(TCPClose(s))
<1> DEFINE nxt == IF s.st \in SynStates THEN Len(s.tx) ELSE s.nxt
           st  == ClosedState(s)
           t   == [s EXCEPT !.open = FALSE, !.nxt = nxt, !.st = st]
<1>0. SocketTyped(s)
  BY SocketFields
<1>1. TCPClose(s) = t
  BY DEF TCPClose, ClosedState
<1>2. s.st \in SynStates => Len(s.tx) = 0
  BY DEF Indexed
<1>3. nxt = IF s.st \in SynStates THEN 0 ELSE s.nxt
  BY <1>2
<1>4. nxt \in Seqs
  BY <1>0, <1>3, Sizes DEF SocketTyped, Seqs
<1>5. st \in TcpStates
  BY <1>0, StatesOf DEF ClosedState, SocketTyped
<1> HIDE DEF nxt, st
<1>6. t \in Sockets /\ t.st = st /\ KeepsSent(s, t) /\ KeepsReceive(s, t) /\ t.nxt = nxt
  BY <1>4, <1>5 DEF Sockets, KeepsSent, KeepsReceive
<1> HIDE DEF t
<1>7. IsClosed(s, t)
  BY <1>3, <1>6 DEF IsClosed, st
<1>8. Fits(t)
  BY <1>6 DEF Indexed, Fits, KeepsSent, KeepsReceive
<1>9. t.tx = s.tx /\ t.una = s.una /\ Len(s.tx) \in Nat
  BY <1>0, <1>6 DEF KeepsSent, SocketTyped
<1>10. CASE s.st \in SynStates
  <2>1. t.nxt = 0 /\ Len(t.tx) = 0 /\ t.tx = <<>> /\ t.st \in {"WaitUserClose", "FinWait1"}
    BY <1>2, <1>3, <1>6, <1>9, <1>10 DEF Indexed, SynStates, st, ClosedState
  <2> QED BY <1>1, <1>7, <1>8, <1>9, <1>10, <2>1 DEF Indexed, Ordered, SynStates
<1>11. CASE s.st \notin SynStates
  <2>1. t.nxt = s.nxt
    BY <1>3, <1>6, <1>11
  <2>2. t.st = "Established" => s.st = "Established"
    BY <1>6, <1>11 DEF st, ClosedState
  <2>3. t.st \in Streaming => t.nxt <= Len(t.tx)
    BY <1>6, <1>9, <1>11, <2>1 DEF st, ClosedState, Indexed, Streaming, SynStates
  <2>4. t.st \in SynStates \cup {"Listen", "Unassigned"} => s.st = "Unassigned"
    BY <1>6, <1>11 DEF st, ClosedState, SynStates
  <2>5. t.st # "Listen"
    BY <1>6, <1>11 DEF st, ClosedState
  <2> QED BY <1>1, <1>7, <1>8, <1>9, <2>1, <2>2, <2>3, <2>4, <2>5 DEF Indexed, Ordered
<1> QED BY <1>10, <1>11

\* What is written goes behind what is still to be acknowledged: y is the part
\* of the data that there is memory for.
IsWritten(s, t, data, p, y) ==
  /\ p \in Sockets /\ IsScaled(s, p) /\ t \in Sockets
  /\ t.st = p.st /\ t.iss = p.iss /\ t.una = p.una /\ t.nxt = p.nxt /\ KeepsReceive(p, t)
  /\ y \in Seq(Bytes) /\ Len(y) <= Len(data) /\ Piece(Bytes, y, data, 0, Len(y))
  /\ t.tx = p.tx \o y /\ p = TCPScaleSndIndexes(s)

LEMMA Writes ==
  ASSUME NEW s \in Sockets, Indexed(s), s.st = "Established", NEW data \in Seq(Bytes)
  PROVE  /\ \E p \in Sockets, y \in Seq(Bytes) : IsWritten(s, TCPWrite(s, data), data, p, y)
         /\ Indexed(TCPWrite(s, data))
<1> DEFINE p  == TCPScaleSndIndexes(s)
           d  == Len(data)
           cb == Min({d, Free(p)})
           y  == SubSeq(data, 1, cb)
           tx == p.tx \o y
           t  == [p EXCEPT !.tx = tx]
           a  == Len(s.tx)
           b  == Len(s.rx)
           c  == Len(p.tx)
           e  == Len(tx)
           l  == Len(y)
<1>1. TCPWrite(s, data) = t
  BY DEF TCPWrite
<1>2. IsScaled(s, p)
  BY Scales
<1>3. p \in Sockets /\ p.st = s.st /\ KeepsReceive(s, p) /\ p.una = 0
      /\ p.nxt = Norm(s.nxt - s.una) /\ Piece(Bytes, p.tx, s.tx, s.una, a - s.una)
  BY <1>2 DEF IsScaled
<1>4. SocketTyped(s) /\ SocketTyped(p) /\ d \in Nat
  BY <1>3, SocketFields
<1>5. a \in Nat /\ b \in Nat /\ a + b <= Pages /\ s.nxt \in Nat /\ s.una \in Nat
      /\ s.una <= s.nxt /\ s.nxt <= a
  BY <1>4 DEF Indexed, Fits, SocketTyped, Streaming
<1>6. c = (IF a - s.una > 0 THEN a - s.una ELSE 0) /\ Len(p.rx) = b /\ c \in Nat
  BY <1>3, <1>4 DEF Piece, KeepsReceive, SocketTyped
<1>7. Fits(p) <=> c + b <= Pages
  BY <1>6 DEF Fits
<1>8. p.tx \in Seq(Bytes)
  BY <1>4 DEF SocketTyped
<1>9. Len(s.tx) + 1 < W
  BY StreamSizes DEF Indexed
<1> HIDE DEF p, t, d
<1>10. Fits(p) /\ p.nxt = s.nxt - s.una /\ p.nxt <= c /\ c <= a /\ p.nxt \in Nat
  <2> HIDE DEF a, b, c
  <2>1. c = a - s.una
    BY <1>5, <1>6
  <2>2. c + b <= Pages /\ c <= a
    BY <1>5, <2>1, Sizes
  <2>3. s.nxt - s.una \in Seqs
    BY <1>5, <1>9, Sizes DEF Seqs, a
  <2>4. p.nxt = s.nxt - s.una
    BY <1>3, <2>3, NormSmall
  <2>5. s.nxt - s.una <= c /\ s.nxt - s.una \in Nat
    BY <1>5, <2>1
  <2> QED BY <1>7, <2>2, <2>4, <2>5
<1>11. Free(p) \in Nat /\ Len(p.tx) + Len(p.rx) + Free(p) = Pages
  BY <1>3, <1>10, FreeSpace
<1>12. cb \in Nat /\ cb <= d /\ cb <= Free(p)
  <2>1. d \in Nat /\ Free(p) \in Nat
    BY <1>4, <1>11
  <2>2. cb = IF d <= Free(p) THEN d ELSE Free(p)
    BY <2>1, MinOf
  <2> QED BY <2>1, <2>2
<1> HIDE DEF cb
<1>13. Piece(Bytes, y, data, 0, cb)
  <2>1. y = SubSeq(data, 0 + 1, 0 + cb)
    BY <1>12
  <2> HIDE DEF y
  <2>2. cb > 0 => 0 + cb <= Len(data)
    BY <1>12 DEF d
  <2> QED BY <1>12, <2>1, <2>2, Pieces
<1> HIDE DEF y
<1>14. y \in Seq(Bytes) /\ l = cb
  BY <1>12, <1>13 DEF Piece
<1>15. tx \in Seq(Bytes) /\ e = c + l
  BY <1>8, <1>14, Appended
<1> HIDE DEF tx
<1>16. /\ t \in Sockets /\ t.st = p.st /\ t.iss = p.iss /\ t.una = p.una /\ t.nxt = p.nxt
       /\ KeepsReceive(p, t) /\ t.tx = tx
  <2>1. p \in Sockets
    BY <1>3
  <2>2. t \in Sockets
    BY <1>15, <2>1 DEF t, Sockets
  <2>3. t.st = p.st /\ t.iss = p.iss /\ t.una = p.una /\ t.nxt = p.nxt /\ t.tx = tx
    BY <2>1 DEF t, Sockets
  <2>4. KeepsReceive(p, t)
    BY <2>1 DEF t, Sockets, KeepsReceive
  <2> QED BY <2>2, <2>3, <2>4
<1>17. Piece(Bytes, y, data, 0, l) /\ l <= Len(data)
  BY <1>12, <1>13, <1>14 DEF d
<1>18. IsWritten(s, t, data, p, y)
  BY <1>2, <1>3, <1>14, <1>16, <1>17 DEF IsWritten, p, tx
<1>19. Len(t.tx) = e /\ Len(t.rx) = b
  BY <1>6, <1>16 DEF KeepsReceive
<1>20. Fits(t) <=> e + b <= Pages
  BY <1>19 DEF Fits
<1>21. c + b + Free(p) = Pages
  BY <1>6, <1>11
<1> HIDE DEF a, b, c, e, l
<1>22. e + b <= Pages /\ t.nxt <= e /\ t.nxt <= e + 1 /\ 0 <= e + 1 /\ 0 <= t.nxt
  <2> DEFINE n == t.nxt
             f == Free(p)
  <2>1. n \in Nat /\ n <= c
    BY <1>10, <1>16
  <2>2. b \in Nat /\ c \in Nat /\ f \in Nat /\ cb \in Nat /\ cb <= f /\ l = cb
        /\ e = c + l /\ c + b + f = Pages
    BY <1>5, <1>6, <1>11, <1>12, <1>14, <1>15, <1>21
  <2> HIDE DEF n, f
  <2>3. e + b <= Pages /\ n <= e /\ n <= e + 1 /\ 0 <= e + 1 /\ 0 <= n
    BY <2>1, <2>2, Sizes
  <2> QED BY <2>3 DEF n
<1>23. t.una = 0 /\ t.st = "Established" /\ "Established" \notin SynStates
  BY <1>3, <1>16 DEF SynStates
<1>24. Indexed(t)
  BY <1>19, <1>20, <1>22, <1>23 DEF Indexed, Ordered
<1> QED BY <1>1, <1>3, <1>14, <1>18, <1>24

\* The user reads all there is.
IsRead(s, t) ==
  /\ t \in Sockets /\ t.st = s.st /\ KeepsSend(s, t) /\ t.gotFin = s.gotFin
  /\ t.rx = <<>> /\ t.irs = Norm(s.irs + Len(s.rx)) /\ t.rcv = Norm(s.rcv - Len(s.rx))

LEMMA Reads ==
  ASSUME NEW s \in Sockets, Indexed(s)
  PROVE  IsRead(s, TCPRead(s, Len(s.rx))) /\ Indexed(TCPRead(s, Len(s.rx)))
<1> DEFINE b   == Len(s.rx)
           rx  == SubSeq(s.rx, b + 1, b)
           irs == Norm(s.irs + b)
           rcv == Norm(s.rcv - b)
           t   == [s EXCEPT !.rx = rx, !.irs = irs, !.rcv = rcv]
<1>0. SocketTyped(s)
  BY SocketFields
<1>1. TCPRead(s, Len(s.rx)) = t
  BY DEF TCPRead
<1>2. b \in Nat
  BY <1>0 DEF SocketTyped
<1>3. irs \in Seqs /\ rcv \in Seqs
  <2>1. s.irs + b \in Int /\ s.rcv - b \in Int
    BY <1>0, <1>2 DEF SocketTyped
  <2> QED BY <2>1, NormType
<1>4. rx = <<>> /\ <<>> \in Seq(Bytes)
  BY <1>2
<1> HIDE DEF b, rx, irs, rcv
<1>5. t \in Sockets /\ t.st = s.st /\ KeepsSend(s, t) /\ t.gotFin = s.gotFin
      /\ t.rx = rx /\ t.irs = irs /\ t.rcv = rcv
  BY <1>3, <1>4 DEF Sockets, KeepsSend, KeepsSent
<1> HIDE DEF t
<1>6. IsRead(s, t)
  BY <1>4, <1>5 DEF IsRead, b, irs, rcv
<1>7. Fits(t)
  <2>1. Len(t.rx) = 0 /\ Len(t.tx) = Len(s.tx) /\ Len(s.tx) \in Nat /\ Len(s.tx) <= Pages
    BY <1>4, <1>5, StreamSizes DEF KeepsSend, KeepsSent, Indexed
  <2> QED BY <2>1, Sizes DEF Fits
<1>8. Indexed(t)
  BY <1>5, <1>7, KeptIndexed
<1> QED BY <1>1, <1>6, <1>8

\* The user aborts: a reset goes out, without an acknowledgement.
IsAborted(r) ==
  /\ r.s = Fresh
  /\ r.out = <<>> \/ \E g \in Segments : /\ r.out = <<g>> /\ ~g.syn /\ ~g.fin /\ g.rst
                                         /\ ~g.ack /\ g.data = <<>>

LEMMA Aborts ==
  ASSUME NEW s \in Sockets, Fits(s), NEW ok \in BOOLEAN
  PROVE  LET r == TCPAbort(s, ok)
         IN  IsAborted(r) /\ r \in Results /\ Indexed(r.s)
<1> DEFINE m == [s EXCEPT !.irs = 0, !.rcv = 0]
           q == TCPTransmit(m, Rst, 0, FALSE, <<>>, ok)
           r == TCPAbort(s, ok)
           g == Segment(m, Rst, FALSE, <<>>)
<1>1. CASE s.st \in AbortStates
  <2>1. r = Result(Fresh, q.out)
    BY <1>1 DEF TCPAbort
  <2>2. m \in Sockets /\ m.tx = s.tx /\ m.rx = s.rx
    <3>1. 0 \in Seqs
      BY Sizes DEF Seqs
    <3> QED BY <3>1 DEF Sockets
  <2> HIDE DEF m
  <2>3. Fits(m)
    BY <2>2 DEF Fits
  <2>4. Rst \in Headers /\ 0 \in Nat /\ FALSE \in BOOLEAN /\ <<>> \in Seq(Bytes)
    BY HeadersOf
  <2>5. Sends(m, q, Rst, 0, FALSE, <<>>, ok)
    BY <2>2, <2>3, <2>4, Transmits, Zenon
  <2>6. IsSegment(g, m, Rst, FALSE, <<>>)
    BY <2>2, <2>3, <2>4, SegmentType, Zenon
  <2> HIDE DEF q
  <2>7. q.out \in Seq(Segments) /\ q.out = IF ok THEN <<g>> ELSE <<>>
    BY <2>5 DEF Sends, Results
  <2> HIDE DEF g, r
  <2>8. g \in Segments /\ ~g.syn /\ ~g.fin /\ g.rst /\ ~g.ack /\ g.data = <<>>
    <3>1. ~Rst.syn /\ ~Rst.fin /\ Rst.rst
      BY HeaderFields
    <3> QED BY <2>6, <3>1 DEF IsSegment
  <2>9. r.s = Fresh /\ r.out = q.out /\ r \in Results
    BY <2>1, <2>7, FreshType DEF Result, Results
  <2>10. IsAborted(r)
    BY <2>7, <2>8, <2>9 DEF IsAborted
  <2> QED BY <2>9, <2>10, FreshIndexed DEF r
<1>2. CASE s.st \notin AbortStates
  <2>1. r = Result(Fresh, <<>>)
    BY <1>2 DEF TCPAbort
  <2>2. r \in Results /\ r.s = Fresh /\ r.out = <<>>
    BY <2>1, FreshType, ResultType
  <2>3. IsAborted(r)
    BY <2>2 DEF IsAborted
  <2> QED BY <2>2, <2>3, FreshIndexed
<1> QED BY <1>1, <1>2

\* Time passes.
LEMMA Ages ==
  ASSUME NEW s \in Sockets, Indexed(s)
  PROVE  LET t == [s EXCEPT !.old = TRUE]
         IN  t \in Sockets /\ t.st = s.st /\ KeepsSend(s, t) /\ KeepsReceive(s, t) /\ Indexed(t)
<1> DEFINE t == [s EXCEPT !.old = TRUE]
<1>1. t \in Sockets /\ t.st = s.st /\ KeepsSend(s, t) /\ KeepsReceive(s, t)
  BY DEF Sockets, KeepsSend, KeepsSent, KeepsReceive
<1> HIDE DEF t
<1>2. Fits(t)
  BY <1>1 DEF Indexed, Fits, KeepsSend, KeepsSent, KeepsReceive
<1>3. Indexed(t)
  BY <1>1, <1>2, KeptIndexed
<1> QED BY <1>1, <1>3 DEF t
=============================================================================
