----------------------------- MODULE TcpSocket -----------------------------
(***************************************************************************)
(* One TCP socket of the network stack (DEIPcK/utility/TCPStateMachine.c,  *)
(* TCP.c, TCPRFC793.c) as operators on a record.  A pass of                *)
(* TCPStateMachine, with a segment or without one, takes a socket to a     *)
(* result [s, out]: the socket after the pass and the segment it sent, if  *)
(* any, as a sequence.                                                     *)
(*                                                                         *)
(* Sequence numbers are unsigned of width W and kept as the code keeps     *)
(* them: una, nxt, rtt and rcv are offsets from iss and irs.  The transmit *)
(* and receive streams are sequences of bytes; sndEND is Len(tx).  One     *)
(* byte of the model stands for a quarter of a segment or more, which the  *)
(* code never holds back.  Times are not kept: clk says which timers a     *)
(* pass finds run out, and old says that tSndRTTStart is TCPMSL ago.       *)
(***************************************************************************)
EXTENDS Integers, Sequences, FiniteSetsExt

CONSTANTS
    W,      \* number of sequence numbers, 2^32 in the code
    MSS,    \* cbRemoteEffMSS and cbLocalMSS, in bytes of the model
    Pages,  \* bytes the page manager of a socket holds for both its streams
    Retries \* retransmissions that fit in TCPMSL, the timeout doubling each time

ASSUME TcpSocketAssumption == /\ W \in Nat \ {0, 1} /\ MSS \in Nat \ {0}
                              /\ Pages \in Nat /\ 4 * Pages < W
                              /\ Retries \in Nat \ {0}

CNTPAUSESEND == 3

SynStates == {"SynSent", "SynReceivedWhileListening", "SynReceived"}
\* tcpSynReceivedWhileListening .. tcpLastAck, the states with a receive window
Windowed == {"SynReceivedWhileListening", "SynReceived", "Established",
             "FinWait1", "FinWait2", "CloseWait", "Closing", "LastAck"}
TcpStates == SynStates \cup Windowed \cup
             {"Unassigned", "Listen", "WaitUserClose", "Closed"}

Seqs == 0 .. W - 1
Norm(n) == n % W

\* What a socket and a segment hold.
Bytes == Nat \ {0}

Sockets ==
    [st : TcpStates, iss : Seqs, una : Seqs, nxt : Seqs, tx : Seq(Bytes), wnd : Nat,
     rtt : Seqs, old : BOOLEAN, retr : 0 .. Retries, probe : BOOLEAN,
     pause : 0 .. CNTPAUSESEND, irs : Seqs, rcv : Seqs, rx : Seq(Bytes), need : 0 .. 2,
     gotFin : BOOLEAN, open : BOOLEAN]

Segments == [syn : BOOLEAN, fin : BOOLEAN, rst : BOOLEAN, ack : BOOLEAN, seq : Seqs,
             ackNbr : Seqs, wnd : 0 .. MSS, data : Seq(Bytes)]

\* The socket memset leaves, with the send pause a first acknowledgement sets.
Fresh == [st |-> "Unassigned", iss |-> 0, una |-> 0, nxt |-> 0, tx |-> <<>>,
          wnd |-> 0, rtt |-> 0, old |-> FALSE, retr |-> 0, probe |-> FALSE,
          pause |-> 0, irs |-> 0, rcv |-> 0, rx |-> <<>>, need |-> 0,
          gotFin |-> FALSE, open |-> FALSE]

NoSegment == [none |-> TRUE]
Header == [syn |-> FALSE, fin |-> FALSE, rst |-> FALSE]
Syn == [Header EXCEPT !.syn = TRUE]
Fin == [Header EXCEPT !.fin = TRUE]
Rst == [Header EXCEPT !.rst = TRUE]

Result(s, out) == [s |-> s, out |-> out]

Free(s) == Pages - Len(s.tx) - Len(s.rx)
Window(s) == Min({Free(s) \div 4, MSS})

\* The segment a socket sends from its present indexes.
Segment(s, h, fAck, data) ==
    [syn |-> h.syn, fin |-> h.fin, rst |-> h.rst, ack |-> fAck,
     seq |-> Norm(s.iss + s.nxt), ackNbr |-> Norm(s.irs + s.rcv),
     wnd |-> Window(s), data |-> data]

RestartsNever(s) == FALSE   \* mutated: the time runs from the first segment on

\* tSndRTTStart is set when the last timed byte has been acknowledged.
Restarts(s) == s.rtt = s.una

\* cb counts the phantom byte of a SYN or a FIN; ok is the outcome of ILSend.
TCPTransmit(s, h, cb, fAck, data, ok) ==
    LET sent == [s EXCEPT !.need  = IF fAck THEN 0 ELSE @,
                          !.pause = IF cb > 0 /\ @ > 0 THEN @ - 1 ELSE @,
                          !.old   = @ /\ ~Restarts(s),
                          !.rtt   = IF Restarts(s) THEN Norm(s.nxt + cb) ELSE @,
                          !.nxt   = Norm(@ + cb),
                          !.wnd   = Max({@ - cb, 0})]
    IN IF ok THEN Result(sent, <<Segment(s, h, fAck, data)>>) ELSE Result(s, <<>>)

\* A socket that came from a listening one goes back to listening, its
\* fSocketOpen cleared; any other is freed with the data nobody has read.
TCPResetSocket(s) ==
    IF s.st = "SynReceivedWhileListening"
    THEN [Fresh EXCEPT !.st = "Listen", !.iss = s.iss, !.rx = s.rx,
                       !.pause = s.pause, !.retr = s.retr, !.probe = s.probe,
                       !.old = s.old, !.need = s.need]
    ELSE Fresh

-----------------------------------------------------------------------------
(* The checks an incoming segment g goes through.                          *)

AckNbrOf(s, g) == Norm(g.ackNbr - s.iss)
SeqNbrOf(s, g) == Norm(g.seq - s.irs)

\* The acknowledgement is processed before the segment is checked.
TCPProcessACK(s, g) ==
    LET a      == AckNbrOf(s, g)
        timed  == IF a >= s.rtt THEN [s EXCEPT !.retr = 0, !.rtt = a] ELSE s
        taken  == s.una <= a /\ (a <= s.nxt \/ a <= Len(s.tx))
        back   == a > s.nxt \/ s.probe
        nxt    == IF back THEN a ELSE s.nxt
        wnd    == Max({a + g.wnd - nxt, 0})
    IN IF ~g.ack THEN s
       ELSE IF ~taken THEN timed
       ELSE [timed EXCEPT !.una = a, !.nxt = nxt, !.wnd = wnd,
                          !.pause = IF back \/ a # s.una THEN CNTPAUSESEND ELSE @,
                          !.probe = @ /\ wnd = 0]

InWindowAhead(s, g) ==   \* mutated: takes a segment that is ahead of the stream
    s.rcv <= SeqNbrOf(s, g) + Len(g.data)

InWindow(s, g) == /\ SeqNbrOf(s, g) <= s.rcv
                  /\ s.rcv <= SeqNbrOf(s, g) + Len(g.data)

\* What TCPCheckForRST decides: process the segment, drop it, take the reset
\* it carries, answer with a reset or with a duplicate acknowledgement.
TCPCheckForRST(s, g) ==
    LET ackInRange == 0 < AckNbrOf(s, g) /\ AckNbrOf(s, g) <= s.nxt
        opening    == s.st \in SynStates
    IN CASE s.st = "Listen" -> IF g.rst THEN "drop"
                               ELSE IF g.ack THEN "rst" ELSE "process"
         [] opening /\ g.ack /\ ~ackInRange -> IF g.rst THEN "drop" ELSE "rst"
         [] opening /\ g.ack /\ ackInRange /\ g.rst -> "reset"
         [] opening /\ ~g.ack /\ g.rst -> IF SeqNbrOf(s, g) = s.rcv THEN "reset" ELSE "drop"
         [] s.st = "SynSent" /\ ~g.rst /\ (g.ack => ackInRange) -> "process"
         [] OTHER -> IF s.st \notin Windowed THEN "drop"
                     ELSE IF InWindow(s, g) THEN IF g.rst THEN "reset" ELSE "process"
                     ELSE IF g.rst THEN "drop" ELSE "ack"

\* The reset for a segment that carries an acknowledgement, or for one that
\* finds no socket.  It goes out on a dummy socket.
RstTo(g) ==
    LET dummy == [Fresh EXCEPT
                    !.iss = IF g.ack THEN g.ackNbr ELSE 0,
                    !.irs = IF g.ack THEN 0
                            ELSE Norm(g.seq + Len(g.data) + (IF g.syn THEN 1 ELSE 0))]
    IN <<[Segment(dummy, Rst, ~g.ack, <<>>) EXCEPT !.wnd = 0]>>

TCPProcessSYN(s, g) ==
    IF g.syn THEN [s EXCEPT !.irs = Norm(g.seq + 1)] ELSE s

AddRxDataWhole(s, g) ==   \* mutated: stores a retransmitted segment again
    LET cb == Min({Len(g.data), Free(s)})
    IN IF Len(g.data) = 0 \/ s.st \in {"LastAck", "WaitUserClose", "Closed"} THEN s
       ELSE [s EXCEPT !.need = Min({@ + 1, 2}), !.rcv = Norm(@ + cb),
                      !.rx = @ \o SubSeq(g.data, 1, cb)]

\* The part of the payload not yet received, as much of it as memory takes.
TCPAddRxDataToSocket(s, g) ==
    LET skip  == Norm(s.rcv - SeqNbrOf(s, g))
        cb    == Min({Len(g.data) - skip, Free(s)})
    IN IF Len(g.data) = 0 \/ s.st \in {"LastAck", "WaitUserClose", "Closed"} THEN s
       ELSE [s EXCEPT !.need = Min({@ + 1, 2}), !.rx = @ \o SubSeq(g.data, skip + 1, skip + cb), !.rcv = Norm(@ + cb)]

-----------------------------------------------------------------------------
(* Sending.                                                                *)

ScaleToNext(s) ==   \* mutated: forgets what has been sent, acknowledged or not
    [s EXCEPT !.iss = Norm(@ + s.nxt), !.una = 0, !.nxt = 0, !.rtt = 0,
              !.tx = SubSeq(@, s.nxt + 1, Len(@))]

TCPScaleSndIndexes(s) ==
    [s EXCEPT !.iss = Norm(@ + s.una), !.nxt = Norm(@ - s.una),
              !.rtt = Norm(@ - s.una), !.una = 0,
              !.tx = SubSeq(@, s.una + 1, Len(@))]

\* Send what window and pause allow, a one-byte probe of a closed window, or
\* an acknowledgement that is due.
TCPProcessTxSocketBuffers(s, clk, ok) ==
    LET left  == Min({Len(s.tx) - s.nxt, MSS})
        probe == s.wnd = 0 /\ clk.flush /\ left > 0
        cb    == IF probe THEN 1
                 ELSE IF s.pause = 0 \/ left < 0 THEN 0 ELSE Min({left, s.wnd})
        due   == s.need > 1 \/ (s.need > 0 /\ clk.flush)
        p     == TCPScaleSndIndexes([s EXCEPT !.probe = @ \/ probe])
    IN CASE cb > 0 -> TCPTransmit(p, Header, cb, TRUE, SubSeq(p.tx, p.nxt + 1, p.nxt + cb), ok)
         [] cb = 0 /\ due -> TCPTransmit(s, Header, 0, TRUE, <<>>, ok)
         [] OTHER -> Result(s, <<>>)

FlushNothing(s, next, clk, ok) ==   \* mutated: sends the FIN at once
    TCPTransmit([s EXCEPT !.st = next], Fin, 1, TRUE, <<>>, ok)

\* The FIN goes out only when everything has been acknowledged.
TCPFlushSocketAndFIN(s, next, clk, ok) ==
    IF Len(s.tx) = s.una
    THEN TCPTransmit([s EXCEPT !.st = next], Fin, 1, TRUE, <<>>, ok)
    ELSE TCPProcessTxSocketBuffers(s, clk, ok)

GotFin(s, next) == [s EXCEPT !.rcv = Norm(@ + 1), !.gotFin = TRUE, !.st = next]

Acknowledge(s, ok) == TCPTransmit(s, Header, 0, TRUE, <<>>, ok)

\* The socket enters Established with its send indexes at the first data byte.
Establish(s) == [s EXCEPT !.st = "Established", !.iss = Norm(@ + s.nxt), !.rtt = 0,
                          !.nxt = 0, !.una = 0, !.tx = <<>>, !.pause = CNTPAUSESEND]

Established(s, g, clk, ok) ==
    CASE g # NoSegment /\ g.fin /\ s.nxt = Len(s.tx) ->
            TCPTransmit(GotFin(s, "LastAck"), Fin, 1, TRUE, <<>>, ok)
      [] g # NoSegment /\ g.fin /\ s.nxt # Len(s.tx) -> Acknowledge(GotFin(s, "CloseWait"), ok)
      [] OTHER -> TCPProcessTxSocketBuffers(s, clk, ok)

\* The switch over tcpState at the end of a pass.
Switch(s, g, clk, ok) ==
    LET here == g # NoSegment
        fin  == here /\ g.fin
        caughtUp == s.una = s.nxt
        stay == Result(s, <<>>)
        go(next) == Result([s EXCEPT !.st = next], <<>>)
    IN CASE s.st = "Listen" /\ here ->
                TCPTransmit([s EXCEPT !.st = "SynReceivedWhileListening"], Syn, 1, TRUE, <<>>, ok)
         [] s.st = "SynSent" /\ here /\ g.syn -> Acknowledge([s EXCEPT !.st = "SynReceived"], ok)
         [] s.st \in SynStates \ {"SynSent"} /\ s.una >= s.nxt ->
                Established(Establish(s), g, clk, ok)
         [] s.st = "Established" -> Established(s, g, clk, ok)
         [] s.st = "CloseWait" -> TCPFlushSocketAndFIN(s, "LastAck", clk, ok)
         [] s.st = "LastAck" /\ here /\ caughtUp -> go("WaitUserClose")
         [] s.st = "FinWait1" /\ fin -> Acknowledge(GotFin(s, "CloseWait"), ok)
         [] s.st = "FinWait1" /\ ~fin -> TCPFlushSocketAndFIN(s, "FinWait2", clk, ok)
         [] s.st = "FinWait2" /\ fin ->
                Acknowledge(GotFin(s, IF caughtUp THEN "WaitUserClose" ELSE "LastAck"), ok)
         [] s.st = "FinWait2" /\ here /\ ~fin /\ caughtUp -> go("Closing")
         [] s.st = "Closing" /\ fin -> Acknowledge(GotFin(s, "WaitUserClose"), ok)
         [] s.st = "WaitUserClose" /\ ~s.open -> go("Closed")
         [] s.st = "Closed" -> Result(TCPResetSocket(s), <<>>)
         [] OTHER -> stay

BackOffUncapped(s) ==   \* mutated: no limit to the timeout, and FINs are not sent again
    [s EXCEPT !.retr = @ + 1, !.nxt = s.una, !.pause = 1]

\* Unacknowledged bytes older than TCPMSL, or a half-closed peer that stays
\* silent, end the connection with a reset; a retransmission timeout moves
\* sndNXT back, and a state that had sent its FIN back with it.
BackOff(s) ==
    [s EXCEPT !.retr = Min({@ + 1, Retries}), !.nxt = s.una, !.pause = 1,
              !.st = CASE @ = "LastAck" -> "CloseWait"
                       [] @ = "FinWait2" -> "FinWait1"
                       [] OTHER -> @]

GiveUp(s, ok) ==
    LET r == TCPTransmit([s EXCEPT !.nxt = s.una], Rst, 0, TRUE, <<>>, ok)
    IN Result(TCPResetSocket(r.s), r.out)

ResendSyn(s, ok) ==
    LET r == TCPTransmit(BackOff(s), Syn, 1, s.st # "SynSent", <<>>, ok)
    IN Result([r.s EXCEPT !.nxt = 1], r.out)

TCPCheckForReTransmit(s, g, clk, ok) ==
    LET waiting == s.una < s.nxt
    IN CASE waiting /\ s.old -> GiveUp(s, ok)
         [] waiting /\ ~s.old /\ clk.rto /\ s.st \in SynStates -> ResendSyn(s, ok)
         [] waiting /\ ~s.old /\ clk.rto /\ s.st \notin SynStates -> Switch(BackOff(s), g, clk, ok)
         [] ~waiting /\ s.retr = 0 /\ s.st = "Closing" /\ clk.rto -> GiveUp(s, ok)
         [] OTHER -> Switch(s, g, clk, ok)

\* TCPStateMachine, for a segment and for the periodic call.
TCPStateMachine(s, g, clk, ok) ==
    LET acked   == TCPProcessACK(s, g)
        verdict == TCPCheckForRST(acked, g)
        loaded  == TCPAddRxDataToSocket(TCPProcessSYN(acked, g), g)
    IN IF g = NoSegment THEN TCPCheckForReTransmit(s, g, clk, ok)
       ELSE CASE verdict = "drop"  -> Result(acked, <<>>)
              [] verdict = "reset" -> Result(TCPResetSocket(acked), <<>>)
              [] verdict = "rst"   -> Result(acked, RstTo(g))
              [] verdict = "ack"   -> Acknowledge(acked, ok)
              [] verdict = "process" -> TCPCheckForReTransmit(loaded, g, clk, ok)

\* TCPProcess hands a segment to the socket of its connection, or to a
\* listening one if it is a SYN; any other is answered with a reset.
HasSocket(s, g) == IF s.st = "Listen" THEN g.syn ELSE s.st # "Unassigned"

TCPProcess(s, g, clk, ok) ==
    IF HasSocket(s, g) THEN TCPStateMachine(s, g, clk, ok)
    ELSE Result(s, IF g.rst THEN <<>> ELSE RstTo(g))

-----------------------------------------------------------------------------
(* The calls of the application.                                           *)

\* The segment of an active open is the only one without an acknowledgement.
TCPOpen(iss, ok) ==
    TCPTransmit([Fresh EXCEPT !.st = "SynSent", !.iss = iss, !.open = TRUE],
                Syn, 1, FALSE, <<>>, ok)

TCPListen(iss) == [Fresh EXCEPT !.st = "Listen", !.iss = iss, !.open = TRUE]

TCPCloseKept(s) ==   \* mutated: the stack does not learn that the user has closed
    [s EXCEPT !.st = IF @ = "Established" THEN "FinWait1" ELSE @]

TCPClose(s) ==
    [s EXCEPT !.open = FALSE,
              !.nxt = IF s.st \in SynStates THEN Len(s.tx) ELSE @,
              !.st = CASE @ = "Listen" -> "Closed"
                       [] @ = "SynSent" -> "WaitUserClose"
                       [] @ \in {"SynReceived", "SynReceivedWhileListening", "Established"} -> "FinWait1"
                       [] OTHER -> @]

\* Only as many bytes as memory takes are written, and only when Established.
TCPWrite(s, data) ==
    LET p == TCPScaleSndIndexes(s)
    IN [p EXCEPT !.tx = @ \o SubSeq(data, 1, Min({Len(data), Free(p)}))]

\* Reading moves the base of the receive stream; no window update is sent.
TCPRead(s, cb) ==
    [s EXCEPT !.rx = SubSeq(@, cb + 1, Len(@)), !.irs = Norm(@ + cb), !.rcv = Norm(@ - cb)]

TCPAvailable(s) ==
    IF s.st \in (Windowed \cup {"WaitUserClose"})
    THEN Norm(s.rcv - (IF s.gotFin THEN 1 ELSE 0)) ELSE 0

\* The reset of an abort carries no acknowledgement.
AbortStates == {"SynReceived", "Established", "FinWait1", "FinWait2", "CloseWait"}
TCPAbort(s, ok) ==
    IF s.st \in AbortStates
    THEN Result(Fresh, TCPTransmit([s EXCEPT !.irs = 0, !.rcv = 0], Rst, 0, FALSE, <<>>, ok).out)
    ELSE Result(Fresh, <<>>)
=============================================================================
