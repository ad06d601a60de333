------------------------------ MODULE TcpLink ------------------------------
(***************************************************************************)
(* Two hosts that run the stack of TcpSocket: one opens a connection, the  *)
(* other one listens.  The network between them delivers in order, but may *)
(* lose, duplicate or hold back a segment.  TCPProcess runs for every      *)
(* segment that arrives and TCPPeriodicTasks between them; the             *)
(* applications write, read, close and abort.                              *)
(***************************************************************************)
EXTENDS TcpSocket, SequencesExt, TLC

CONSTANTS
    Client, Server,
    InitialSeq,     \* initial sequence number of each end (TCPGetSeqNumber)
    SendOutcomes,   \* outcomes of ILSend: {TRUE} or {TRUE, FALSE}
    MaxBytes,       \* bytes each application writes
    MaxTimeouts,    \* retransmission timeouts that come early, of both ends
    MaxFaults,      \* segments lost, duplicated or overtaken
    MaxOpens,       \* connections the client opens
    Closers,        \* the ends whose application closes first
    MayAbort,       \* the ends whose application may abort
    Hasty           \* applications may close before the connection is established

Ends == {Client, Server}
Peer(e) == IF e = Client THEN Server ELSE Client

ASSUME TcpLinkAssumption ==
    /\ Client # Server /\ InitialSeq \in [Ends -> Seqs]
    /\ SendOutcomes \in (SUBSET BOOLEAN) \ {{}}
    /\ MaxBytes \in [Ends -> Nat] /\ Closers \cup MayAbort \subseteq Ends /\ Hasty \in BOOLEAN
    /\ {MaxTimeouts, MaxFaults, MaxOpens} \subseteq Nat

VARIABLES
    sock,      \* the socket of each end
    net,       \* segments on their way to each end
    written,   \* bytes each application has written
    read,      \* bytes each application has read
    left,      \* ends whose application has closed or aborted
    budget     \* what is left of MaxTimeouts, MaxFaults and MaxOpens

vars == <<sock, net, written, read, left, budget>>

Init ==
    /\ sock = [e \in Ends |-> IF e = Client THEN Fresh ELSE TCPListen(InitialSeq[Server])]
    /\ net = [e \in Ends |-> <<>>]
    /\ written = [e \in Ends |-> <<>>]
    /\ read = [e \in Ends |-> <<>>]
    /\ left = {}
    /\ budget = [timeouts |-> MaxTimeouts, faults |-> MaxFaults, opens |-> MaxOpens]

Clocks == [rto : BOOLEAN, flush : BOOLEAN]

\* The socket of e becomes r.s, in stays on the way to e and r.out goes on the
\* way to its peer.
Step(e, r, in) ==
    /\ sock' = [sock EXCEPT ![e] = r.s]
    /\ net' = [net EXCEPT ![e] = in, ![Peer(e)] = @ \o r.out]

Spend(what, cond) ==
    IF cond THEN /\ budget[what] > 0 /\ budget' = [budget EXCEPT ![what] = @ - 1]
            ELSE UNCHANGED budget

-----------------------------------------------------------------------------
(* The stack.                                                              *)

\* A segment arrives, usually the next one.  A copy of it may stay behind.  A
\* timer that has run out is left to the periodic pass that follows.
NoTimer == [rto |-> FALSE, flush |-> FALSE]
Deliver(e) ==
    \E i \in DOMAIN net[e], keep \in BOOLEAN, ok \in SendOutcomes :
        /\ Step(e, TCPProcess(sock[e], net[e][i], NoTimer, ok),
                IF keep THEN net[e] ELSE RemoveAt(net[e], i))
        /\ Spend("faults", keep \/ i > 1)
        /\ UNCHANGED <<written, read, left>>

\* What a pass of TCPPeriodicTasks would do, and whether it changes anything.
Pass(e, clk, ok) == TCPStateMachine(sock[e], NoSegment, clk, ok)
Changes(e, clk) == LET r == Pass(e, clk, TRUE) IN r.s # sock[e] \/ r.out # <<>>

\* The shortest retransmission timeout is longer than MAXFLUSH and a round
\* trip: one is early while a segment is on its way or about to be sent.
Early == \E e \in Ends : net[e] # <<>> \/ Changes(e, [rto |-> FALSE, flush |-> TRUE])

Poll(e) ==
    \E clk \in Clocks, ok \in SendOutcomes :
        /\ sock[e].st \notin {"Unassigned", "Listen"}
        /\ Changes(e, clk)
        /\ Step(e, Pass(e, clk, ok), net[e])
        /\ Spend("timeouts", clk.rto /\ Early)
        /\ UNCHANGED <<written, read, left>>

Lose(e) ==
    \E i \in DOMAIN net[e] :
        /\ net' = [net EXCEPT ![e] = RemoveAt(@, i)]
        /\ Spend("faults", TRUE)
        /\ UNCHANGED <<sock, written, read, left>>

\* More than TCPMSL passes in which nothing is sent, because there is nothing
\* to send and nothing on the way.
Quiet == \A e \in Ends : /\ net[e] = <<>>
                         /\ sock[e].una >= sock[e].nxt
                         /\ Len(sock[e].tx) <= sock[e].una
Silence ==
    /\ Quiet
    /\ \E e \in Ends : ~sock[e].old
    /\ sock' = [e \in Ends |-> [sock[e] EXCEPT !.old = TRUE]]
    /\ UNCHANGED <<net, written, read, left, budget>>

\* The peer answers none of the retransmissions, or it answers the probes of
\* its closed window and does not take the byte they carry.
Unanswered(s) == ~Early /\ s.una < s.nxt /\ s.retr = Retries
Refused(s)    == s.probe /\ s.una = s.nxt /\ s.una # s.rtt /\ \A e \in Ends : net[e] = <<>>

\* TCPMSL passes since the segment that is being timed was sent.
Lapse(e) ==
    /\ Unanswered(sock[e]) \/ Refused(sock[e])
    /\ ~sock[e].old
    /\ sock' = [sock EXCEPT ![e].old = TRUE]
    /\ UNCHANGED <<net, written, read, left, budget>>

-----------------------------------------------------------------------------
(* The applications.                                                       *)

Open ==
    /\ sock[Client].st = "Unassigned"
    /\ Spend("opens", TRUE)
    /\ LET n == MaxOpens - budget.opens
       IN Step(Client, TCPOpen(Norm(InitialSeq[Client] + n * (W \div 4)), TRUE), net[Client])
    /\ left' = left \ {Client}
    /\ UNCHANGED <<written, read>>

Write(e) ==
    \E n \in 1 .. MSS :
        LET data == [i \in 1 .. n |-> Len(written[e]) + i]
            s    == TCPWrite(sock[e], data)
            took == Len(s.tx) - Len(TCPScaleSndIndexes(sock[e]).tx)
        IN /\ e \notin left /\ sock[e].st = "Established"
           /\ Len(written[e]) + n <= MaxBytes[e]
           /\ sock' = [sock EXCEPT ![e] = s]
           /\ written' = [written EXCEPT ![e] = @ \o SubSeq(data, 1, took)]
           /\ UNCHANGED <<net, read, left, budget>>

\* The application reads all there is.
Read(e) ==
    /\ e \notin left /\ sock[e].rx # <<>>
    /\ sock' = [sock EXCEPT ![e] = TCPRead(@, Len(@.rx))]
    /\ read' = [read EXCEPT ![e] = @ \o sock[e].rx]
    /\ UNCHANGED <<net, written, left, budget>>

\* An application closes after it has written all it has to and read all there
\* is, or when it finds that its peer has closed.
Close(e) ==
    /\ e \notin left /\ sock[e].rx = <<>>
    /\ \/ sock[e].st = "Established" /\ e \in Closers /\ Len(written[e]) = MaxBytes[e]
       \/ sock[e].st \in SynStates /\ Hasty
       \/ sock[e].st \in {"CloseWait", "LastAck", "WaitUserClose"}
    /\ sock' = [sock EXCEPT ![e] = TCPClose(@)]
    /\ left' = left \cup {e}
    /\ UNCHANGED <<net, written, read, budget>>

Abort(e) ==
    /\ e \in MayAbort \ left
    /\ sock[e].st \notin {"Unassigned", "Listen"}
    /\ \E ok \in SendOutcomes : Step(e, TCPAbort(sock[e], ok), net[e])
    /\ left' = left \cup {e}
    /\ UNCHANGED <<written, read, budget>>

Next ==
    \/ Open \/ Silence
    \/ \E e \in Ends : \/ Deliver(e) \/ Poll(e) \/ Lose(e) \/ Lapse(e)
                       \/ Write(e) \/ Read(e) \/ Close(e) \/ Abort(e)

Spec == Init /\ [][Next]_vars

\* The stack runs, the network delivers what it does not lose, and the
\* applications open, read and close.
Fairness == /\ WF_vars(Open)
            /\ \A e \in Ends : /\ WF_vars(Deliver(e)) /\ WF_vars(Poll(e)) /\ SF_vars(Lapse(e))
                               /\ WF_vars(Write(e)) /\ WF_vars(Read(e)) /\ WF_vars(Close(e))

FairSpec == Spec /\ Fairness
-----------------------------------------------------------------------------
(* What should hold.                                                       *)

\* Type correctness.
TcpTypeOK ==
    /\ sock \in [Ends -> Sockets]
    /\ net \in [Ends -> Seq(Segments)]
    /\ written \in [Ends -> Seq(Bytes)] /\ read \in [Ends -> Seq(Bytes)]
    /\ left \subseteq Ends
    /\ budget \in [timeouts : 0 .. MaxTimeouts, faults : 0 .. MaxFaults, opens : 0 .. MaxOpens]

DataStates == Windowed \ SynStates

\* Each application reads exactly what the other one wrote, in order and once.
Stream == INSTANCE ByteStream WITH delivered <- read
StreamSpec == Stream!Spec

\* A byte that its sender takes for acknowledged, and forgets, is one the
\* receiving socket holds or its application has read.
AckedIsReceived ==
    \A e \in Ends : LET p == Peer(e) IN
        sock[e].st \in DataStates /\ sock[p].st \in DataStates =>
            Len(written[e]) - Len(sock[e].tx) + Min({sock[e].una, Len(sock[e].tx)})
                <= Len(read[p]) + Len(sock[p].rx)

\* A socket that has taken the FIN of its peer has all the peer has written.
FinMeansAll ==
    \A e \in Ends : sock[e].gotFin => read[e] \o sock[e].rx = written[Peer(e)]

\* TCPClose loses nothing: an application that does not close by itself reads
\* in the end whatever the other one has written.
Delivered == <>[](\A e \in Ends \ Closers : read[e] = written[Peer(e)])

\* A connection that its users close does not end by a reset, also when it has
\* been idle for longer than TCPMSL before its last segment is sent.
Polite == \A e \in Ends : \A i \in DOMAIN net[e] : ~net[e][i].rst

\* Both sockets are released in the end.
Released == <>[](\A e \in Ends : sock[e].st = "Unassigned")
=============================================================================
