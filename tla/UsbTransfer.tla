---------------------------- MODULE UsbTransfer ----------------------------
(***************************************************************************)
(* The transfer manager with what surrounds it: the transmit buffer        *)
(* (Transmit_Path.vhd), the packet decoder answering the host's tokens     *)
(* (packet_decoder.vhd), the host, and the driver writing the endpoint     *)
(* registers.  The decoder's reports reach the manager as one-clock pulses *)
(* (module EventReport), in the order it makes them; the host's packets    *)
(* are many clocks apart, so there is at most one pulse per clock.         *)
(***************************************************************************)
EXTENDS TransferManager

CONSTANTS DtdLists,      \* the dTD lists the driver may queue
          Control,       \* the control endpoint number, or None
          MayTimeOut,    \* which packets of a transfer (first, second, ..) the
                         \* host may leave without a handshake
          MaxTimeouts,   \* bound on how often it does
          Discipline     \* what the driver is careful about: see Careful

Sent == [number : Nat, from : Nat, len : Nat, counted : BOOLEAN]

ASSUME UsbAssumption ==
  /\ DtdLists \subseteq Seq(Nat) \ {<<>>}
  /\ \A l \in DtdLists : \A i \in 1 .. Len(l) : l[i] < 2 ^ 15
  /\ MayTimeOut \subseteq Nat /\ MaxTimeouts \in Nat
  /\ Discipline \subseteq {"prime", "direction", "write", "ack"}
  /\ None \notin Sent
  /\ Control # None => Control \in Numbers /\ Control + 16 \in Endpoints

VARIABLES
  content,   \* block RAM: the address whose bytes each region holds
  ready,     \* u_Cnt_Load_Bram_oData while _oValid (u_Endpt_Ready), else None
  uZlp,      \* u_Send_Zero_Length_Packet_oData
  bus,       \* the IN transaction in progress: what was sent, what was reported
  timeouts,  \* times the host gave no handshake
  control,   \* progress of the control transfer
  acked      \* history: the packets of each endpoint's transfer the host acknowledged

busVars == <<content, ready, uZlp, bus, timeouts, control, acked>>
utVars  == <<tmVars, busVars>>

UTInit ==
  /\ TMInit
  /\ content = [n \in Numbers |-> 0] /\ ready = [n \in Numbers |-> None]
  /\ uZlp = {} /\ bus = None /\ timeouts = 0
  /\ control = "idle"
  /\ acked = [e \in Endpoints |-> <<>>]
-----------------------------------------------------------------------------
(* Transmit_Path.vhd. *)

\* The FIFO has emptied into the region selected when its first word came;
\* the length is stored, and the buffer declared ready, for the endpoint
\* number the manager works on when the last word leaves.
FifoDrainsUnready ==   \* mutated: the push of the length is lost
  /\ txFifo # None
  /\ content' = [content EXCEPT ![txFifo.number] = txFifo.from]
  /\ txFifo' = None
  /\ UNCHANGED ready

FifoDrains ==
  /\ txFifo # None
  /\ content' = [content EXCEPT ![txFifo.number] = txFifo.from]
  /\ ready' = [ready EXCEPT ![Number(arbEndpt)] = txFifo.len]
  /\ txFifo' = None

Drain ==
  /\ FifoDrains
  /\ UNCHANGED <<state, selVars, regVars, eventVars, context, addr, addr_q, inLength,
                 dqhSetup, memSetup, cntVars, inputVars, uZlp, bus, timeouts, control, acked>>

\* The pushed word of zero-length requests arrives; a change made meanwhile
\* was not pushed.
ZlpArrives ==
  /\ zlpCross # None /\ ~zlpPush
  /\ uZlp' = zlpCross /\ zlpCross' = None
  /\ UNCHANGED <<state, selVars, regVars, setupRec, setupAck, inToken, inComplete, resend,
                 zlp, zlpMask, clearOff, zlp_q, zlpPush, dmaVars, cntVars, inputVars,
                 content, ready, bus, timeouts, control, acked>>
-----------------------------------------------------------------------------
(* packet_decoder.vhd and the host. *)

In(n) == n + 16
Received(packets) ==
  LET sum[i \in 0 .. Len(packets)] == IF i = 0 THEN 0 ELSE sum[i - 1] + packets[i][2]
  IN  sum[Len(packets)]
Size(e) == Bytes(lists[e], Len(lists[e]))

\* The host asks until it has what it asked for in its SETUP or command block.
Wanted(e) == lists[e] # <<>> /\ (acked[e] = <<>> \/ Received(acked[e]) < Size(e))

\* Timing: a change of the zero-length requests, or their clear, crosses in two
\* dozen clocks; the host's next token comes later than that.
ZlpSettled == zlpCross = None /\ ~zlpPush /\ zlp_q = zlp /\ zlp \cap zlpMask = {}

Event(kind, e) == pulse = None /\ pulse' = [kind |-> kind, bit |-> e]

\* DEV_DO_BCINTI: an IN token is answered with a zero-length packet, else with
\* the buffer of its endpoint number, and reported; without either it is
\* answered with a NAK, which changes nothing here.
HostAsks(n) ==
  /\ bus = None /\ In(n) \in Endpoints /\ Wanted(In(n)) /\ ZlpSettled
  /\ \/ /\ In(n) \in uZlp
        /\ bus' = [number |-> n, from |-> 0, len |-> 0, counted |-> FALSE]
     \/ /\ In(n) \notin uZlp /\ ready[n] # None
        /\ bus' = [number |-> n, from |-> content[n], len |-> ready[n], counted |-> FALSE]
  /\ Event("token", In(n))
  /\ UNCHANGED <<state, selVars, regVars, eventVars, dmaVars, cntVars, cntLoc, setupBuf,
                 lists, write, content, ready, uZlp, timeouts, control, acked>>

\* The packet is out: its length crosses to the manager, the buffer is empty.
PacketSent ==
  /\ bus # None /\ ~bus.counted /\ pulse = None
  /\ bus' = [bus EXCEPT !.counted = TRUE]
  /\ cntLoc' = [cntLoc EXCEPT ![bus.number] = bus.len]
  /\ ready' = IF bus.len = 0 THEN ready ELSE [ready EXCEPT ![bus.number] = None]
  /\ UNCHANGED <<state, selVars, regVars, eventVars, dmaVars, cntVars, setupBuf, lists,
                 pulse, write, content, uZlp, timeouts, control, acked>>

\* DEV_DO_BCINTO_CHECK_PID: the host acknowledges.  The clear of the
\* endpoint's zero-length request is from now on the one being repeated.
HostAcks ==
  /\ bus # None /\ bus.counted
  /\ LET e == In(bus.number)
     IN /\ Event("complete", e)
        /\ zlpMask' = {e}
        /\ acked' = [acked EXCEPT ![e] = Append(@, <<bus.from, bus.len>>)]
  /\ bus' = None
  /\ UNCHANGED <<state, selVars, regVars, setupRec, setupAck, inToken, inComplete, resend,
                 zlp, clearOff, zlp_q, zlpPush, zlpCross, dmaVars, cntVars, cntLoc, setupBuf,
                 lists, write, content, ready, uZlp, timeouts, control>>

\* DEV_RESP: no handshake until the timeout, or another PID.  Only the first
\* resend request is ever reported (run event_status).
HostSilent ==
  /\ bus # None /\ bus.counted
  /\ timeouts < MaxTimeouts /\ Len(acked[In(bus.number)]) + 1 \in MayTimeOut
  /\ IF timeouts = 0 THEN Event("resend", In(bus.number)) ELSE UNCHANGED pulse
  /\ timeouts' = timeouts + 1
  /\ bus' = None
  /\ UNCHANGED <<state, selVars, regVars, eventVars, dmaVars, cntVars, cntLoc, setupBuf,
                 lists, write, content, ready, uZlp, control, acked>>

\* A SETUP packet of the next control transfer.  Its token makes the repeated
\* zero-length clear that of the OUT endpoint.
HostSetup ==
  /\ Control # None /\ bus = None /\ control = "idle" /\ ZlpSettled
  /\ control' = "setup"
  /\ Event("setup", Control)
  /\ setupBuf' \in Setups
  /\ zlpMask' = {Control}
  /\ UNCHANGED <<state, selVars, regVars, setupRec, setupAck, inToken, inComplete, resend,
                 zlp, clearOff, zlp_q, zlpPush, zlpCross, dmaVars, cntVars, cntLoc, lists,
                 write, content, ready, uZlp, bus, timeouts, acked>>
-----------------------------------------------------------------------------
(* The driver. *)

Write(kind, e) == write = None /\ write' = [kind |-> kind, bit |-> e]

quietForDriver == <<state, selVars, regVars, eventVars, dmaVars, cntVars, cntLoc, setupBuf,
                    pulse, content, ready, uZlp, bus, timeouts>>

\* XUsbPs_IntrHandleEp0Setup: takes the SETUP bytes and clears the status bit.
DriverTakesSetup ==
  /\ control = "setup" /\ Control \in setupStat
  /\ Write("setupStat", Control)
  /\ control' = "answer"
  /\ UNCHANGED <<quietForDriver, lists, acked>>

\* XUsbPs_EpQueueRequest and XUsbPs_EpPrime.  An endpoint is primed when its
\* last transfer is over; the control IN endpoint, to answer a SETUP packet.
Inactive(e) == e \notin prime \cup stat \cup Written("prime")

\* The driver of the demonstration takes none of these precautions.
\*   "ack": clears a completion it has seen, and primes only when it has; the
\*     write that did so is commented out (xusbps_intr.c:177).
\*   "prime": primes only when ENDPTPRIME reads zero.
\*   "direction": does not prime an OUT endpoint during a transfer of the IN
\*     endpoint of the same number.
\*   "write": makes no other write to the register file.
Careful(e) ==
  /\ "ack" \in Discipline => e \notin complete
  /\ "prime" \in Discipline => prime = {}
  /\ ("direction" \in Discipline /\ ~IsIn(e) /\ In(Number(e)) \in Endpoints)
       => Inactive(In(Number(e)))

DriverPrimes(e) ==
  /\ Inactive(e) /\ Careful(e)
  /\ IF Control # None /\ e = In(Control)
     THEN control = "answer" /\ control' = "data"
     ELSE UNCHANGED control
  /\ \E l \in DtdLists : lists' = [lists EXCEPT ![e] = l]
  /\ acked' = [acked EXCEPT ![e] = <<>>]
  /\ Write("prime", e)
  /\ UNCHANGED quietForDriver

\* XUsbPs_IntrHandler sees a completion.
DriverTakesCompletion(e) ==
  /\ e \in complete
  /\ IF "ack" \in Discipline THEN Write("complete", e) ELSE UNCHANGED write
  /\ control' = IF Control # None /\ e = In(Control) THEN "idle" ELSE control
  /\ UNCHANGED <<quietForDriver, lists, acked>>

\* Any other write to the register file: another interrupt's status, a
\* configuration register; or the core's own of FRINDEX, ENDPTNAK or PORTSC1.
OtherWrite ==
  /\ "write" \notin Discipline
  /\ Write("other", 0)
  /\ UNCHANGED <<quietForDriver, lists, control, acked>>
-----------------------------------------------------------------------------
Tick(done) == Clock(done) /\ UNCHANGED busVars

UTNext ==
  \/ \E done \in BOOLEAN : Tick(done)
  \/ Drain \/ ZlpArrives
  \/ \E n \in Numbers : HostAsks(n)
  \/ PacketSent \/ HostAcks \/ HostSilent \/ HostSetup
  \/ DriverTakesSetup
  \/ \E e \in Endpoints : DriverPrimes(e) \/ DriverTakesCompletion(e)
  \/ OtherWrite

UTSpec == UTInit /\ [][UTNext]_utVars

\* The clock runs and every DMA transfer ends; what is in the buffers and in
\* the crossings arrives; the host keeps asking for what it wants and
\* acknowledges it; the driver's interrupt handler runs.
UTFairness ==
  /\ WF_utVars(Tick(TRUE)) /\ WF_utVars(Drain) /\ WF_utVars(ZlpArrives)
  /\ \A n \in Numbers : SF_utVars(HostAsks(n))
  /\ WF_utVars(PacketSent) /\ SF_utVars(HostAcks)
  /\ WF_utVars(DriverTakesSetup)
  /\ \A e \in Endpoints : WF_utVars(DriverTakesCompletion(e))
  /\ Control # None => WF_utVars(control = "answer" /\ DriverPrimes(In(Control)))

FairUTSpec == UTSpec /\ UTFairness
-----------------------------------------------------------------------------
InEndpoints == {e \in Endpoints : IsIn(e)}
Bits == Nat \cap ((0 .. 11) \cup (16 .. 27))

UTTypeOK ==
  /\ state \in States /\ {endpt, arbEndpt} \subseteq Bits
  /\ {primeSel, setupSel, tokenSel} \subseteq Bits \cup {None}
  /\ \A r \in {prime, stat, complete, flush, setupStat, setupStatQ, setupRec, inToken,
               inComplete, resend, zlp, zlpMask, zlp_q, uZlp} : r \subseteq Bits
  /\ {flushClear, setupAck, zlpPush, cntValid} \subseteq BOOLEAN
  /\ clearOff \in 0 .. 3 /\ (zlpCross = None \/ zlpCross \subseteq Bits)
  /\ \A e \in Endpoints : context[e].total \in 0 .. 2 ^ 15 - 1 /\ context[e].base \in Nat
  /\ {addr, addr_q, content} \subseteq [Numbers -> Nat]
  /\ inLength \in 0 .. FifoSize /\ cntData \in Nat
  /\ txFifo = None \/ (txFifo \in Packets /\ txFifo.len \in 1 .. FifoSize)
  /\ ready \in [Numbers -> (1 .. FifoSize) \cup {None}]
  /\ cntLoc \in [Numbers -> (0 .. FifoSize) \cup {None}]
  /\ {setupBuf, dqhSetup, memSetup} \subseteq Setups \cup {None}
  /\ pulse = None \/ pulse \in Pulses
  /\ write = None \/ write \in Writes
  /\ bus = None \/ bus \in Sent
  /\ control \in {"idle", "setup", "answer", "data"}
-----------------------------------------------------------------------------
(* Properties. *)

\* What the host has acknowledged is a prefix of the buffer the driver
\* queued: no byte is skipped, sent twice, or taken from elsewhere, across
\* the reload of the transmit buffer, a resend and the next descriptor.
AckedInOrder ==
  \A e \in InEndpoints : \A i \in DOMAIN acked[e] :
     /\ acked[e][i][2] > 0 =>
          acked[e][i][1] = BufferOf(e) + Received(SubSeq(acked[e], 1, i - 1))
     /\ Received(acked[e]) <= Size(e)

\* The manager is at rest between the packets of an endpoint: nothing the
\* decoder reported about it is still to be handled.
AtRest(e) ==
  /\ state = "IDLE" /\ bus = None /\ pulse = None
  /\ e \notin inToken \cup inComplete \cup resend \cup prime \cup flush

\* Between packets, what the descriptor still has to send and what the host
\* has acknowledged add up to what the driver queued: each packet is counted
\* once, with its own length.
RemainingCounted ==
  \A e \in InEndpoints \cap stat : AtRest(e) =>
     context[e].total + Received(acked[e]) = Bytes(lists[e], context[e].index)

\* ENDPTCOMPLETE is set for an IN endpoint only when the host has the whole
\* transfer.
CompleteMeansDelivered ==
  \A e \in InEndpoints \cap complete : Received(acked[e]) = Size(e)

\* An IN endpoint leaves ENDPTSTAT by a flush or into ENDPTCOMPLETE: the end of
\* a transfer is never lost between the two registers.
CompletionReported ==
  [][\A e \in InEndpoints : e \in stat \ (stat' \cup flush) => e \in complete']_utVars

\* Between packets, an IN endpoint ENDPTSTAT shows as ready has something to
\* answer the next token with: a packet in its own buffer or on its way there,
\* or the request of a zero-length packet.
StatMeansLoaded ==
  \A e \in InEndpoints \cap stat : AtRest(e) =>
     \/ ready[Number(e)] # None
     \/ txFifo # None
     \/ e \in zlp \cup uZlp

\* ENDPTSETUPSTAT is set only when memory holds the bytes of the SETUP packet
\* the host sent last: the driver, which reads them on seeing it, never takes
\* those of the packet before.
SetupStatMeansCopied == setupStat # {} => memSetup = setupBuf

\* A primed transfer is completed.
TransferCompletes == \A e \in InEndpoints : e \in prime ~> e \in complete

\* A SETUP packet reaches the driver.
SetupDelivered == control = "setup" ~> control = "answer"
=============================================================================
