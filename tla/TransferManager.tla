-------------------------- MODULE TransferManager --------------------------
(***************************************************************************)
(* The DMA transfer manager of the USB device core: the state machine of   *)
(* DMA_Transfer_Manager.vhd with the status registers of top.vhd and the   *)
(* endpoint registers of Control_Registers.vhd that it shares with the     *)
(* driver.  One Clock step is one edge of Axi_Clk: every register takes    *)
(* its next value from the values before the edge.                         *)
(*                                                                         *)
(* An endpoint is its bit in the registers: n for OUT, n + 16 for IN.  A   *)
(* register is the set of its bits.  A packet is the address it was read   *)
(* from and its length; memory holds, for each endpoint, a list of         *)
(* transfer descriptors over one buffer.  A DMA transfer takes any number  *)
(* of clocks (Clock(FALSE) waits, Clock(TRUE) completes it).               *)
(*                                                                         *)
(* Left out: the states of the OUT framework, which the source calls       *)
(* untested; the USBSTS.UI strobes; the multiplexer selects of the stream  *)
(* and context ports; dQH fields the state machine only copies.            *)
(***************************************************************************)
EXTENDS Integers, Sequences, FiniteSets, FiniteSetsExt

CONSTANTS Endpoints,   \* the endpoints in use, as register bits
          FifoSize,    \* C_FIFO_SIZE, the largest packet
          SLOM,        \* USBMODE(SLOM), setup lockout mode
          Setups,      \* the contents of SETUP packets
          None

Pulses == [kind : {"token", "complete", "resend", "setup"}, bit : Nat]
Writes == [kind : {"prime", "complete", "setupStat", "other"}, bit : Nat]
Packets == [from : Nat, len : Nat, number : Nat]

ASSUME TransferAssumption ==
  /\ Endpoints \subseteq (0 .. 11) \cup (16 .. 27) /\ IsFiniteSet(Endpoints)
  /\ FifoSize \in Nat \ {0}
  /\ SLOM \in BOOLEAN
  /\ None \notin Int /\ None \notin Setups /\ \A bits \in SUBSET Endpoints : bits # None
  /\ None \notin Pulses /\ None \notin Writes /\ None \notin Packets

VARIABLES
  state,                        \* of the state machine
  endpt, arbEndpt,              \* a_Endpt_Nr_Int, and a_Arb_Endpt_Nr a clock later
  primeSel, setupSel, tokenSel, \* a_Endpt_Nr_Prime/Setup/In_Token, None: no request
  prime, stat, complete, flush, \* ENDPTPRIME, ENDPTSTAT, ENDPTCOMPLETE, ENDPTFLUSH
  flushClear,                   \* a_ENDPTFLUSH_Clear_En
  setupStat, setupStatQ,        \* ENDPTSETUPSTAT and its registered write
  setupRec, setupAck,           \* a_Arb_ENDPTSETUP_RECEIVED_Rd and _Ack
  inToken, inComplete, resend,  \* a_In_Token_Received_Rd, a_In_Packet_Complete_Rd, a_Resend
  zlp, zlpMask, clearOff,       \* a_Send_Zero_Length_Packet_iData; the bits being cleared;
                                \* clocks until the clearing resumes
  zlp_q, zlpPush, zlpCross,     \* the previous zlp, its push, the word crossing to ULPI
  context,                      \* Context.vhd: the current dTD of each endpoint
  addr, addr_q, inLength,       \* a_DMA_Current_Transfer_Addr_Array(_q), a_DMA_In_Transfer_Length
  cntLoc, cntValid, cntData,    \* a_Cnt_Bytes_Sent_oData_Loc(i); what the manager sees of them
  txFifo,                       \* the packet in TX_FIFO
  setupBuf, dqhSetup, memSetup, \* SETUP bytes: received, in the context, in memory
  lists,                        \* memory: the dTD list of each endpoint
  pulse, write                  \* strobes for the next edge: an event, a register write

selVars   == <<endpt, arbEndpt, primeSel, setupSel, tokenSel>>
regVars   == <<prime, stat, complete, flush, flushClear, setupStat, setupStatQ>>
eventVars == <<setupRec, setupAck, inToken, inComplete, resend,
               zlp, zlpMask, clearOff, zlp_q, zlpPush, zlpCross>>
dmaVars   == <<context, addr, addr_q, inLength, txFifo, dqhSetup, memSetup>>
cntVars   == <<cntValid, cntData>>
inputVars == <<cntLoc, setupBuf, lists, pulse, write>>
tmVars    == <<state, selVars, regVars, eventVars, dmaVars, cntVars, inputVars>>
-----------------------------------------------------------------------------
Number(e) == e % 16      \* a_Endpt_Nr_4b
IsIn(e)   == e >= 16     \* a_Endpt_In_Out
Numbers   == {0} \cup {Number(e) : e \in Endpoints}

\* The loops of DET_PRIME_, DET_SETUP_ and DET_TOKEN_IN_ENDPTNR_PROC: the last
\* bit found set wins.
Highest(bits) == IF bits = {} THEN None ELSE Max(bits)


\* Memory holds, for each endpoint, the sizes of a list of dTDs over one
\* buffer, each dTD starting where the one before it ends.
Bytes(sizes, k) ==
  LET sum[i \in 0 .. k] == IF i = 0 THEN 0 ELSE sum[i - 1] + sizes[i] IN sum[k]
BufferOf(e) == 100 * (e + 1)
Dtd(e, k) == [total |-> lists[e][k],                          \* dTD_TOTAL_BYTES
              base  |-> BufferOf(e) + Bytes(lists[e], k - 1), \* PAGE0 and the offset
              index |-> k, last |-> k = Len(lists[e])]        \* last: the T bit of the dQH
NoDtd == [total |-> 0, base |-> 0, index |-> 0, last |-> FALSE]

States == {"IDLE", "SETUP_LOCKOUT_TRIPWIRE", "SETUP_UPDATE_SETUP_BYTES", "SETUP_WAIT1",
           "SETUP_S2MM", "SETUP_UPDATE_ENDPTSETUP_RECEIVED", "SETUP_WAIT2",
           "PRIME_MM2S_DQH", "PRIME_WAIT0", "PRIME_MM2S_DTD", "PRIME_FILL_FIFO",
           "PRIME_FILL_FIFO_1", "PRIME_FILL_FIFO_2", "PRIME_WAIT1", "PRIME_WAIT2",
           "START_IN_FRAMEWORK", "IN_HANDSHAKE", "IN_WAIT0", "IN_CHECK_COMPLETE",
           "IN_TRANSFER_MM2S", "IN_RELOAD_BUFFER", "IN_WAIT1", "IN_TRANSACTION_COMPLETE",
           "IN_FETCH_NEXT_DTD", "IN_WAIT2"}


TMInit ==
  /\ state = "IDLE" /\ endpt = 0 /\ arbEndpt = 0
  /\ primeSel = None /\ setupSel = None /\ tokenSel = None
  /\ prime = {} /\ stat = {} /\ complete = {} /\ flush = {} /\ flushClear = FALSE
  /\ setupStat = {} /\ setupStatQ = {} /\ setupRec = {} /\ setupAck = FALSE
  /\ inToken = {} /\ inComplete = {} /\ resend = {}
  /\ zlp = {} /\ zlpMask = {} /\ clearOff = 0
  /\ zlp_q = {} /\ zlpPush = FALSE /\ zlpCross = None
  /\ context = [e \in Endpoints |-> NoDtd]
  /\ addr = [n \in Numbers |-> 0] /\ addr_q = [n \in Numbers |-> 0] /\ inLength = 0
  /\ cntLoc = [n \in Numbers |-> None] /\ cntValid = FALSE /\ cntData = 0
  /\ txFifo = None
  /\ setupBuf = None /\ dqhSetup = None /\ memSetup = None
  /\ lists = [e \in Endpoints |-> <<>>]
  /\ pulse = None /\ write = None
-----------------------------------------------------------------------------
(* The registers.  "out" is what the state machine drives this clock.      *)

Quiet == [select |-> None, command |-> FALSE, primeClear |-> {}, primeSet |-> {},
          completeSet |-> {}, statSet |-> {}, statClear |-> {}, flushSet |-> {},
          setupStatSet |-> {}, setupRecClear |-> {}, tokenClear |-> {},
          packetClear |-> {}, resendClear |-> {}, zlpSet |-> {}]

Signalled(kind) == IF pulse # None /\ pulse.kind = kind THEN {pulse.bit} ELSE {}
Written(kind)   == IF write # None /\ write.kind = kind THEN {write.bit} ELSE {}

\* Most registers take a set or a clear per clock, and prefer the set.
SetOrClear(bits, set, clear) == IF set # {} THEN bits \cup set ELSE bits \ clear

\* The endpoint the state machine works on, and the one each request
\* register asks for next.
Selection(out) ==
  /\ endpt' = IF out.select = None THEN endpt ELSE out.select
  /\ arbEndpt' = endpt
  /\ primeSel' = Highest(prime)
  /\ setupSel' = Highest(setupRec)
  /\ tokenSel' = IF inToken \cap stat = {} THEN None ELSE Highest(inToken)

\* The register process of Control_Registers.vhd: one chain in which a write
\* of the driver, whatever the register, comes first, then SUTW and ATDTW, the
\* clear of ENDPTPRIME, its set, and last ENDPTCOMPLETE.
EndpointRegistersKept(out) ==   \* mutated: ENDPTPRIME is never cleared
  /\ prime' = prime \cup Written("prime")
  /\ complete' = (complete \ Written("complete")) \cup out.completeSet

EndpointRegisters(out) ==
  /\ prime' = IF Written("prime") # {} THEN Written("prime")
              ELSE IF write # None \/ out.command THEN prime
              ELSE IF out.primeClear # {} THEN prime \ out.primeClear
              ELSE prime \cup out.primeSet
  /\ complete' = IF write # None THEN complete \ Written("complete")
                 ELSE IF out.command \/ out.primeClear # {} \/ out.primeSet # {}
                 THEN complete
                 ELSE complete \cup out.completeSet

StatusRegisters(out) ==
  /\ stat' = IF out.statSet # {} THEN stat \cup out.statSet
             ELSE IF out.statClear # {} THEN stat \ out.statClear
             ELSE stat \ flush
  /\ flush' = IF flushClear THEN {} ELSE flush \cup out.flushSet
  /\ flushClear' = (flush # {})
  /\ setupStat' = IF Written("setupStat") # {} THEN setupStat \ Written("setupStat")
                  ELSE setupStat \cup setupStatQ
  /\ setupStatQ' = out.setupStatSet

\* The registers of top.vhd between the protocol engine and the manager.
EventRegisters(out) ==
  /\ IF Signalled("setup") # {}
     THEN setupRec' = Signalled("setup") /\ setupAck' = FALSE
     ELSE setupRec' = setupRec \ out.setupRecClear /\ setupAck' = (out.setupRecClear # {})
  /\ inToken' = SetOrClear(inToken, Signalled("token"), out.tokenClear)
  /\ inComplete' = SetOrClear(inComplete, Signalled("complete"), out.packetClear)
  /\ resend' = SetOrClear(resend, Signalled("resend"), out.resendClear)

\* A zero-length packet is asked for with a bit of zlp, whose changes are
\* pushed to the ULPI side.  The strobe that clears zlp is a level, not a
\* pulse: from the first clear on it repeats the last mask in every clock, but
\* for three clocks after each report of an IN token.
ZeroLength(out) ==
  /\ zlp' = SetOrClear(zlp, out.zlpSet, IF clearOff = 0 THEN zlpMask ELSE {})
  /\ clearOff' = IF Signalled("token") # {} THEN 3 ELSE IF clearOff = 0 THEN 0 ELSE clearOff - 1
  /\ zlp_q' = zlp
  /\ zlpPush' = (zlp_q # zlp /\ zlpCross = None)
  /\ zlpCross' = IF zlpPush /\ zlpCross = None THEN zlp ELSE zlpCross
  /\ UNCHANGED zlpMask

\* IN_TRANSF_CNT_OVALID_PROC and _ODATA_PROC: the count of the endpoint number
\* the manager worked on a clock ago.  oValid is never cleared, so that after
\* an endpoint's first packet its count is always "valid".
SentCount ==
  /\ cntValid' = (cntLoc[Number(arbEndpt)] # None)
  /\ cntData' = IF cntValid' THEN cntLoc[Number(arbEndpt)] ELSE cntData

Step(next, out) ==
  /\ state' = next
  /\ Selection(out) /\ EndpointRegisters(out) /\ StatusRegisters(out)
  /\ EventRegisters(out) /\ ZeroLength(out) /\ SentCount
  /\ pulse' = None /\ write' = None
  /\ UNCHANGED <<cntLoc, setupBuf, lists>>

\* A state that only drives registers, or waits.
Drive(next, out) == Step(next, out) /\ UNCHANGED dmaVars
Wait == Drive(state, Quiet)
-----------------------------------------------------------------------------
(* The state machine: IDLE. *)

\* A prime is served before a SETUP packet, a SETUP packet before an IN token.
IdleSetupFirst(done) ==   \* mutated: serves any IN token before a SETUP packet
  /\ state = "IDLE"
  /\ IF tokenSel # None
     THEN Drive("START_IN_FRAMEWORK", [Quiet EXCEPT !.select = tokenSel])
     ELSE IF setupSel # None
     THEN Drive("SETUP_WAIT2", [Quiet EXCEPT !.select = setupSel])
     ELSE IF primeSel # None
     THEN Drive("PRIME_MM2S_DQH", [Quiet EXCEPT !.select = primeSel])
     ELSE Wait

Idle(done) ==
  /\ state = "IDLE"
  /\ IF primeSel # None
     THEN Drive("PRIME_MM2S_DQH", [Quiet EXCEPT !.select = primeSel])
     ELSE IF setupSel # None
     THEN Drive("SETUP_LOCKOUT_TRIPWIRE", [Quiet EXCEPT !.select = setupSel])
     ELSE IF tokenSel # None
     THEN Drive("START_IN_FRAMEWORK", [Quiet EXCEPT !.select = tokenSel])
     ELSE Wait
-----------------------------------------------------------------------------
(* SETUP packets: copy the eight bytes to the dQH in memory. *)

SetupLockout(done) ==
  /\ state = "SETUP_LOCKOUT_TRIPWIRE"
  /\ IF SLOM
     THEN Drive("SETUP_UPDATE_SETUP_BYTES",
                [Quiet EXCEPT !.command = TRUE, !.tokenClear = {endpt + 16},
                              !.flushSet = {endpt + 16}])
     ELSE Drive("IDLE", Quiet)

SetupBytes(done) ==
  /\ state = "SETUP_UPDATE_SETUP_BYTES"
  /\ Step("SETUP_WAIT1", [Quiet EXCEPT !.command = TRUE])
  /\ dqhSetup' = setupBuf
  /\ UNCHANGED <<context, addr, addr_q, inLength, txFifo, memSetup>>

SetupWait1(done) ==
  /\ state = "SETUP_WAIT1"
  /\ Drive("SETUP_S2MM", [Quiet EXCEPT !.command = TRUE])

SetupS2MMEarly(done) ==   \* mutated: reports the packet before it is in memory
  /\ state = "SETUP_S2MM"
  /\ IF done
     THEN /\ Step("SETUP_UPDATE_ENDPTSETUP_RECEIVED", [Quiet EXCEPT !.command = TRUE])
          /\ memSetup' = dqhSetup
          /\ UNCHANGED <<context, addr, addr_q, inLength, txFifo, dqhSetup>>
     ELSE Drive(state, [Quiet EXCEPT !.command = TRUE, !.setupStatSet = {endpt}])

SetupS2MM(done) ==
  /\ state = "SETUP_S2MM"
  /\ IF done
     THEN /\ Step("SETUP_UPDATE_ENDPTSETUP_RECEIVED",
                  [Quiet EXCEPT !.command = TRUE, !.setupStatSet = {endpt}])
          /\ memSetup' = dqhSetup
          /\ UNCHANGED <<context, addr, addr_q, inLength, txFifo, dqhSetup>>
     ELSE Drive(state, [Quiet EXCEPT !.command = TRUE])

SetupUpdateReceived(done) ==
  /\ state = "SETUP_UPDATE_ENDPTSETUP_RECEIVED"
  /\ Drive(IF setupAck THEN "SETUP_WAIT2" ELSE state, [Quiet EXCEPT !.setupRecClear = {endpt}])

SetupWait2(done) ==
  /\ state = "SETUP_WAIT2"
  /\ Drive("IDLE", Quiet)
-----------------------------------------------------------------------------
(* Priming: fetch the dQH and its first dTD, and fill the TX FIFO of an IN *)
(* endpoint.                                                               *)

PrimeDqh(done) ==
  /\ state = "PRIME_MM2S_DQH"
  /\ IF done THEN Drive("PRIME_WAIT0", Quiet) ELSE Wait

PrimeWait0(done) ==
  /\ state = "PRIME_WAIT0"
  /\ Drive("PRIME_MM2S_DTD", Quiet)

Primed == [Quiet EXCEPT !.primeClear = {endpt}, !.statSet = {endpt}]

PrimeDtd(done) ==
  /\ state = "PRIME_MM2S_DTD"
  /\ IF ~done THEN Wait
     ELSE /\ IF IsIn(endpt) THEN Step("PRIME_FILL_FIFO", Quiet) ELSE Step("PRIME_WAIT1", Primed)
          /\ txFifo' = IF IsIn(endpt) THEN None ELSE txFifo   \* tx_fifo_resetn
          /\ context' = [context EXCEPT ![endpt] = Dtd(endpt, 1)]
          /\ addr' = [addr EXCEPT ![Number(endpt)] = Dtd(endpt, 1).base]
          /\ addr_q' = [addr_q EXCEPT ![Number(endpt)] = addr[Number(endpt)]]
          /\ UNCHANGED <<inLength, dqhSetup, memSetup>>

Total == context[endpt].total

PrimeFillFifo(done) ==
  /\ state = "PRIME_FILL_FIFO"
  /\ IF Total = 0 THEN Drive("PRIME_WAIT1", [Primed EXCEPT !.zlpSet = {endpt}])
     ELSE Drive(IF Total < FifoSize THEN "PRIME_FILL_FIFO_1" ELSE "PRIME_FILL_FIFO_2", Quiet)

\* A packet goes into the FIFO, at the address the array gives it.  The FIFO
\* empties into the block RAM long before another packet can follow it.  A DMA
\* transfer of no bytes never starts.
Load(from, len) ==
  /\ txFifo = None /\ len > 0
  /\ txFifo' = [from |-> from, len |-> len, number |-> Number(endpt)]

PrimeFillFifo1(done) ==
  /\ state = "PRIME_FILL_FIFO_1"
  /\ IF done
     THEN /\ Load(addr[Number(endpt)], Total)
          /\ Step("PRIME_WAIT1", Primed)
          /\ UNCHANGED <<context, addr, addr_q, inLength, dqhSetup, memSetup>>
     ELSE Wait

PrimeFillFifo2Whole(done) ==   \* mutated: loads the whole dTD
  /\ state = "PRIME_FILL_FIFO_2"
  /\ IF done
     THEN /\ Load(addr[Number(endpt)], Total)
          /\ addr' = [addr EXCEPT ![Number(endpt)] = context[endpt].base + FifoSize]
          /\ addr_q' = [addr_q EXCEPT ![Number(endpt)] = addr[Number(endpt)]]
          /\ Step("PRIME_WAIT1", Primed)
          /\ UNCHANGED <<context, inLength, dqhSetup, memSetup>>
     ELSE Wait

PrimeFillFifo2Stay(done) ==   \* mutated: leaves the address where it was
  /\ state = "PRIME_FILL_FIFO_2"
  /\ IF done
     THEN /\ Load(addr[Number(endpt)], FifoSize)
          /\ Step("PRIME_WAIT1", Primed)
          /\ UNCHANGED <<context, addr, addr_q, inLength, dqhSetup, memSetup>>
     ELSE Wait

PrimeFillFifo2(done) ==
  /\ state = "PRIME_FILL_FIFO_2"
  /\ IF done
     THEN /\ Load(addr[Number(endpt)], FifoSize)
          /\ addr' = [addr EXCEPT ![Number(endpt)] = context[endpt].base + FifoSize]
          /\ addr_q' = [addr_q EXCEPT ![Number(endpt)] = addr[Number(endpt)]]
          /\ Step("PRIME_WAIT1", Primed)
          /\ UNCHANGED <<context, inLength, dqhSetup, memSetup>>
     ELSE Wait

PrimeWait1(done) == state = "PRIME_WAIT1" /\ Drive("PRIME_WAIT2", Quiet)
PrimeWait2(done) == state = "PRIME_WAIT2" /\ Drive("IDLE", Quiet)
-----------------------------------------------------------------------------
(* IN transfers: after a packet, account for it and load the next one.     *)

StartIn(done) ==
  /\ state = "START_IN_FRAMEWORK"
  /\ IF endpt \in inComplete
     THEN Drive("IN_HANDSHAKE", [Quiet EXCEPT !.tokenClear = {endpt}, !.packetClear = {endpt}])
     ELSE IF endpt \in resend
     THEN /\ Step("IN_HANDSHAKE", [Quiet EXCEPT !.tokenClear = {endpt}])
          /\ txFifo' = None                                     \* tx_fifo_resetn
          /\ UNCHANGED <<context, addr, addr_q, inLength, dqhSetup, memSetup>>
     ELSE Drive(state, [Quiet EXCEPT !.tokenClear = {endpt}])

InHandshakeTwice(done) ==   \* mutated: does not look at the resend request
  /\ state = "IN_HANDSHAKE"
  /\ IF ~cntValid THEN Wait
     ELSE /\ Step("IN_WAIT0", Quiet)
          /\ context' = [context EXCEPT ![endpt].total = (@ - cntData) % 2 ^ 15]
          /\ UNCHANGED <<addr, addr_q, inLength, txFifo, dqhSetup, memSetup>>

InHandshake(done) ==
  /\ state = "IN_HANDSHAKE"
  /\ IF ~cntValid THEN Wait
     ELSE /\ Step("IN_WAIT0", Quiet)
          /\ context' = IF endpt \in resend THEN context
                        ELSE [context EXCEPT ![endpt].total = (@ - cntData) % 2 ^ 15]
          /\ UNCHANGED <<addr, addr_q, inLength, txFifo, dqhSetup, memSetup>>

InWait0(done) ==
  /\ state = "IN_WAIT0"
  /\ IF endpt \in resend
     THEN Drive("IN_RELOAD_BUFFER", [Quiet EXCEPT !.resendClear = {endpt}])
     ELSE Drive("IN_CHECK_COMPLETE", Quiet)

InCheckCompleteShort(done) ==   \* mutated: what is left, if short, counts as sent
  /\ state = "IN_CHECK_COMPLETE"
  /\ Step(IF Total < FifoSize THEN "IN_TRANSACTION_COMPLETE" ELSE "IN_TRANSFER_MM2S", Quiet)
  /\ inLength' = IF Total < FifoSize THEN Total ELSE FifoSize
  /\ UNCHANGED <<context, addr, addr_q, txFifo, dqhSetup, memSetup>>

\* DECIDE_LENGTH_PROC takes the length of the next packet in this state.
InCheckComplete(done) ==
  /\ state = "IN_CHECK_COMPLETE"
  /\ Step(IF Total = 0 THEN "IN_TRANSACTION_COMPLETE" ELSE "IN_TRANSFER_MM2S", Quiet)
  /\ inLength' = IF Total < FifoSize THEN Total ELSE FifoSize
  /\ UNCHANGED <<context, addr, addr_q, txFifo, dqhSetup, memSetup>>

InTransfer(done) ==
  /\ state = "IN_TRANSFER_MM2S"
  /\ IF done
     THEN /\ Load(addr[Number(endpt)], inLength)
          /\ addr' = [addr EXCEPT ![Number(endpt)] = context[endpt].base + cntData]
          /\ addr_q' = [addr_q EXCEPT ![Number(endpt)] = addr[Number(endpt)]]
          /\ Step("IN_WAIT1", Quiet)
          /\ UNCHANGED <<context, inLength, dqhSetup, memSetup>>
     ELSE Wait

InReloadBuffer(done) ==
  /\ state = "IN_RELOAD_BUFFER"
  /\ IF done
     THEN /\ Load(addr_q[Number(endpt)], inLength)
          /\ Step("IN_WAIT1", Quiet)
          /\ UNCHANGED <<context, addr, addr_q, inLength, dqhSetup, memSetup>>
     ELSE Wait

InWait1(done) == state = "IN_WAIT1" /\ Drive("IDLE", Quiet)

InTransactionCompleteEarly(done) ==   \* mutated: leaves ENDPTSTAT before the dQH is copied
  /\ state = "IN_TRANSACTION_COMPLETE"
  /\ IF ~done THEN Drive(state, [Quiet EXCEPT !.statClear = {endpt}])
     ELSE IF context[endpt].last
     THEN Drive("IDLE", [Quiet EXCEPT !.completeSet = {endpt}, !.statClear = {endpt}])
     ELSE Drive("IN_FETCH_NEXT_DTD", [Quiet EXCEPT !.command = TRUE, !.primeSet = {endpt}])

\* The dQH goes back to memory.  The zero-length acknowledge that also ends
\* this state is never set: its word is cleared a clock before it is pushed.
InTransactionComplete(done) ==
  /\ state = "IN_TRANSACTION_COMPLETE"
  /\ IF ~done THEN Wait
     ELSE IF context[endpt].last
     THEN Drive("IDLE", [Quiet EXCEPT !.completeSet = {endpt}, !.statClear = {endpt}])
     ELSE Drive("IN_FETCH_NEXT_DTD", [Quiet EXCEPT !.command = TRUE, !.primeSet = {endpt}])

InFetchNextDtd(done) ==
  /\ state = "IN_FETCH_NEXT_DTD"
  /\ IF done
     THEN /\ Step("IN_WAIT2", [Quiet EXCEPT !.primeClear = {endpt}])
          /\ context' = [context EXCEPT ![endpt] = Dtd(endpt, @.index + 1)]
          /\ UNCHANGED <<addr, addr_q, inLength, txFifo, dqhSetup, memSetup>>
     ELSE Wait

InWait2(done) == state = "IN_WAIT2" /\ Drive("IDLE", Quiet)
-----------------------------------------------------------------------------
Clock(done) ==
  \/ Idle(done)
  \/ SetupLockout(done) \/ SetupBytes(done) \/ SetupWait1(done) \/ SetupS2MM(done)
  \/ SetupUpdateReceived(done) \/ SetupWait2(done)
  \/ PrimeDqh(done) \/ PrimeWait0(done) \/ PrimeDtd(done) \/ PrimeFillFifo(done)
  \/ PrimeFillFifo1(done) \/ PrimeFillFifo2(done) \/ PrimeWait1(done) \/ PrimeWait2(done)
  \/ StartIn(done) \/ InHandshake(done) \/ InWait0(done) \/ InCheckComplete(done)
  \/ InTransfer(done) \/ InReloadBuffer(done) \/ InWait1(done)
  \/ InTransactionComplete(done) \/ InFetchNextDtd(done) \/ InWait2(done)
=============================================================================
