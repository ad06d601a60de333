--------------------------- MODULE SetupTripwire ---------------------------
(***************************************************************************)
(* The way of a SETUP packet from the receive path to the driver: the      *)
(* transfer manager copies its two words into the queue head (its SETUP    *)
(* states in DMA_Transfer_Manager.vhd), the interrupt handler of the       *)
(* driver (xusbps_intr.c) reads them from there, and the setup tripwire,   *)
(* bit SUTW of USBCMD, tells it when they changed meanwhile                *)
(* (XUsbPs_EpGetSetupData, xusbps_endpoint.c).  USBMODE.SLOM is set, as    *)
(* the driver leaves it.  A bus reset interrupts the driver too, and has   *)
(* no effect on the hardware that is modelled.                             *)
(*                                                                         *)
(* The two words of the n-th packet are both n; 0 is no packet.  A step of *)
(* the driver is one access to a register or to memory, many clocks after  *)
(* the one before.  A write of USBSTS or ENDPTSETUPSTAT discards every set *)
(* of that register in its clock (Control_Registers.vhd), whatever it      *)
(* writes: ReportDiscarded and BitDiscarded are such a clock.  Any other   *)
(* write in the clock of a hardware update has the effect of one in the    *)
(* clock after it.                                                         *)
(***************************************************************************)
EXTENDS Naturals, Sequences

CONSTANTS MaxSetups,  \* packets the host sends
          MaxOther,   \* other requests the manager serves
          Spaced      \* a packet comes when the manager is done with the last one

ASSUME TripwireAssumption == MaxSetups \in Nat /\ MaxOther \in Nat /\ Spaced \in BOOLEAN

VARIABLES
    sent,      \* the last packet the host sent, and saw acknowledged
    words,     \* a_Arb_dQH_Setup_Buffer_Bytes_*_Wr, what has crossed of it
    arriving,  \* the report of the packet has not crossed
    received,  \* a_Arb_ENDPTSETUP_RECEIVED_Rd, the bit of endpoint 0
    state,     \* of the manager
    context,   \* dQH_Setup_Buffer_Bytes_* of the context memory
    memory,    \* XUSBPS_dQHSUB0 and 1
    SUTW, SETUPSTAT,  \* bits of USBCMD and ENDPTSETUPSTAT
    USBSTS,    \* its bits that are set, of the two that are enabled
    other,     \* other requests served
    wasReset,  \* a bus reset was reported; no later one is (see EventReport)
    pc,        \* where the driver is
    IrqSts,    \* what XUsbPs_IntrHandler has read of USBSTS
    Data,      \* what XUsbPs_EpGetSetupData has read
    handled    \* the packets given to XUsbPs_Ch9HandleSetupPacket

hardware == <<sent, words, arriving, received, state, context, memory, other, wasReset>>
driver   == <<pc, IrqSts, Data, handled>>
vars     == <<hardware, SUTW, SETUPSTAT, USBSTS, driver>>

Packets == 0 .. MaxSetups
Words   == [{1, 2} -> Packets]
None    == [i \in {1, 2} |-> 0]
Packet(n) == [i \in {1, 2} |-> n]

\* The states in which every clock clears SUTW.
Clearing == {"SETUP_UPDATE_SETUP_BYTES", "SETUP_S2MM"}
States == Clearing \cup {"IDLE", "SETUP_UPDATE_ENDPTSETUP_RECEIVED", "OTHER"}

Init ==
    /\ sent = 0 /\ words = None /\ arriving = FALSE /\ received = FALSE
    /\ state = "IDLE" /\ context = None /\ memory = None
    /\ SUTW = FALSE /\ SETUPSTAT = FALSE /\ USBSTS = {} /\ other = 0 /\ wasReset = FALSE
    /\ pc = "main" /\ IrqSts = {} /\ Data = None /\ handled = <<>>

-----------------------------------------------------------------------------
(* The receive path: the words cross first, the report last.               *)

HostSends ==
    /\ sent < MaxSetups /\ ~arriving
    /\ Spaced => state = "IDLE" /\ ~received
    /\ sent' = sent + 1 /\ arriving' = TRUE
    /\ UNCHANGED <<words, received, state, context, memory, other, wasReset,
                   SUTW, SETUPSTAT, USBSTS, driver>>

WordCrosses(i) ==
    /\ words[i] # sent
    /\ words' = [words EXCEPT ![i] = sent]
    /\ UNCHANGED <<sent, arriving, received, state, context, memory, other, wasReset,
                   SUTW, SETUPSTAT, USBSTS, driver>>

ReportCrosses ==
    /\ arriving /\ words = Packet(sent)
    /\ received' = TRUE /\ arriving' = FALSE
    /\ UNCHANGED <<sent, words, state, context, memory, other, wasReset,
                   SUTW, SETUPSTAT, USBSTS, driver>>

-----------------------------------------------------------------------------
(* The transfer manager, and the protocol engine's report of a bus reset.  *)

\* IDLE, when it serves the packet, and SETUP_LOCKOUT_TRIPWIRE.
SetupLockoutTripwire ==
    /\ state = "IDLE" /\ received
    /\ state' = "SETUP_UPDATE_SETUP_BYTES" /\ SUTW' = FALSE
    /\ UNCHANGED <<sent, words, arriving, received, context, memory, other, wasReset,
                   SETUPSTAT, USBSTS, driver>>

SetupUpdateSetupBytes ==
    /\ state = "SETUP_UPDATE_SETUP_BYTES"
    /\ context' = words /\ state' = "SETUP_S2MM"
    /\ UNCHANGED <<sent, words, arriving, received, memory, other, wasReset,
                   SUTW, SETUPSTAT, USBSTS, driver>>

\* The DMA writes one word after the other.
SetupS2MMWord(i) ==
    /\ state = "SETUP_S2MM" /\ memory[i] # context[i]
    /\ i = 2 => memory[1] = context[1]
    /\ memory' = [memory EXCEPT ![i] = context[i]]
    /\ UNCHANGED <<sent, words, arriving, received, state, context, other, wasReset,
                   SUTW, SETUPSTAT, USBSTS, driver>>

\* The DMA completes: in this clock the manager sets ENDPTSETUPSTAT and UI.
SetupCopied ==
    /\ state = "SETUP_S2MM" /\ memory = context
    /\ state' = "SETUP_UPDATE_ENDPTSETUP_RECEIVED"
    /\ UNCHANGED <<sent, words, arriving, received, context, memory, other, wasReset, SUTW>>

SetupS2MM ==
    /\ SetupCopied
    /\ SETUPSTAT' = TRUE /\ USBSTS' = USBSTS \cup {"UI"}
    /\ UNCHANGED driver

SetupUpdateReceivedKept ==   \* mutated: the bit of the packet is not cleared
    /\ state = "SETUP_UPDATE_ENDPTSETUP_RECEIVED"
    /\ state' = "IDLE"
    /\ UNCHANGED <<sent, words, arriving, received, context, memory, other, wasReset,
                   SUTW, SETUPSTAT, USBSTS, driver>>

SetupUpdateReceived ==
    /\ state = "SETUP_UPDATE_ENDPTSETUP_RECEIVED"
    /\ received' = FALSE /\ state' = "IDLE"
    /\ UNCHANGED <<sent, words, arriving, context, memory, other, wasReset,
                   SUTW, SETUPSTAT, USBSTS, driver>>

\* Priming an endpoint and serving an IN token; a transfer that completes
\* interrupts the driver.
OtherStart ==
    /\ state = "IDLE" /\ other < MaxOther
    /\ state' = "OTHER" /\ other' = other + 1
    /\ UNCHANGED <<sent, words, arriving, received, context, memory, wasReset,
                   SUTW, SETUPSTAT, USBSTS, driver>>

OtherDone ==
    /\ state = "OTHER" /\ state' = "IDLE"
    /\ UNCHANGED <<sent, words, arriving, received, context, memory, other, wasReset,
                   SUTW, SETUPSTAT>>

OtherEnd ==
    /\ OtherDone
    /\ USBSTS' \in {USBSTS, USBSTS \cup {"UI"}}
    /\ UNCHANGED driver

ResetDone ==
    /\ ~wasReset /\ wasReset' = TRUE
    /\ UNCHANGED <<sent, words, arriving, received, state, context, memory, other,
                   SUTW, SETUPSTAT>>

BusReset ==
    /\ ResetDone
    /\ USBSTS' = USBSTS \cup {"UR"}
    /\ UNCHANGED driver

-----------------------------------------------------------------------------
(* The driver.                                                             *)

Goto(from, to) == pc = from /\ pc' = to

\* XUsbPs_IntrHandler runs while an enabled bit of USBSTS is set.
IntrHandler ==
    /\ USBSTS # {} /\ Goto("main", "acknowledge")
    /\ IrqSts' = USBSTS
    /\ UNCHANGED <<hardware, SUTW, SETUPSTAT, USBSTS, Data, handled>>

\* A bus reset is handled alone, without a look at the other bits read.
Handling == IF "UR" \in IrqSts THEN "reset" ELSE "epstat"

ClearISRLate ==   \* mutated: clears USBSTS when it has read ENDPTSETUPSTAT
    /\ \/ Goto("acknowledge", Handling) /\ UNCHANGED USBSTS
       \/ Goto("epstat", "late") /\ ~SETUPSTAT /\ UNCHANGED USBSTS
       \/ Goto("late", "main") /\ USBSTS' = USBSTS \ IrqSts
    /\ UNCHANGED <<hardware, SUTW, SETUPSTAT, IrqSts, Data, handled>>

\* It clears what it has read, before it looks at the cause.
WriteISR ==
    /\ Goto("acknowledge", Handling)
    /\ USBSTS' = USBSTS \ IrqSts
    /\ UNCHANGED <<IrqSts, Data, handled>>

ClearISR == WriteISR /\ UNCHANGED <<hardware, SUTW, SETUPSTAT>>

\* What is reported in the clock of the write does not get its bit of USBSTS.
ReportDiscarded ==
    /\ WriteISR
    /\ (SetupCopied /\ SETUPSTAT' = TRUE) \/ OtherDone \/ ResetDone

ReadEPSTAT ==
    /\ Goto("epstat", IF SETUPSTAT THEN "arm" ELSE "main")
    /\ UNCHANGED <<hardware, SUTW, SETUPSTAT, USBSTS, IrqSts, Data, handled>>

\* XUsbPs_IntrHandleReset reads ENDPTSETUPSTAT and writes back what it has read.
ResetReadEPSTAT ==
    /\ Goto("reset", IF SETUPSTAT THEN "writeset" ELSE "writeclear")
    /\ UNCHANGED <<hardware, SUTW, SETUPSTAT, USBSTS, IrqSts, Data, handled>>

ResetWriteEPSTAT ==
    /\ \/ Goto("writeset", "main") /\ SETUPSTAT' = FALSE
       \/ Goto("writeclear", "main") /\ UNCHANGED SETUPSTAT
    /\ UNCHANGED <<hardware, SUTW, USBSTS, IrqSts, Data, handled>>

\* A packet reported in the clock of a write of 0 does not get its bit.
BitDiscarded ==
    /\ Goto("writeclear", "main") /\ SetupCopied
    /\ USBSTS' = USBSTS \cup {"UI"}
    /\ UNCHANGED <<SETUPSTAT, IrqSts, Data, handled>>

\* XUsbPs_EpGetSetupData.  The manager may clear the bit in the next clock.
SetSetupTripwire ==
    /\ Goto("arm", "read1")
    /\ SUTW' = (state \notin Clearing)
    /\ UNCHANGED <<hardware, SETUPSTAT, USBSTS, IrqSts, Data, handled>>

ReadSUB(i) ==
    /\ IF i = 1 THEN Goto("read1", "read2") ELSE Goto("read2", "check")
    /\ Data' = [Data EXCEPT ![i] = memory[i]]
    /\ UNCHANGED <<hardware, SUTW, SETUPSTAT, USBSTS, IrqSts, handled>>

SetupTripwireIgnored ==   \* mutated: reads the buffer once
    /\ Goto("check", "clear")
    /\ UNCHANGED <<hardware, SUTW, SETUPSTAT, USBSTS, IrqSts, Data, handled>>

SetupTripwireIsSet ==
    /\ Goto("check", IF SUTW THEN "clear" ELSE "arm")
    /\ UNCHANGED <<hardware, SUTW, SETUPSTAT, USBSTS, IrqSts, Data, handled>>

ClearEPSTAT ==
    /\ Goto("clear", "disarm")
    /\ SETUPSTAT' = FALSE
    /\ UNCHANGED <<hardware, SUTW, USBSTS, IrqSts, Data, handled>>

ClrSetupTripwire ==
    /\ Goto("disarm", "poll")
    /\ SUTW' = FALSE
    /\ UNCHANGED <<hardware, SETUPSTAT, USBSTS, IrqSts, Data, handled>>

\* It waits for the bit to read as 0, up to a limit; the packet is handled if
\* it does.  Endpoint 0 is primed for the next one in either case.
PollEPSTAT ==
    /\ Goto("poll", "main")
    /\ handled' = IF SETUPSTAT THEN handled ELSE Append(handled, Data)
    /\ UNCHANGED <<hardware, SUTW, SETUPSTAT, USBSTS, IrqSts, Data>>

-----------------------------------------------------------------------------
SetupStates ==
    \/ SetupLockoutTripwire \/ SetupUpdateSetupBytes
    \/ (\E i \in {1, 2} : SetupS2MMWord(i)) \/ SetupS2MM \/ SetupUpdateReceived

Driver ==
    \/ IntrHandler \/ ClearISR \/ ReportDiscarded \/ ReadEPSTAT
    \/ ResetReadEPSTAT \/ ResetWriteEPSTAT \/ BitDiscarded \/ SetSetupTripwire
    \/ (\E i \in {1, 2} : ReadSUB(i)) \/ SetupTripwireIsSet \/ ClearEPSTAT
    \/ ClrSetupTripwire \/ PollEPSTAT

Next ==
    \/ HostSends \/ (\E i \in {1, 2} : WordCrosses(i)) \/ ReportCrosses
    \/ SetupStates \/ OtherStart \/ OtherEnd \/ BusReset
    \/ Driver

Spec == Init /\ [][Next]_vars

\* Clocks tick, the DMA completes, and the processor takes its interrupts.
Fairness == /\ WF_vars(\E i \in {1, 2} : WordCrosses(i)) /\ WF_vars(ReportCrosses)
            /\ WF_vars(SetupStates) /\ WF_vars(OtherEnd) /\ WF_vars(Driver)

FairSpec == Spec /\ Fairness
-----------------------------------------------------------------------------
(* What should hold.                                                       *)

\* The driver never acts on eight bytes that are not those of one packet,
\* whenever the next packet is written over the one it is reading.
SetupWhole == \A k \in DOMAIN handled : \E n \in 1 .. sent : handled[k] = Packet(n)

\* It acts on a packet once, and on no packet after a later one.
HandledInOrder ==
    \A k \in DOMAIN handled : k > 1 => handled[k - 1][1] < handled[k][1]

\* No packet that is reported stays unseen, whatever the driver is doing then,
\* although the write of USBSTS may discard its interrupt: the handler takes
\* it, or that of a bus reset drops it.
ReportsServed == SETUPSTAT ~> ~SETUPSTAT

\* The last packet the host has sent is acted on in the end.
LastHandled == <>[](sent > 0 => handled # <<>> /\ handled[Len(handled)] = Packet(sent))
=============================================================================
