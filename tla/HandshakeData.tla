--------------------------- MODULE HandshakeData ---------------------------
(***************************************************************************)
(* HandshakeData.vhd: passes one word at a time from the InClk domain to   *)
(* the OutClk domain.  A rising iPush latches iData and flips the toggle   *)
(* iPushT; the toggle crosses to OutClk through a synchronizer, enables    *)
(* the output register when its edge is seen there, and comes back through *)
(* a second synchronizer once the receiver acknowledges; iRdy is high when *)
(* the toggle has made the whole round.                                    *)
(*                                                                         *)
(* A step of the specification is a rising edge of InClk, of OutClk, or of *)
(* both at once, or a change of the asynchronous reset.  A synchronizer's  *)
(* first flip-flop samples the old or the new value of a signal that       *)
(* changes at its clock edge: the order of the two edges gives both.       *)
(***************************************************************************)
EXTENDS Naturals

CONSTANTS Data,         \* words that are sent
          NoData,       \* the reset value of the data registers (all zeros)
          kStages,      \* flip-flops per synchronizer; the source has 2
          PulsedValid   \* TRUE: the AXI_DPTI copy, whose oValid is cleared
                        \* FALSE: the usb2device and ps2_mouse_overlay copies

ASSUME kStagesAssumption == kStages \in Nat \ {0}
ASSUME PulsedValidAssumption == PulsedValid \in BOOLEAN

VARIABLES
  aReset,       \* asynchronous reset, asserted from outside
  \* InClk domain: the sender's outputs, then the registers of the module
  iPush, iData,
  iPush_q, iData_int, iPushT, iRdy,
  iBackSync,    \* flip-flops of SyncAsyncPushTBack
  iRstSync,     \* flip-flops of SyncReset
  \* OutClk domain
  oPushSync,    \* flip-flops of SyncAsyncPushT
  oPushT_q, oPushTBack, oData, oValid

inRegs  == <<iPush_q, iData_int, iPushT, iRdy, iBackSync, iRstSync>>
inVars  == <<iPush, iData, inRegs>>
outVars == <<oPushSync, oPushT_q, oPushTBack, oData, oValid>>
vars    == <<aReset, inVars, outVars>>

Sync == INSTANCE SyncAsync WITH kResetTo <- 0
Rst  == INSTANCE SyncAsync WITH kResetTo <- 1

Bit == {0, 1}
Not(b) == 1 - b
-----------------------------------------------------------------------------
iPushRising   == iPush = 1 /\ iPush_q = 0
oPushT        == Sync!Out(oPushSync)
oPushTChanged == oPushT_q # oPushT
iPushTBack    == Sync!Out(iBackSync)
iReset        == Rst!Out(iRstSync)

TypeOK ==
  /\ {aReset, iPush, iPush_q, iPushT, iRdy, oPushT_q, oPushTBack, oValid} \subseteq Bit
  /\ iData \in Data
  /\ {iData_int, oData} \subseteq Data \cup {NoData}
  /\ iBackSync \in [1 .. kStages -> Bit]
  /\ iRstSync \in [1 .. kStages -> Bit]
  /\ oPushSync \in [1 .. kStages -> Bit]

\* The registers under reset, before and after the step that asserts it.
Init ==
  /\ aReset = 1
  /\ iPush = 0 /\ iData \in Data
  /\ iPush_q = 0 /\ iData_int = NoData /\ iPushT = 0 /\ iRdy = 0
  /\ iBackSync = Sync!Cleared /\ iRstSync = Rst!Cleared
  /\ oPushSync = Sync!Cleared /\ oPushT_q = 0 /\ oPushTBack = 0
  /\ oData = NoData /\ oValid = 0
-----------------------------------------------------------------------------
(* The InClk domain. *)

\* DetectPush and LatchData.
DetectPush == iPush_q' = iPush

LatchDataCounts ==   \* mutated: counts pushes instead of toggling
  IF iPushRising
    THEN iData_int' = iData /\ iPushT' = (iPushT + 1) % 3
    ELSE UNCHANGED <<iData_int, iPushT>>

LatchData ==
  IF iPushRising
    THEN iData_int' = iData /\ iPushT' = Not(iPushT)
    ELSE UNCHANGED <<iData_int, iPushT>>

\* SyncAsyncPushTBack and SyncReset: what each chain samples.
SyncBack  == iBackSync' = Sync!Shift(iBackSync, oPushTBack)
SyncReset == iRstSync' = Rst!Shift(iRstSync, 0)

\* ReadySignal: registered, so one InClk late with respect to iPush.
ReadySignalEager ==   \* mutated: does not wait for the toggle to come back
  iRdy' = IF iPush = 0 /\ iReset = 0 THEN 1 ELSE 0

ReadySignalAtOutput ==   \* mutated: does not wait for iPush to fall
  iRdy' = IF iPushTBack = iPushT /\ iReset = 0 THEN 1 ELSE 0

ReadySignal ==
  iRdy' = IF iPush = 0 /\ iPushTBack = iPushT /\ iReset = 0 THEN 1 ELSE 0

\* The sender raises iPush only while iRdy is high, and lowers it at will.
Sender ==
  /\ iData' \in Data
  /\ iPush' \in IF iPush = 1 \/ iRdy' = 1 THEN Bit ELSE {0}

InRegs == DetectPush /\ LatchData /\ SyncBack /\ SyncReset /\ ReadySignal
InEdge == InRegs /\ Sender
-----------------------------------------------------------------------------
(* The OutClk domain; oAck is the receiver's input at this edge. *)

SyncPush == oPushSync' = Sync!Shift(oPushSync, iPushT)

DetectTogglePulse(oAck) ==   \* mutated: an acknowledgement counts only with the edge
  /\ oPushT_q' = oPushT
  /\ oPushTBack' = IF oAck = 1 /\ oPushTChanged THEN oPushT ELSE oPushTBack

DetectToggle(oAck) ==
  /\ oPushT_q' = oPushT
  /\ oPushTBack' = IF oAck = 1 THEN oPushT_q ELSE oPushTBack

\* The enable is the toggle's edge; iData_int is read across the domains.
OutputDataRising ==   \* mutated: sees only rising edges of the toggle
  LET changed == oPushT = 1 /\ oPushT_q = 0 IN
    /\ oData' = IF changed THEN iData_int ELSE oData
    /\ oValid' = IF changed THEN 1 ELSE 0

OutputData ==
  /\ oData' = IF oPushTChanged THEN iData_int ELSE oData
  /\ oValid' = IF oPushTChanged THEN 1 ELSE IF PulsedValid THEN 0 ELSE oValid

OutEdge(oAck) == SyncPush /\ DetectToggle(oAck) /\ OutputData
-----------------------------------------------------------------------------
\* Asserting aReset clears every register of both domains at once, whatever
\* is in flight; the sender's outputs are not the module's to clear.
ClearRegs ==
  /\ iPush_q' = 0 /\ iData_int' = NoData /\ iPushT' = 0 /\ iRdy' = 0
  /\ iBackSync' = Sync!Cleared /\ iRstSync' = Rst!Cleared
  /\ oPushSync' = Sync!Cleared /\ oPushT_q' = 0 /\ oPushTBack' = 0
  /\ oData' = NoData /\ oValid' = 0

AssertReset ==
  /\ aReset = 0 /\ aReset' = 1
  /\ ClearRegs
  /\ UNCHANGED <<iPush, iData>>

ReleaseReset == aReset = 1 /\ aReset' = 0 /\ UNCHANGED <<inVars, outVars>>

\* The sender keeps running through a reset: it may lower iPush, not raise it.
SenderInReset ==
  /\ aReset = 1
  /\ iPush' \in IF iPush = 1 THEN Bit ELSE {0}
  /\ iData' \in Data
  /\ UNCHANGED <<aReset, inRegs, outVars>>

InClk  == aReset = 0 /\ InEdge /\ UNCHANGED <<aReset, outVars>>
OutClk == aReset = 0 /\ (\E a \in Bit : OutEdge(a)) /\ UNCHANGED <<aReset, inVars>>
\* Both clocks rise together: each domain samples the other's old values.
BothClks == aReset = 0 /\ InEdge /\ (\E a \in Bit : OutEdge(a)) /\ UNCHANGED aReset

Next == AssertReset \/ ReleaseReset \/ SenderInReset \/ InClk \/ OutClk \/ BothClks

Spec == Init /\ [][Next]_vars
-----------------------------------------------------------------------------
(* The toggle's round, as one sequence of bits: iPushT, the flip-flops of    *)
(* the forward synchronizer, oPushT_q, oPushTBack, and the flip-flops of the *)
(* backward one.  Every clock edge moves each bit from its left neighbour.   *)

RingLast == 2 * kStages + 2

Ring == [i \in 0 .. RingLast |->
           IF i = 0 THEN iPushT
           ELSE IF i <= kStages THEN oPushSync[i]
           ELSE IF i = kStages + 1 THEN oPushT_q
           ELSE IF i = kStages + 2 THEN oPushTBack
           ELSE iBackSync[i - kStages - 2]]

\* The bits up to k have the value of iPushT, the later ones the other value.
FrontAt(r, k) == \A i \in 0 .. RingLast : r[i] = IF i <= k THEN r[0] ELSE Not(r[0])

\* No word is in flight: the toggle has been all the way round.
AllEqual == \A i \in 0 .. RingLast : Ring[i] = iPushT

\* At most one toggle is under way at a time, in whatever flip-flops.
OneFront == \E k \in 0 .. RingLast : FrontAt(Ring, k)

\* iRdy, though registered a clock late, never invites a second push while a
\* toggle is under way, and a push that is about to be latched finds none.
ReadyMeansIdle == iRdy = 1 => AllEqual
PushMeansIdle  == iPushRising => AllEqual

\* The word that crosses the domains without a synchronizer never changes
\* from the edge that latches it to the OutClk edge that samples it: whatever
\* the clocks, oData cannot capture a mixture of two words (the assumption
\* the comment above OutputData makes about propagation time, at the level
\* of clock edges).
StableWhileCrossing ==
  [][iPushT # oPushT_q /\ aReset' = 0 => iData_int' = iData_int]_vars
=============================================================================
