---------------------------- MODULE EventReport ----------------------------
(***************************************************************************)
(* How the USB device core tells its AXI side about an event of the ULPI   *)
(* side (Protocol_Engine.vhd): a SETUP packet, an IN token, a NAK, a start *)
(* of frame, a bus reset.  A process on Ulpi_Clk pushes the event through  *)
(* the copy of HandshakeData whose oValid is never cleared; a process on   *)
(* Axi_Clk makes a write-enable pulse from the rising edge of oValid.      *)
(*                                                                         *)
(* The pair comes in three shapes, told apart by two parameters:           *)
(*   ENDPTSETUPSTAT, packet_in_complete   a level that waits to be taken;  *)
(*                                        the AXI process resets the       *)
(*                                        handshake 3 clocks after the     *)
(*                                        pulse (ResetStages = 2);         *)
(*   in_token_received, zero_length_ack   a pulse, dropped while the       *)
(*                                        handshake is busy; reset one     *)
(*                                        clock earlier (ResetStages = 1); *)
(*   ENDPTNAK, FRINDEX, NAKI, SLI, SRI, URI, PCI, Resend, PORTSC1          *)
(*                                        a pulse; the handshake is never  *)
(*                                        reset (ResetStages = 0).         *)
(*                                                                         *)
(* Both clocks are modelled with their periods, from any initial phase:    *)
(* the order of a reset on one side and the clearing of a flag on the      *)
(* other depends on them.  An endpoint or frame number is a word of Data.  *)
(***************************************************************************)
EXTENDS HandshakeData, Sequences

CONSTANTS Shapes,        \* the shapes of reporter: records of
                         \*   holds   the event flag stays until it is taken
                         \*   stages  registers between the pulse and the
                         \*           handshake's reset; 0: no reset
          UlpiPeriod,    \* of the two clocks, in a common unit: 10 and 6 for
          AxiPeriod      \* the 16.667 ns and 10 ns of constrs_1.xdc

ASSUME EventAssumption ==
  /\ Shapes \subseteq [holds : BOOLEAN, stages : Nat]
  /\ {UlpiPeriod, AxiPeriod} \subseteq Nat \ {0}
  /\ PulsedValid = FALSE

\* What the clocks must satisfy, as 16.667 ns and 10 ns do for every shape: the
\* pulse and the reset it leads to are over before the toggle is back and iRdy
\* lets a next event in, and the reset comes after iPush has fallen.
ASSUME TimingAssumption == \A s \in Shapes :
  /\ (s.stages + 1) * AxiPeriod <= (kStages + 1) * UlpiPeriod
  /\ s.stages = 0 \/ UlpiPeriod <= (kStages + s.stages + 2) * AxiPeriod

VARIABLES
  shape,       \* of this reporter; it never changes
  uEvent,      \* u_Setup_Received, u_In_Token_Received, u_NAK_Sent, ...
  uWord,       \* pe_endpt_nr_index or u_Frame_Index
  uEventRst,   \* u_Setup_Received_Rst: 0 clears the held event
  aValid_q,    \* a_ENDPTSETUPSTAT_Wr_En_q: the previous oValid
  aWr_En,      \* a_ENDPTSETUP_RECEIVED_Wr_En_Loc, the write-enable pulse
  aWr_En_q,    \* the pulse delayed by 1, 2, .. ResetStages clocks
  untilUlpi,   \* time to the next edge of each clock
  untilAxi,
  pending      \* history: words taken and not yet reported

HoldsEvent  == shape.holds
ResetStages == shape.stages

reportRegs == <<aValid_q, aWr_En, aWr_En_q>>
allVars == <<vars, shape, uEvent, uWord, uEventRst, reportRegs, untilUlpi, untilAxi, pending>>

\* Both processes have left their reset; the handshake is about to.
EventInit ==
  /\ shape \in Shapes /\ aReset = 0
  /\ iPush = 0 /\ iData = NoData
  /\ iPush_q = 0 /\ iData_int = NoData /\ iPushT = 0 /\ iRdy = 0
  /\ iBackSync = Sync!Cleared /\ iRstSync = Rst!Cleared
  /\ oPushSync = Sync!Cleared /\ oPushT_q = 0 /\ oPushTBack = 0
  /\ oData = NoData /\ oValid = 0
  /\ uEvent = 0 /\ uWord \in Data /\ uEventRst = 1
  /\ aValid_q = 0 /\ aWr_En = 0 /\ aWr_En_q = [i \in 1 .. ResetStages |-> 0]
  /\ untilUlpi \in 1 .. UlpiPeriod /\ untilAxi = AxiPeriod
  /\ pending = <<>>
-----------------------------------------------------------------------------
(* Ulpi_Clk. *)

\* ENDPTSETUPSTAT_PROC, IN_TOKEN_RECEIVED_PROC, NAK_PROC, ...: push the word
\* and, for a held event, clear its flag.
Take == uEvent = 1 /\ iRdy = 1

PushEvent ==
  /\ iPush' = IF Take THEN 1 ELSE 0
  /\ iData' = IF Take THEN uWord ELSE NoData
  /\ uEventRst' = IF Take /\ HoldsEvent THEN 0 ELSE 1

\* SETUP_RECEIVED_PROC of packet_decoder.vhd for a held event (the clear wins
\* over the set), a pulse of one clock for the others.  The next event is at
\* least a packet, tens of clocks, away: it finds the push process idle.
EventFlag ==
  \/ /\ uEvent' = IF uEventRst = 0 \/ ~HoldsEvent THEN 0 ELSE uEvent
     /\ UNCHANGED uWord
  \/ /\ uEvent = 0 /\ uEventRst = 1 /\ iPush = 0
     /\ uEvent' = 1
     /\ uWord' \in Data

UlpiEdge == PushEvent /\ EventFlag
-----------------------------------------------------------------------------
(* Axi_Clk. *)

\* ENDPTSETUPSTAT_wr_en_PROC and its like.  Whoever is enabled by aWr_En
\* samples oData at the edge after the one that raises aWr_En.
ReportPulse ==
  /\ aValid_q' = oValid
  /\ aWr_En' = IF oValid = 1 /\ aValid_q = 0 THEN 1 ELSE 0
  /\ aWr_En_q' = [i \in 1 .. ResetStages |-> IF i = 1 THEN aWr_En ELSE aWr_En_q[i - 1]]

\* a_ENDPTSETUPSTAT_Hanshake_Rst, the asynchronous reset of the handshake.
HandshakeRstEarly ==   \* mutated: resets while the pulse is being made
  aReset' = IF oValid = 1 /\ aValid_q = 0 THEN 1 ELSE 0

HandshakeRstMissing ==   \* mutated: as zero_length_clear, never resets
  aReset' = 0

HandshakeRstHeld ==   \* mutated: never releases the reset
  aReset' = IF ResetStages # 0 /\ aWr_En_q[ResetStages] = 1 THEN 1 ELSE aReset

HandshakeRst ==
  aReset' = IF ResetStages = 0 THEN 0 ELSE aWr_En_q[ResetStages]

AxiEdge == ReportPulse /\ HandshakeRst
-----------------------------------------------------------------------------
\* A word is taken when the push process first raises iPush for it.
Accepted(p) == IF iPush = 0 /\ Take THEN Append(p, uWord) ELSE p
Reported(p) == IF aWr_En = 1 /\ p # <<>> THEN Tail(p) ELSE p

Ulpi ==
  /\ untilUlpi < untilAxi
  /\ untilUlpi' = UlpiPeriod /\ untilAxi' = untilAxi - untilUlpi
  /\ UlpiEdge
  /\ IF aReset = 1 THEN UNCHANGED inRegs ELSE InRegs
  /\ pending' = Accepted(pending)
  /\ UNCHANGED <<aReset, outVars, reportRegs>>

Axi ==
  /\ untilAxi < untilUlpi
  /\ untilAxi' = AxiPeriod /\ untilUlpi' = untilUlpi - untilAxi
  /\ AxiEdge
  /\ IF aReset' = 1 THEN ClearRegs
     ELSE /\ IF aReset = 1 THEN UNCHANGED outVars ELSE OutEdge(oValid)
          /\ UNCHANGED inRegs
  /\ pending' = Reported(pending)
  /\ UNCHANGED <<iPush, iData, uEvent, uWord, uEventRst>>

Both ==
  /\ untilAxi = untilUlpi
  /\ untilAxi' = AxiPeriod /\ untilUlpi' = UlpiPeriod
  /\ AxiEdge /\ UlpiEdge
  /\ IF aReset' = 1 THEN ClearRegs
     ELSE IF aReset = 1 THEN UNCHANGED <<inRegs, outVars>>
     ELSE InRegs /\ OutEdge(oValid)
  /\ pending' = Accepted(Reported(pending))

EventNext == (Ulpi \/ Axi \/ Both) /\ UNCHANGED shape

EventSpec == EventInit /\ [][EventNext]_allVars

\* Both clocks run: they are free-running and each edge sets the next.
FairEventSpec == EventSpec /\ WF_allVars(EventNext)
-----------------------------------------------------------------------------
\* A write-enable pulse shows the one word taken and not yet reported: no
\* event is reported twice, with another's endpoint, or after the reset of
\* the handshake has cleared it, whatever the phases of the clocks.
ReportMatches == aWr_En = 1 => pending = <<oData>>

\* An event taken from the ULPI side (its flag is then cleared, so that nobody
\* else remembers it) is reported to the AXI side.
EveryEventReported == pending # <<>> ~> pending = <<>>

\* The reporter is ready for another event, again and again.
ReporterReadyAgain == []<>(iRdy = 1)
=============================================================================
