------------------------- MODULE EventReport_proof -------------------------
(***************************************************************************)
(* Proofs about EventReport for every word set, number of flip-flops, set  *)
(* of shapes and pair of clock periods that TimingAssumption admits.  The  *)
(* invariant follows one event: the toggle's front, the pulse in its chain *)
(* of registers, and the time each of them has had to get there.           *)
(***************************************************************************)
EXTENDS EventReport, TLAPS

\* The bit of a place of the ring that the toggle has passed, or has not.
Passed(c) == IF c THEN iPushT ELSE Not(iPushT)

\* The front of the ring is behind place k, in the registers of each domain.
OutFront(k) ==
  /\ \A i \in 1 .. kStages : oPushSync[i] = Passed(i <= k)
  /\ oPushT_q = Passed(kStages + 1 <= k)
  /\ oPushTBack = Passed(kStages + 2 <= k)
InFront(k) == \A i \in 1 .. kStages : iBackSync[i] = Passed(i + kStages + 2 <= k)
Front(k)   == OutFront(k) /\ InFront(k)

\* The write-enable pulse is in the j-th register of its chain; with j beyond
\* ResetStages it is in none.
Pulse(j) ==
  /\ aWr_En = IF j = 0 THEN 1 ELSE 0
  /\ \A i \in 1 .. ResetStages : aWr_En_q[i] = IF i = j THEN 1 ELSE 0
NoPulse == Pulse(ResetStages + 1)

Types ==
  /\ shape \in Shapes
  /\ iPushT \in Bit /\ iPush \in Bit
  /\ untilUlpi \in 1 .. UlpiPeriod /\ untilAxi \in 1 .. AxiPeriod

\* No toggle is under way: an event is at most about to be pushed.
Idle ==
  /\ Front(RingLast) /\ oValid = 0 /\ NoPulse
  /\ aReset \in Bit
  /\ aReset = 0 => aValid_q = 0
  /\ aReset = 1 => iRdy = 0 /\ iPush = 0
  /\ IF iPush = 1 THEN iPush_q = 0 /\ pending = <<iData>> ELSE pending = <<>>

\* iPush, if it is still high, has been latched, and the n-th edge of Axi_Clk
\* since then has come before the next of Ulpi_Clk.
PushLatched(n) ==
  iPush = 1 => iPush_q = 1 /\ n * AxiPeriod + untilUlpi < UlpiPeriod + untilAxi

\* The toggle has reached place k on its way to oPushTBack.
Crossing(k) ==
  /\ Front(k) /\ aReset = 0 /\ iRdy = 0 /\ NoPulse /\ aValid_q = 0
  /\ PushLatched(k)
  /\ IF k <= kStages THEN oValid = 0 /\ pending = <<iData_int>>
     ELSE oValid = 1 /\ pending = <<oData>>

\* The pulse is in register j, and the m-th edge of Ulpi_Clk since it was made
\* has been: until kStages edges, the toggle is not back.
Reporting(j, m) ==
  /\ Pulse(j) /\ aReset = 0 /\ aValid_q = 1 /\ oValid = 1
  /\ PushLatched(kStages + 2 + j)
  /\ m <= kStages => Front(kStages + 2 + m) /\ iRdy = 0
  /\ m * UlpiPeriod + untilAxi < (j + 1) * AxiPeriod + untilUlpi
  /\ pending = IF j = 0 THEN <<oData>> ELSE <<>>

\* A handshake that is never reset has made its one pulse.
Silent ==
  /\ ResetStages = 0 /\ aReset = 0
  /\ oValid = 1 /\ aValid_q = 1 /\ aWr_En = 0

IInv ==
  /\ Types
  /\ \/ Idle
     \/ \E k \in 0 .. kStages + 1 : Crossing(k)
     \/ \E j \in 0 .. ResetStages, m \in Nat : Reporting(j, m)
     \/ Silent
-----------------------------------------------------------------------------
(* Numbers: how many edges of one clock fit between edges of the other. *)

LEMMA NextMultiple ==
  ASSUME NEW n \in Nat, NEW p \in Nat
  PROVE  n * p \in Nat /\ (n + 1) * p = n * p + p /\ 0 * p = 0
OBVIOUS

LEMMA FewerMultiples ==
  ASSUME NEW n \in Nat, NEW k \in Nat, NEW p \in Nat, n * p < (k + 1) * p
  PROVE  n <= k
<1> SUFFICES ASSUME n >= k + 1 PROVE FALSE
  OBVIOUS
<1> DEFINE d == n - (k + 1)
<1>1. d \in Nat /\ n = (k + 1) + d
  OBVIOUS
<1>2. n * p = (k + 1) * p + d * p
  BY <1>1
<1>3. d * p \in Nat
  BY <1>1
<1> QED BY <1>2, <1>3

LEMMA MoreMultiples ==
  ASSUME NEW n \in Nat, NEW k \in Nat, NEW p \in Nat, n <= k
  PROVE  n * p <= k * p
<1> DEFINE d == k - n
<1>1. d \in Nat /\ k = n + d
  OBVIOUS
<1>2. k * p = n * p + d * p
  BY <1>1
<1>3. d * p \in Nat
  BY <1>1
<1> QED BY <1>2, <1>3

LEMMA Numbers ==
  ASSUME Types
  PROVE  /\ kStages \in Nat \ {0} /\ RingLast = 2 * kStages + 2 /\ PulsedValid = FALSE
         /\ ResetStages \in Nat
         /\ UlpiPeriod \in Nat \ {0} /\ AxiPeriod \in Nat \ {0}
         /\ untilUlpi \in 1 .. UlpiPeriod /\ untilAxi \in 1 .. AxiPeriod
         /\ (ResetStages + 1) * AxiPeriod <= (kStages + 1) * UlpiPeriod
         /\ \/ ResetStages = 0
            \/ UlpiPeriod <= (kStages + ResetStages + 2) * AxiPeriod
BY kStagesAssumption, EventAssumption, TimingAssumption
   DEF Types, RingLast, ResetStages

-----------------------------------------------------------------------------
(* The toggle's front under the edges of each clock. *)

\* Places up to oPushTBack do not tell the fronts beyond it apart, and those
\* beyond it do not tell the fronts up to it apart.
LEMMA FrontsAlike ==
  ASSUME kStages \in Nat, NEW k \in Nat, NEW l \in Nat
  PROVE  /\ k <= kStages + 2 /\ l <= kStages + 2 /\ InFront(k) => InFront(l)
         /\ k >= kStages + 2 /\ l >= kStages + 2 /\ OutFront(k) => OutFront(l)
         /\ k >= RingLast /\ l >= RingLast /\ InFront(k) => InFront(l)
BY DEF InFront, OutFront, Passed, RingLast

LEMMA FrontsAlikeNext ==
  ASSUME kStages \in Nat, NEW k \in Nat, NEW l \in Nat
  PROVE  /\ k <= kStages + 2 /\ l <= kStages + 2 /\ InFront(k)' => InFront(l)'
         /\ k >= kStages + 2 /\ l >= kStages + 2 /\ OutFront(k)' => OutFront(l)'
         /\ k >= RingLast /\ l >= RingLast /\ InFront(k)' => InFront(l)'
BY DEF InFront, OutFront, Passed, RingLast

\* An edge of Axi_Clk moves a front that has not reached oPushTBack; oPushTBack
\* waits for oValid.
LEMMA OutMoves ==
  ASSUME kStages \in Nat \ {0}, iPushT \in Bit, iPushT' = iPushT,
         NEW k \in 0 .. kStages + 1, OutFront(k), k = kStages + 1 => oValid = 1,
         OutEdge(oValid)
  PROVE  OutFront(k + 1)'
<1>1. \A i \in 1 .. kStages : oPushSync'[i] = Passed(i <= k + 1)'
  BY DEF OutEdge, SyncPush, Sync!Shift, Sync!Stages, OutFront, Passed
<1>2. oPushT_q' = Passed(kStages + 1 <= k + 1)'
  BY DEF OutEdge, DetectToggle, oPushT, Sync!Out, OutFront, Passed
<1>3. oPushTBack' = Passed(kStages + 2 <= k + 1)'
  BY DEF OutEdge, DetectToggle, OutFront, Passed
<1> QED BY <1>1, <1>2, <1>3 DEF OutFront

\* ... and leaves one that has.
LEMMA OutStays ==
  ASSUME kStages \in Nat \ {0}, iPushT' = iPushT,
         NEW k \in Nat, k >= kStages + 2, OutFront(k), OutEdge(oValid)
  PROVE  OutFront(k)'
<1>1. \A i \in 1 .. kStages : oPushSync'[i] = Passed(i <= k)'
  BY DEF OutEdge, SyncPush, Sync!Shift, Sync!Stages, OutFront, Passed
<1>2. oPushT_q' = Passed(kStages + 1 <= k)'
  BY DEF OutEdge, DetectToggle, oPushT, Sync!Out, OutFront, Passed
<1>3. oPushTBack' = Passed(kStages + 2 <= k)'
  BY DEF OutEdge, DetectToggle, OutFront, Passed
<1> QED BY <1>1, <1>2, <1>3 DEF OutFront

\* An edge of Ulpi_Clk moves a front that has reached oPushTBack ...
LEMMA InMoves ==
  ASSUME kStages \in Nat \ {0}, iPushT' = iPushT,
         NEW k \in Nat, k >= kStages + 2, OutFront(k), InFront(k), SyncBack
  PROVE  InFront(k + 1)'
BY DEF SyncBack, Sync!Shift, Sync!Stages, OutFront, InFront, Passed

\* ... and leaves one that has not.
LEMMA InStays ==
  ASSUME kStages \in Nat \ {0}, iPushT' = iPushT,
         NEW k \in 0 .. kStages + 1, OutFront(k), InFront(k), SyncBack
  PROVE  InFront(k)'
BY DEF SyncBack, Sync!Shift, Sync!Stages, OutFront, InFront, Passed

\* Registers that keep their values keep the front.
LEMMA FrontUnchanged ==
  ASSUME NEW k, iPushT' = iPushT
  PROVE  /\ UNCHANGED outVars /\ OutFront(k) => OutFront(k)'
         /\ iBackSync' = iBackSync /\ InFront(k) => InFront(k)'
BY DEF outVars, OutFront, InFront, Passed

\* oPushTChanged is seen at one place of the front; iPushTBack equals iPushT
\* only when the front has been all the way round.
LEMMA FrontSeen ==
  ASSUME kStages \in Nat \ {0}, iPushT \in Bit, NEW k \in 0 .. RingLast
  PROVE  /\ OutFront(k) => (oPushTChanged <=> k = kStages)
         /\ InFront(k) => (iPushTBack = iPushT <=> k = RingLast)
BY DEF OutFront, InFront, Passed, oPushTChanged, oPushT, iPushTBack, Sync!Out,
       RingLast, Not, Bit

\* A push that is latched makes a front behind the first place.
LEMMA FrontStarts ==
  ASSUME kStages \in Nat \ {0}, iPushT \in Bit, iPushT' = Not(iPushT),
         Front(RingLast), SyncBack, OutEdge(oValid) \/ UNCHANGED outVars
  PROVE  Front(0)'
<1>1. iPushT = Not(iPushT')
  BY DEF Not, Bit
<1>2. \A i \in 1 .. kStages : oPushSync[i] = iPushT /\ iBackSync[i] = iPushT
  BY DEF Front, OutFront, InFront, Passed, RingLast
<1>3. oPushT_q = iPushT /\ oPushTBack = iPushT
  BY DEF Front, OutFront, Passed, RingLast
<1>4. \A i \in 1 .. kStages : iBackSync'[i] = iPushT
  BY <1>2, <1>3 DEF SyncBack, Sync!Shift, Sync!Stages
<1>5. InFront(0)'
  BY <1>1, <1>4 DEF InFront, Passed
<1>6. CASE UNCHANGED outVars
  BY <1>1, <1>2, <1>3, <1>5, <1>6 DEF Front, OutFront, Passed, outVars
<1>7. CASE OutEdge(oValid)
  <2>1. \A i \in 1 .. kStages : oPushSync'[i] = iPushT
    BY <1>2, <1>7 DEF OutEdge, SyncPush, Sync!Shift, Sync!Stages
  <2>2. oPushT_q' = iPushT /\ oPushTBack' = iPushT
    BY <1>2, <1>3, <1>7 DEF OutEdge, DetectToggle, oPushT, Sync!Out
  <2> QED BY <1>1, <1>5, <2>1, <2>2 DEF Front, OutFront, Passed
<1> QED BY <1>6, <1>7

\* Reset leaves no front.
LEMMA FrontCleared == ASSUME kStages \in Nat \ {0}, ClearRegs PROVE Front(RingLast)'
BY DEF ClearRegs, Front, OutFront, InFront, Passed, RingLast, Sync!Cleared, Sync!Stages

-----------------------------------------------------------------------------
(* The write-enable pulse in its registers. *)

\* A pulse moves on by one register, unless oValid has just risen; so does the
\* absence of one.
LEMMA PulseMoves ==
  ASSUME ResetStages \in Nat, ResetStages' = ResetStages, ReportPulse,
         oValid = 0 \/ aValid_q = 1,
         NEW j \in 0 .. ResetStages + 1, Pulse(j)
  PROVE  /\ Pulse(j + 1)' /\ aWr_En' = 0
         /\ j >= ResetStages => NoPulse'
BY DEF ReportPulse, Pulse, NoPulse

\* A pulse is made when oValid has risen.
LEMMA PulseStarts ==
  ASSUME ResetStages \in Nat, ResetStages' = ResetStages, ReportPulse,
         oValid = 1, aValid_q = 0, NoPulse
  PROVE  Pulse(0)'
BY DEF ReportPulse, Pulse, NoPulse

\* The handshake is reset by a pulse in the last register.
LEMMA PulseResets ==
  ASSUME ResetStages \in Nat, HandshakeRst,
         NEW j \in 0 .. ResetStages + 1, Pulse(j)
  PROVE  aReset' = IF j = ResetStages /\ j # 0 THEN 1 ELSE 0
BY DEF HandshakeRst, Pulse

\* Registers that keep their values keep the pulse.
LEMMA PulseUnchanged ==
  ASSUME ResetStages' = ResetStages, UNCHANGED reportRegs, NEW j, Pulse(j)
  PROVE  Pulse(j)'
BY DEF reportRegs, Pulse
-----------------------------------------------------------------------------
(* The steps. *)

\* The clocks, and whose edge a step is.
LEMMA Clocks ==
  ASSUME Types, EventNext
  PROVE  /\ shape' = shape /\ ResetStages' = ResetStages
         /\ Ulpi \/ Axi \/ Both
         /\ Ulpi => untilUlpi < untilAxi /\ untilUlpi' = UlpiPeriod
                                         /\ untilAxi' = untilAxi - untilUlpi
         /\ Axi => untilAxi < untilUlpi /\ untilAxi' = AxiPeriod
                                        /\ untilUlpi' = untilUlpi - untilAxi
         /\ Both => untilAxi = untilUlpi /\ untilAxi' = AxiPeriod
                                         /\ untilUlpi' = UlpiPeriod
BY DEF EventNext, Ulpi, Axi, Both, ResetStages

\* Every variable the invariant counts on keeps its type.
LEMMA TypesKept == Types /\ EventNext => Types'
<1> SUFFICES ASSUME Types, EventNext PROVE Types'
  OBVIOUS
<1>1. shape' \in Shapes
  BY Clocks DEF Types
<1>2. untilUlpi' \in 1 .. UlpiPeriod /\ untilAxi' \in 1 .. AxiPeriod
  BY Clocks, Numbers
<1>3. iPush' \in Bit
  BY DEF Types, EventNext, Ulpi, Axi, Both, UlpiEdge, PushEvent, Bit
<1>4. ClearRegs \/ InRegs \/ UNCHANGED inRegs
  BY DEF EventNext, Ulpi, Axi, Both
<1>5. iPushT' \in Bit
  BY <1>4 DEF ClearRegs, InRegs, LatchData, Not, Bit, Types, inRegs
<1> QED BY <1>1, <1>2, <1>3, <1>5 DEF Types

\* While no event is under way the reporter waits, or an event sets out.
LEMMA IdleStep ==
  ASSUME Types, Idle, EventNext
  PROVE  Idle' \/ Crossing(0)'
<1> USE Numbers
<1>1. Ulpi \/ Axi \/ Both
  BY Clocks
<1>2. ResetStages' = ResetStages /\ iPushT \in Bit /\ RingLast >= kStages + 2
  BY Clocks DEF Types
<1>3. NoPulse' /\ aReset' \in Bit
  <2>1. CASE Ulpi
    BY <1>2, <2>1, PulseUnchanged DEF Ulpi, Idle, NoPulse
  <2>2. CASE Axi \/ Both
    <3>1. ReportPulse /\ HandshakeRst
      BY <2>2 DEF Axi, Both, AxiEdge
    <3>2. NoPulse'
      BY <1>2, <3>1, PulseMoves DEF Idle, NoPulse
    <3>3. aReset' = 0
      BY <3>1, PulseResets DEF Idle, NoPulse
    <3> QED BY <3>2, <3>3 DEF Bit
  <2> QED BY <1>1, <2>1, <2>2
<1>4. aWr_En = 0
  BY DEF Idle, NoPulse, Pulse
<1>5. /\ Axi \/ Both => aReset' = 0 /\ aValid_q' = 0
      /\ Ulpi => aReset' = aReset /\ aValid_q' = aValid_q
  <2>1. Axi \/ Both => aReset' = 0
    BY PulseResets DEF Idle, NoPulse, Axi, Both, AxiEdge
  <2> QED BY <2>1 DEF Idle, Axi, Both, Ulpi, AxiEdge, ReportPulse, reportRegs
<1>6. aReset' = 0 => aValid_q' = 0
  BY <1>1, <1>5 DEF Idle
<1>7. CASE aReset = 1
  <2>1. UNCHANGED <<inRegs, outVars>>
    BY <1>1, <1>5, <1>7 DEF Ulpi, Axi, Both
  <2>2. Front(RingLast)' /\ oValid' = 0 /\ iRdy' = 0
    <3>1. iPushT' = iPushT /\ iBackSync' = iBackSync /\ UNCHANGED outVars
      BY <2>1 DEF inRegs
    <3>2. Front(RingLast)'
      BY <3>1, FrontUnchanged DEF Idle, Front
    <3> QED BY <3>2, <2>1, <1>7 DEF Idle, inRegs, outVars
  <2>3. iPush' = 0 /\ pending' = <<>>
    BY <1>1, <1>4, <1>7 DEF Idle, Ulpi, Axi, Both, UlpiEdge, PushEvent, Take, Accepted,
       Reported
  <2> QED BY <1>3, <1>6, <2>2, <2>3 DEF Idle
<1>8. CASE aReset = 0
  <2>1. InRegs \/ UNCHANGED inRegs
    BY <1>1, <1>5, <1>8 DEF Ulpi, Axi, Both
  <2>2. OutEdge(oValid) \/ UNCHANGED outVars
    BY <1>1, <1>5, <1>8 DEF Ulpi, Axi, Both
  <2>3. oValid' = 0
    <3>1. ~oPushTChanged
      BY <1>2, FrontSeen DEF Idle, Front
    <3> QED BY <2>2, <3>1 DEF OutEdge, OutputData, outVars, Idle
  <2>4. aReset' = 0
    BY <1>1, <1>5, <1>8
  <2>5. CASE iPush = 0 \/ Axi
    <3>1. iPushT' = iPushT
      BY <2>1, <2>4, <2>5 DEF InRegs, LatchData, iPushRising, inRegs, Axi
    <3>2. OutFront(RingLast)'
      <4>1. CASE OutEdge(oValid)
        BY <1>2, <3>1, <4>1, OutStays DEF Idle, Front
      <4>2. CASE UNCHANGED outVars
        BY <3>1, <4>2, FrontUnchanged DEF Idle, Front
      <4> QED BY <2>2, <4>1, <4>2
    <3>3. InFront(RingLast)'
      <4>1. CASE InRegs
        <5>1. InFront(RingLast + 1)'
          BY <1>2, <3>1, <4>1, InMoves DEF Idle, Front, InRegs
        <5> QED BY <5>1, FrontsAlikeNext
      <4>2. CASE UNCHANGED inRegs
        <5>1. iBackSync' = iBackSync
          BY <4>2 DEF inRegs
        <5> QED BY <3>1, <5>1, FrontUnchanged DEF Idle, Front
      <4> QED BY <2>1, <4>1, <4>2
    <3>4. IF iPush' = 1 THEN iPush_q' = 0 /\ pending' = <<iData'>> ELSE pending' = <<>>
      <4>1. CASE Axi
        BY <1>4, <2>4, <4>1 DEF Axi, Idle, Reported, inRegs
      <4>2. CASE (Ulpi \/ Both) /\ iPush = 0
        <5>1. pending = <<>> /\ Reported(pending) = <<>>
          BY <1>4, <4>2 DEF Idle, Reported
        <5>2. pending' = IF Take THEN Append(<<>>, uWord) ELSE <<>>
          BY <4>2, <5>1 DEF Ulpi, Both, Accepted
        <5>3. InRegs /\ PushEvent
          BY <1>8, <2>4, <4>2 DEF Ulpi, Both, UlpiEdge
        <5>4. iPush_q' = 0
          BY <4>2, <5>3 DEF InRegs, DetectPush
        <5>5. iPush' = (IF Take THEN 1 ELSE 0) /\ (Take => iData' = uWord)
          BY <5>3 DEF PushEvent
        <5> QED BY <5>2, <5>4, <5>5
      <4> QED BY <1>1, <2>5, <4>1, <4>2
    <3> QED BY <1>3, <1>6, <2>3, <2>4, <3>2, <3>3, <3>4 DEF Idle, Front
  <2>6. CASE iPush = 1 /\ (Ulpi \/ Both)
    <3>1. InRegs
      BY <1>8, <2>4, <2>6 DEF Ulpi, Both
    <3>2. iPushT' = Not(iPushT) /\ iData_int' = iData
      BY <2>6, <3>1 DEF InRegs, LatchData, iPushRising, Idle
    <3>3. Front(0)'
      BY <1>2, <2>2, <3>1, <3>2, FrontStarts DEF Idle, InRegs
    <3>4. iRdy' = 0 /\ iPush_q' = 1
      BY <2>6, <3>1 DEF InRegs, ReadySignal, DetectPush
    <3>5. pending' = <<iData_int'>>
      BY <1>4, <2>6, <3>2 DEF Ulpi, Both, Accepted, Reported, Idle
    <3>6. untilUlpi' = UlpiPeriod /\ untilAxi' \in Nat \ {0}
      BY <2>6, Clocks
    <3>7. PushLatched(0)'
      BY <3>4, <3>6, NextMultiple DEF PushLatched
    <3> QED BY <1>3, <1>6, <2>3, <2>4, <3>3, <3>4, <3>5, <3>7 DEF Crossing
  <2> QED BY <1>1, <2>5, <2>6 DEF Idle, Types, Bit
<1> QED BY <1>7, <1>8 DEF Idle, Bit

\* A front on its way moves on, and one that has reached oPushT_q makes the
\* pulse with the step to oPushTBack.
LEMMA CrossingStep ==
  ASSUME Types, EventNext, NEW k \in 0 .. kStages + 1, Crossing(k)
  PROVE  \/ Crossing(k)'
         \/ k <= kStages /\ Crossing(k + 1)'
         \/ k = kStages + 1 /\ Reporting(0, 0)'
<1> USE Numbers
<1>1. Ulpi \/ Axi \/ Both
  BY Clocks
<1>2. ResetStages' = ResetStages /\ iPushT \in Bit
  BY Clocks DEF Types
<1>3. aWr_En = 0 /\ aReset = 0 /\ iRdy = 0 /\ aValid_q = 0
  BY DEF Crossing, NoPulse, Pulse
<1>4. aReset' = 0
  <2>1. Axi \/ Both => aReset' = 0
    BY PulseResets DEF Crossing, NoPulse, Axi, Both, AxiEdge
  <2> QED BY <1>1, <1>3, <2>1 DEF Ulpi
<1>5. /\ Ulpi \/ Both => InRegs /\ PushEvent
      /\ Axi => UNCHANGED inRegs
  BY <1>1, <1>3, <1>4 DEF Ulpi, Axi, Both, UlpiEdge
<1>6. iPushT' = iPushT /\ iData_int' = iData_int
  BY <1>1, <1>5 DEF InRegs, LatchData, iPushRising, inRegs, Crossing, PushLatched
<1>7. InFront(k)'
  <2>1. CASE InRegs
    BY <1>6, <2>1, InStays DEF Crossing, Front, InRegs
  <2>2. CASE UNCHANGED inRegs
    <3>1. iBackSync' = iBackSync
      BY <2>2 DEF inRegs
    <3> QED BY <1>6, <3>1, FrontUnchanged DEF Crossing, Front
  <2> QED BY <1>1, <1>5, <2>1, <2>2
<1>8. iRdy' = 0
  <2>1. iPushTBack # iPushT
    BY <1>2, FrontSeen DEF Crossing, Front
  <2> QED BY <1>1, <1>3, <1>5, <2>1 DEF InRegs, ReadySignal, inRegs
<1>9. /\ Ulpi \/ Both => iPush' = 0
      /\ Axi => iPush' = iPush /\ iPush_q' = iPush_q
  BY <1>3, <1>5 DEF PushEvent, Take, Axi, inRegs
<1>10. pending' = pending
  BY <1>1, <1>3 DEF Ulpi, Axi, Both, Accepted, Reported, Take
<1>11. CASE Ulpi
  <2>1. UNCHANGED <<outVars, reportRegs>>
    BY <1>11 DEF Ulpi
  <2>2. NoPulse' /\ aValid_q' = 0 /\ oValid' = oValid /\ oData' = oData
    BY <1>2, <1>3, <2>1, PulseUnchanged DEF Crossing, NoPulse, reportRegs, outVars
  <2>3. Front(k)'
    BY <1>6, <1>7, <2>1, FrontUnchanged DEF Crossing, Front
  <2>4. PushLatched(k)'
    BY <1>9, <1>11 DEF PushLatched
  <2> QED BY <1>4, <1>6, <1>8, <1>10, <2>2, <2>3, <2>4 DEF Crossing
<1>12. CASE Axi \/ Both
  <2>1. OutEdge(oValid) /\ ReportPulse
    BY <1>3, <1>4, <1>12 DEF Axi, Both, AxiEdge
  <2>2. k = kStages + 1 => oValid = 1
    BY DEF Crossing
  <2>3. OutFront(k + 1)'
    BY <1>2, <1>6, <2>1, <2>2, OutMoves DEF Crossing, Front
  <2>4. InFront(k + 1)'
    BY <1>7, FrontsAlikeNext
  <2>5. aValid_q' = oValid
    BY <2>1 DEF ReportPulse
  <2>6. PushLatched(k + 1)'
    <3>1. CASE Both
      BY <1>9, <3>1 DEF PushLatched
    <3>2. CASE Axi
      <4>1. (k + 1) * AxiPeriod = k * AxiPeriod + AxiPeriod /\ k * AxiPeriod \in Nat
        BY NextMultiple
      <4>2. untilAxi' = AxiPeriod /\ untilUlpi' = untilUlpi - untilAxi
        BY <3>2, Clocks
      <4>3. iPush' = iPush /\ iPush_q' = iPush_q
        BY <1>9, <3>2
      <4>4. PushLatched(k)
        BY DEF Crossing
      <4> QED BY <4>1, <4>2, <4>3, <4>4 DEF PushLatched
    <3> QED BY <1>12, <3>1, <3>2
  <2>7. oPushTChanged <=> k = kStages
    BY <1>2, FrontSeen DEF Crossing, Front
  <2>8. /\ k = kStages => oValid' = 1 /\ oData' = iData_int
        /\ k # kStages => oValid' = oValid /\ oData' = oData
    BY <2>1, <2>7 DEF OutEdge, OutputData
  <2>9. CASE k <= kStages
    <3>1. oValid = 0 /\ pending = <<iData_int>>
      BY <2>9 DEF Crossing
    <3>2. NoPulse'
      BY <1>2, <2>1, <3>1, PulseMoves DEF Crossing, NoPulse
    <3>3. IF k + 1 <= kStages THEN oValid' = 0 /\ pending' = <<iData_int'>>
          ELSE oValid' = 1 /\ pending' = <<oData'>>
      BY <1>6, <1>10, <2>8, <2>9, <3>1
    <3>4. Crossing(k + 1)'
      BY <1>4, <1>8, <2>3, <2>4, <2>5, <2>6, <3>1, <3>2, <3>3 DEF Crossing, Front
    <3> QED BY <2>9, <3>4
  <2>10. CASE k = kStages + 1
    <3>1. oValid = 1 /\ pending = <<oData>>
      BY <2>10 DEF Crossing
    <3>2. Pulse(0)'
      BY <1>2, <1>3, <2>1, <3>1, PulseStarts DEF Crossing
    <3>3. Front(kStages + 2 + 0)'
      BY <2>3, <2>4, <2>10 DEF Front
    <3>4. PushLatched(kStages + 2 + 0)'
      BY <2>6, <2>10
    <3>5. 0 * UlpiPeriod + untilAxi' < (0 + 1) * AxiPeriod + untilUlpi'
      <4>1. untilAxi' = AxiPeriod /\ untilUlpi' \in Nat \ {0}
        BY <1>12, Clocks
      <4> QED BY <4>1, NextMultiple
    <3>6. oValid' = 1 /\ aValid_q' = 1 /\ pending' = <<oData'>>
      BY <1>10, <2>5, <2>8, <2>10, <3>1
    <3>7. Reporting(0, 0)'
      BY <1>4, <1>8, <3>2, <3>3, <3>4, <3>5, <3>6 DEF Reporting
    <3> QED BY <2>10, <3>7
  <2> QED BY <2>9, <2>10
<1> QED BY <1>1, <1>11, <1>12

\* Before an edge of Ulpi_Clk that falls into the pulse or the wait for the
\* reset, the toggle is not back: this is where the clocks' ratio counts.
LEMMA NotBack ==
  ASSUME Types, NEW j \in 0 .. ResetStages, NEW m \in Nat, Reporting(j, m),
         untilUlpi <= untilAxi
  PROVE  m <= kStages
<1> USE Numbers
<1>1. (j + 1) * AxiPeriod <= (ResetStages + 1) * AxiPeriod
  BY MoreMultiples
<1>2. m * UlpiPeriod + untilAxi < (j + 1) * AxiPeriod + untilUlpi
  BY DEF Reporting
<1>3. /\ m * UlpiPeriod \in Nat /\ (j + 1) * AxiPeriod \in Nat
      /\ (kStages + 1) * UlpiPeriod \in Nat /\ (ResetStages + 1) * AxiPeriod \in Nat
  OBVIOUS
<1>4. m * UlpiPeriod < (kStages + 1) * UlpiPeriod
  BY <1>1, <1>2, <1>3
<1> QED BY <1>4, FewerMultiples

\* Before the edge of Axi_Clk that resets the handshake iPush has fallen.
LEMMA PushOver ==
  ASSUME Types, ResetStages # 0, PushLatched(kStages + 2 + ResetStages),
         untilAxi <= untilUlpi
  PROVE  iPush = 0
<1> USE Numbers
<1>1. (kStages + ResetStages + 2) * AxiPeriod = (kStages + 2 + ResetStages) * AxiPeriod
  OBVIOUS
<1>2. (kStages + 2 + ResetStages) * AxiPeriod \in Nat
  OBVIOUS
<1>3. (kStages + 2 + ResetStages) * AxiPeriod + untilUlpi >= UlpiPeriod + untilAxi
  BY <1>1, <1>2
<1>4. ~(iPush = 1)
  BY <1>2, <1>3 DEF PushLatched
<1> QED BY <1>4 DEF Types, Bit

\* The edges of Ulpi_Clk bring the toggle back, and no event is taken meanwhile.
LEMMA ReportingUlpi ==
  ASSUME Types, EventNext, Ulpi \/ Both, NEW j \in 0 .. ResetStages, NEW m \in Nat,
         Reporting(j, m), aReset' = 0, OutEdge(oValid) \/ UNCHANGED outVars
  PROVE  /\ m + 1 <= kStages => Front(kStages + 2 + (m + 1))' /\ iRdy' = 0
         /\ iPush' = 0 /\ \A p : Accepted(p) = p
<1> USE Numbers
<1>1. untilUlpi <= untilAxi
  BY Clocks
<1>2. m <= kStages
  BY <1>1, NotBack
<1>3. Front(kStages + 2 + m) /\ iRdy = 0 /\ aReset = 0
  BY <1>2 DEF Reporting
<1>4. InRegs /\ PushEvent
  BY <1>3 DEF Ulpi, Both, UlpiEdge
<1>5. iPushT' = iPushT /\ iPushT \in Bit
  BY <1>4 DEF InRegs, LatchData, iPushRising, Reporting, PushLatched, Types
<1>6. iPush' = 0 /\ \A p : Accepted(p) = p
  BY <1>3, <1>4 DEF PushEvent, Take, Accepted
<1>7. ASSUME m + 1 <= kStages PROVE Front(kStages + 2 + (m + 1))' /\ iRdy' = 0
  <2> DEFINE k == kStages + 2 + m
  <2>1. k \in 0 .. RingLast /\ k >= kStages + 2 /\ k # RingLast
    BY <1>7
  <2>2. OutFront(k) /\ InFront(k)
    BY <1>3 DEF Front
  <2>3. InFront(k + 1)'
    BY <1>4, <1>5, <2>1, <2>2, InMoves DEF InRegs
  <2>4. OutFront(k)'
    <3>1. CASE OutEdge(oValid)
      BY <1>5, <2>1, <2>2, <3>1, OutStays
    <3>2. CASE UNCHANGED outVars
      BY <1>5, <2>2, <3>2, FrontUnchanged
    <3> QED BY <3>1, <3>2
  <2>5. OutFront(k + 1)'
    BY <2>1, <2>4, FrontsAlikeNext
  <2>6. k + 1 = kStages + 2 + (m + 1)
    OBVIOUS
  <2>7. iPushTBack # iPushT
    BY <1>5, <2>1, <2>2, FrontSeen
  <2>8. iRdy' = 0
    BY <1>4, <2>7 DEF InRegs, ReadySignal
  <2> HIDE DEF k
  <2> QED BY <2>3, <2>5, <2>6, <2>8 DEF Front
<1> QED BY <1>6, <1>7

\* The edges of Axi_Clk move the pulse on, and the last of them resets the
\* handshake, or leaves one that is not reset silent.
LEMMA ReportingStep ==
  ASSUME Types, EventNext, NEW j \in 0 .. ResetStages, NEW m \in Nat, Reporting(j, m)
  PROVE  \/ Reporting(j, m + 1)'
         \/ j < ResetStages /\ (Reporting(j + 1, m)' \/ Reporting(j + 1, m + 1)')
         \/ Idle' \/ Silent'
<1> USE Numbers
<1>1. Ulpi \/ Axi \/ Both
  BY Clocks
<1>2. ResetStages' = ResetStages /\ iPushT \in Bit
  BY Clocks DEF Types
<1>3. aReset = 0 /\ Pulse(j) /\ oValid = 1 /\ aValid_q = 1
  BY DEF Reporting
<1>4. pending = IF j = 0 THEN <<oData>> ELSE <<>>
  BY DEF Reporting
<1>5. /\ m * UlpiPeriod + untilAxi < (j + 1) * AxiPeriod + untilUlpi
      /\ m * UlpiPeriod \in Nat /\ (m + 1) * UlpiPeriod = m * UlpiPeriod + UlpiPeriod
      /\ (j + 1) * AxiPeriod \in Nat
      /\ ((j + 1) + 1) * AxiPeriod = (j + 1) * AxiPeriod + AxiPeriod
  <2>1. j + 1 \in Nat
    OBVIOUS
  <2> QED BY <2>1, NextMultiple DEF Reporting
<1>6. CASE Ulpi
  <2>1. aReset' = 0 /\ UNCHANGED <<outVars, reportRegs>> /\ pending' = Accepted(pending)
    BY <1>3, <1>6 DEF Ulpi
  <2>2. /\ m + 1 <= kStages => Front(kStages + 2 + (m + 1))' /\ iRdy' = 0
        /\ iPush' = 0 /\ pending' = pending
    BY <1>6, <2>1, ReportingUlpi
  <2>3. Pulse(j)' /\ aValid_q' = 1 /\ oValid' = 1 /\ oData' = oData
    BY <1>2, <1>3, <2>1, PulseUnchanged DEF reportRegs, outVars
  <2>4. (m + 1) * UlpiPeriod + untilAxi' < (j + 1) * AxiPeriod + untilUlpi'
    BY <1>5, <1>6, Clocks
  <2>5. PushLatched(kStages + 2 + j)'
    BY <2>2 DEF PushLatched
  <2>6. Reporting(j, m + 1)'
    BY <1>4, <2>1, <2>2, <2>3, <2>4, <2>5 DEF Reporting
  <2> QED BY <2>6
<1>7. CASE Axi \/ Both
  <2>1. ReportPulse /\ HandshakeRst
    BY <1>7 DEF Axi, Both, AxiEdge
  <2>2. Pulse(j + 1)' /\ aWr_En' = 0 /\ aValid_q' = 1 /\ (j >= ResetStages => NoPulse')
    BY <1>2, <1>3, <2>1, PulseMoves DEF ReportPulse
  <2>3. aReset' = IF j = ResetStages /\ j # 0 THEN 1 ELSE 0
    BY <1>3, <2>1, PulseResets
  <2>4. Reported(pending) = <<>>
    BY <1>3, <1>4 DEF Reported, Pulse
  <2>5. untilAxi <= untilUlpi /\ (Both => untilUlpi <= untilAxi)
    <3>1. CASE Both
      BY <3>1, Clocks
    <3>2. CASE Axi
      BY <3>2, Clocks
    <3> QED BY <1>7, <3>1, <3>2
  <2>6. Both => iRdy = 0
    BY <2>5, NotBack, Clocks DEF Reporting
  <2>7. /\ Both => iPush' = 0
        /\ Axi => iPush' = iPush
    BY <2>6 DEF Axi, Both, UlpiEdge, PushEvent, Take
  <2>8. pending' = <<>>
    BY <1>7, <2>4, <2>6 DEF Axi, Both, Accepted, Take
  <2>9. CASE aReset' = 1
    <3>1. ClearRegs /\ j = ResetStages /\ j # 0
      BY <1>7, <2>3, <2>9 DEF Axi, Both
    <3>2. Front(RingLast)' /\ oValid' = 0 /\ iRdy' = 0
      BY <3>1, FrontCleared DEF ClearRegs
    <3>3. iPush = 0
      BY <3>1, <2>5, PushOver DEF Reporting
    <3>4. iPush' = 0
      BY <1>7, <2>7, <3>3
    <3>5. Idle'
      BY <2>2, <2>8, <2>9, <3>1, <3>2, <3>4 DEF Idle, Bit
    <3> QED BY <3>5
  <2>10. CASE aReset' = 0
    <3>1. OutEdge(oValid)
      BY <1>3, <1>7, <2>10 DEF Axi, Both
    <3>2. oValid' = 1
      BY <1>3, <3>1 DEF OutEdge, OutputData
    <3>3. CASE j = ResetStages
      <4>1. ResetStages = 0
        BY <2>3, <2>10, <3>3
      <4> QED BY <1>2, <2>2, <2>10, <3>2, <4>1 DEF Silent
    <3>4. CASE j < ResetStages
      <4>1. pending' = IF j + 1 = 0 THEN <<oData'>> ELSE <<>>
        BY <2>8
      <4>2. PushLatched(kStages + 2 + (j + 1))'
        <5>1. CASE Both
          BY <2>7, <5>1 DEF PushLatched
        <5>2. CASE Axi
          <6>1. (kStages + 2 + (j + 1)) * AxiPeriod
                  = (kStages + 2 + j) * AxiPeriod + AxiPeriod
            OBVIOUS
          <6>2. (kStages + 2 + j) * AxiPeriod \in Nat
            OBVIOUS
          <6>3. untilAxi' = AxiPeriod /\ untilUlpi' = untilUlpi - untilAxi
            BY <5>2, Clocks
          <6>4. iPush' = iPush /\ iPush_q' = iPush_q
            BY <5>2, <2>10 DEF Axi, inRegs
          <6>5. PushLatched(kStages + 2 + j)
            BY DEF Reporting
          <6> QED BY <6>1, <6>2, <6>3, <6>4, <6>5 DEF PushLatched
        <5> QED BY <1>7, <5>1, <5>2
      <4>3. CASE Both
        <5>1. m + 1 <= kStages => Front(kStages + 2 + (m + 1))' /\ iRdy' = 0
          BY <2>10, <3>1, <4>3, ReportingUlpi
        <5>2. (m + 1) * UlpiPeriod + untilAxi' < ((j + 1) + 1) * AxiPeriod + untilUlpi'
          BY <1>5, <4>3, Clocks
        <5>3. Reporting(j + 1, m + 1)'
          BY <2>2, <2>10, <3>2, <4>1, <4>2, <5>1, <5>2 DEF Reporting
        <5> QED BY <3>4, <5>3
      <4>4. CASE Axi
        <5>1. ASSUME m <= kStages PROVE Front(kStages + 2 + m)' /\ iRdy' = 0
          <6>1. Front(kStages + 2 + m) /\ iRdy = 0
            BY <5>1 DEF Reporting
          <6>2. iPushT' = iPushT /\ iBackSync' = iBackSync /\ iRdy' = iRdy
            BY <2>10, <4>4 DEF Axi, inRegs
          <6>3. OutFront(kStages + 2 + m)'
            BY <3>1, <6>1, <6>2, OutStays DEF Front
          <6>4. InFront(kStages + 2 + m)'
            BY <6>1, <6>2, FrontUnchanged DEF Front
          <6> QED BY <6>1, <6>2, <6>3, <6>4 DEF Front
        <5>2. m * UlpiPeriod + untilAxi' < ((j + 1) + 1) * AxiPeriod + untilUlpi'
          BY <1>5, <4>4, Clocks
        <5>3. Reporting(j + 1, m)'
          BY <2>2, <2>10, <3>2, <4>1, <4>2, <5>1, <5>2 DEF Reporting
        <5> QED BY <3>4, <5>3
      <4> QED BY <1>7, <4>3, <4>4
    <3> QED BY <3>3, <3>4
  <2> QED BY <2>3, <2>9, <2>10
<1> QED BY <1>1, <1>6, <1>7

\* A handshake that is never reset makes no second pulse.
LEMMA SilentStep ==
  ASSUME Types, EventNext, Silent
  PROVE  Silent'
<1> USE Numbers
<1>1. ResetStages' = 0
  BY Clocks DEF Silent
<1>2. CASE Ulpi
  BY <1>1, <1>2 DEF Ulpi, Silent, outVars, reportRegs
<1>3. CASE Axi \/ Both
  <2>1. aReset' = 0 /\ ReportPulse
    BY <1>3 DEF Axi, Both, AxiEdge, HandshakeRst, Silent
  <2>2. OutEdge(oValid)
    BY <1>3, <2>1 DEF Axi, Both, Silent
  <2> QED BY <1>1, <2>1, <2>2 DEF Silent, ReportPulse, OutEdge, OutputData
<1> QED BY <1>2, <1>3, Clocks
-----------------------------------------------------------------------------
LEMMA InvInit == EventInit => IInv
<1> SUFFICES ASSUME EventInit PROVE IInv
  OBVIOUS
<1>1. Types
  BY EventAssumption DEF EventInit, Types, Bit
<1>2. Front(RingLast)
  BY <1>1, Numbers
     DEF EventInit, Front, OutFront, InFront, Passed, RingLast, Sync!Cleared, Sync!Stages
<1>3. NoPulse
  BY <1>1, Numbers DEF EventInit, NoPulse, Pulse
<1> QED BY <1>1, <1>2, <1>3 DEF EventInit, IInv, Idle, Bit

LEMMA InvStep == IInv /\ [EventNext]_allVars => IInv'
<1> SUFFICES ASSUME IInv, [EventNext]_allVars PROVE IInv'
  OBVIOUS
<1>1. CASE EventNext
  <2>1. Types /\ Types' /\ kStages \in Nat /\ ResetStages \in Nat
    BY <1>1, TypesKept, Numbers DEF IInv
  <2>2. ResetStages' = ResetStages
    BY <1>1, <2>1, Clocks
  <2>3. CASE Idle
    BY <1>1, <2>1, <2>3, IdleStep DEF IInv
  <2>4. ASSUME NEW k \in 0 .. kStages + 1, Crossing(k) PROVE IInv'
    <3>1. CASE Crossing(k)'
      BY <2>1, <3>1 DEF IInv
    <3>2. CASE k <= kStages /\ Crossing(k + 1)'
      <4>1. k + 1 \in 0 .. kStages + 1
        BY <2>1, <3>2
      <4> QED BY <2>1, <3>2, <4>1 DEF IInv
    <3>3. CASE Reporting(0, 0)'
      <4>1. 0 \in 0 .. ResetStages' /\ 0 \in Nat
        BY <2>1, <2>2
      <4> QED BY <2>1, <3>3, <4>1 DEF IInv
    <3> QED BY <1>1, <2>1, <2>4, <3>1, <3>2, <3>3, CrossingStep
  <2>5. ASSUME NEW j \in 0 .. ResetStages, NEW m \in Nat, Reporting(j, m) PROVE IInv'
    <3>1. m + 1 \in Nat /\ j \in 0 .. ResetStages'
      BY <2>2
    <3>2. j < ResetStages => j + 1 \in 0 .. ResetStages'
      BY <2>1, <2>2
    <3>3. \/ Reporting(j, m + 1)'
          \/ j < ResetStages /\ (Reporting(j + 1, m)' \/ Reporting(j + 1, m + 1)')
          \/ Idle' \/ Silent'
      BY <1>1, <2>1, <2>5, ReportingStep
    <3> QED BY <2>1, <3>1, <3>2, <3>3 DEF IInv
  <2>6. CASE Silent
    BY <1>1, <2>1, <2>6, SilentStep DEF IInv
  <2> QED BY <2>3, <2>4, <2>5, <2>6 DEF IInv
<1>2. CASE UNCHANGED allVars
  BY <1>2 DEF allVars, vars, inVars, inRegs, outVars, reportRegs, IInv, Types, Idle,
     Crossing, Reporting, Silent, PushLatched, Front, OutFront, InFront, Passed, Pulse,
     NoPulse, ResetStages
<1> QED BY <1>1, <1>2

\* Every state of a reporter is idle, or an event on its way, or the pulse that
\* reports it, or the silence of a handshake that is never reset.
THEOREM EventInvariant == EventSpec => []IInv
BY InvInit, InvStep, PTL DEF EventSpec

\* A write-enable pulse shows the one word that was taken and not reported:
\* ENDPTSETUPSTAT_wr_en_PROC and its like never report an event twice, with
\* another's endpoint or after it was cleared, for any number of flip-flops
\* and any clocks that leave the reset the time the toggle's return gives it.
THEOREM ReportsMatch == EventSpec => []ReportMatches
<1>1. IInv => ReportMatches
  <2> SUFFICES ASSUME IInv, aWr_En = 1 PROVE pending = <<oData>>
    BY DEF ReportMatches
  <2>1. ~NoPulse
    BY Numbers DEF NoPulse, Pulse, IInv
  <2>2. \E j \in 0 .. ResetStages, m \in Nat : Reporting(j, m)
    BY <2>1 DEF IInv, Idle, Crossing, Silent
  <2> QED BY <2>2 DEF Reporting, Pulse
<1> QED BY <1>1, EventInvariant, PTL
=============================================================================
