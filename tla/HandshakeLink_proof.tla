------------------------ MODULE HandshakeLink_proof ------------------------
(***************************************************************************)
(* The registers of HandshakeData keep their invariant, implement the      *)
(* one-word channel, and the clock that shows oValid (in the copy that     *)
(* clears it) shows the one word pushed and not yet taken: for every set   *)
(* of words, every depth of the synchronizers, both copies of the module   *)
(* and every interleaving of the clocks and the reset.                     *)
(***************************************************************************)
EXTENDS HandshakeLink, TLAPS

-----------------------------------------------------------------------------
(* The crossing: HandshakeData. *)

\* What a reachable state satisfies: the strengthening that is inductive.
IInv == TypeOK /\ OneFront /\ ReadyMeansIdle /\ PushMeansIdle

\* Shifting a chain of bits by one flip-flop gives a chain of bits.
LEMMA ShiftType ==
  ASSUME NEW s \in [1 .. kStages -> Bit], NEW a \in Bit
  PROVE  /\ Sync!Shift(s, a) \in [1 .. kStages -> Bit]
         /\ Rst!Shift(s, a) \in [1 .. kStages -> Bit]
         /\ Sync!Out(s) \in Bit
         /\ Rst!Out(s) \in Bit
BY kStagesAssumption
   DEF Sync!Shift, Sync!Stages, Rst!Shift, Rst!Stages, Sync!Out, Rst!Out, Bit

\* The cleared chains are chains of bits.
LEMMA ClearedType ==
  /\ Sync!Cleared \in [1 .. kStages -> Bit]
  /\ Rst!Cleared \in [1 .. kStages -> Bit]
BY DEF Sync!Cleared, Sync!Stages, Rst!Cleared, Rst!Stages, Bit

\* One edge of InClk keeps the InClk registers in their types.
LEMMA InEdgeType ==
  ASSUME TypeOK, InEdge
  PROVE  /\ {iPush', iPush_q', iPushT', iRdy'} \subseteq Bit
         /\ iData' \in Data
         /\ iData_int' \in Data \cup {NoData}
         /\ iBackSync' \in [1 .. kStages -> Bit]
         /\ iRstSync' \in [1 .. kStages -> Bit]
<1>1. iBackSync' \in [1 .. kStages -> Bit]
  BY ShiftType DEF TypeOK, InEdge, InRegs, SyncBack
<1>2. iRstSync' \in [1 .. kStages -> Bit]
  BY ShiftType DEF TypeOK, InEdge, InRegs, SyncReset, Bit
<1>3. iPush' \in Bit /\ iData' \in Data
  BY DEF InEdge, Sender, Bit
<1>4. iPush_q' \in Bit
  BY DEF TypeOK, InEdge, InRegs, DetectPush
<1>5. iPushT' \in Bit /\ iData_int' \in Data \cup {NoData}
  BY DEF TypeOK, InEdge, InRegs, LatchData, Not, Bit
<1>6. iRdy' \in Bit
  BY DEF InEdge, InRegs, ReadySignal, Bit
<1> QED BY <1>1, <1>2, <1>3, <1>4, <1>5, <1>6

\* One edge of OutClk keeps the OutClk registers in their types.
LEMMA OutEdgeType ==
  ASSUME TypeOK, NEW a \in Bit, OutEdge(a)
  PROVE  /\ {oPushT_q', oPushTBack', oValid'} \subseteq Bit
         /\ oData' \in Data \cup {NoData}
         /\ oPushSync' \in [1 .. kStages -> Bit]
<1>1. oPushSync' \in [1 .. kStages -> Bit]
  BY ShiftType DEF TypeOK, OutEdge, SyncPush
<1>2. oPushT_q' \in Bit /\ oPushTBack' \in Bit
  BY ShiftType DEF TypeOK, OutEdge, DetectToggle, oPushT
<1>3. oData' \in Data \cup {NoData} /\ oValid' \in Bit
  BY DEF TypeOK, OutEdge, OutputData, Bit
<1> QED BY <1>1, <1>2, <1>3

\* Every register holds a value of its type.
THEOREM TypeCorrect == Spec => []TypeOK
<1>1. Init => TypeOK
  BY ClearedType DEF Init, TypeOK, Bit
<1>2. TypeOK /\ [Next]_vars => TypeOK'
  <2> SUFFICES ASSUME TypeOK, [Next]_vars PROVE TypeOK'
    OBVIOUS
  <2>1. CASE AssertReset
    BY <2>1, ClearedType DEF AssertReset, ClearRegs, TypeOK, Bit
  <2>2. CASE ReleaseReset
    BY <2>2 DEF ReleaseReset, TypeOK, Bit, inVars, inRegs, outVars
  <2>3. CASE SenderInReset
    BY <2>3 DEF SenderInReset, TypeOK, Bit, inRegs, outVars
  <2>4. CASE InClk
    BY <2>4, InEdgeType DEF InClk, TypeOK, outVars
  <2>5. CASE OutClk
    BY <2>5, OutEdgeType DEF OutClk, TypeOK, inVars, inRegs
  <2>6. CASE BothClks
    BY <2>6, InEdgeType, OutEdgeType DEF BothClks, TypeOK
  <2>7. CASE UNCHANGED vars
    BY <2>7 DEF vars, inVars, inRegs, outVars, TypeOK
  <2> QED BY <2>1, <2>2, <2>3, <2>4, <2>5, <2>6, <2>7 DEF Next
<1> QED BY <1>1, <1>2, PTL DEF Spec
-----------------------------------------------------------------------------
(* The toggle's round. *)

\* The ring is a sequence of bits, and its named places.
LEMMA RingType ==
  ASSUME TypeOK
  PROVE  /\ RingLast \in Nat /\ RingLast = 2 * kStages + 2
         /\ Ring \in [0 .. RingLast -> Bit]
         /\ Ring[0] = iPushT
         /\ Ring[kStages] = oPushT
         /\ Ring[kStages + 1] = oPushT_q
         /\ Ring[kStages + 2] = oPushTBack
         /\ Ring[RingLast] = iPushTBack
         /\ \A i \in 1 .. kStages : Ring[i] = oPushSync[i]
         /\ \A i \in kStages + 3 .. RingLast : Ring[i] = iBackSync[i - kStages - 2]
BY kStagesAssumption
   DEF TypeOK, Ring, RingLast, oPushT, iPushTBack, Sync!Out

\* A ring whose bits each stay or take their left neighbour's value, and
\* whose first bit stays, still has at most one front.
LEMMA FrontMoves ==
  ASSUME NEW r \in [0 .. RingLast -> Bit], NEW s \in [0 .. RingLast -> Bit],
         RingLast \in Nat,
         NEW k \in 0 .. RingLast, FrontAt(r, k),
         s[0] = r[0],
         \A i \in 1 .. RingLast : s[i] \in {r[i], r[i - 1]}
  PROVE  \E j \in 0 .. RingLast : FrontAt(s, j)
<1>1. \A i \in 0 .. RingLast : i <= k => s[i] = s[0]
  BY DEF FrontAt
<1>2. \A i \in 0 .. RingLast : i > k + 1 => s[i] = Not(s[0])
  BY DEF FrontAt
<1>3. CASE k = RingLast
  BY <1>1, <1>3 DEF FrontAt
<1>4. CASE k < RingLast
  <2>1. s[k + 1] = s[0] \/ s[k + 1] = Not(s[0])
    BY <1>4 DEF Bit, Not
  <2>2. CASE s[k + 1] = s[0]
    <3>1. k + 1 \in 0 .. RingLast
      BY <1>4
    <3>2. FrontAt(s, k + 1)
      BY <1>1, <1>2, <2>2, <3>1 DEF FrontAt
    <3> QED BY <3>1, <3>2
  <2>3. CASE s[k + 1] = Not(s[0])
    <3>1. \A i \in 0 .. RingLast : i <= k \/ i = k + 1 \/ i > k + 1
      OBVIOUS
    <3>2. FrontAt(s, k)
      BY <1>1, <1>2, <2>3, <3>1 DEF FrontAt
    <3> QED BY <3>2
  <2> QED BY <2>1, <2>2, <2>3
<1> QED BY <1>3, <1>4

\* A single front between equal ends is no front at all.
LEMMA EqualEnds ==
  ASSUME TypeOK, OneFront, iPushTBack = iPushT
  PROVE  AllEqual
<1>1. PICK k \in 0 .. RingLast : FrontAt(Ring, k)
  BY DEF OneFront
<1>2. k = RingLast
  BY <1>1, RingType DEF FrontAt, Not, Bit
<1> QED BY <1>1, <1>2, RingType DEF FrontAt, AllEqual

\* At an InClk edge the backward chain moves, and iPushT flips only on a push.
LEMMA RingIn ==
  ASSUME TypeOK, InEdge,
         NEW i \in kStages + 3 .. RingLast
  PROVE  iBackSync'[i - kStages - 2] = Ring[i - 1]
<1>1. i - kStages - 2 \in 1 .. kStages
  BY kStagesAssumption DEF RingLast
<1>2. CASE i = kStages + 3
  BY <1>1, <1>2, kStagesAssumption, RingType
     DEF InEdge, InRegs, SyncBack, Sync!Shift, Sync!Stages
<1>3. CASE i > kStages + 3
  <2>1. iBackSync'[i - kStages - 2] = iBackSync[i - kStages - 3]
    BY <1>1, <1>3, kStagesAssumption
       DEF InEdge, InRegs, SyncBack, Sync!Shift, Sync!Stages
  <2>2. i - 1 \in kStages + 3 .. RingLast /\ (i - 1) - kStages - 2 = i - kStages - 3
    BY <1>3, kStagesAssumption DEF RingLast
  <2> QED BY <2>1, <2>2, RingType
<1> QED BY <1>2, <1>3, kStagesAssumption

\* At an OutClk edge the forward chain, oPushT_q and oPushTBack move.
LEMMA RingOut ==
  ASSUME TypeOK, NEW a \in Bit, OutEdge(a)
  PROVE  /\ \A i \in 1 .. kStages : oPushSync'[i] = Ring[i - 1]
         /\ oPushT_q' = Ring[kStages]
         /\ oPushTBack' \in {Ring[kStages + 2], Ring[kStages + 1]}
<1>1. ASSUME NEW i \in 1 .. kStages PROVE oPushSync'[i] = Ring[i - 1]
  <2>1. CASE i = 1
    BY <2>1, RingType DEF OutEdge, SyncPush, Sync!Shift, Sync!Stages
  <2>2. CASE i > 1
    BY <2>2, RingType, kStagesAssumption
       DEF OutEdge, SyncPush, Sync!Shift, Sync!Stages
  <2> QED BY <2>1, <2>2, kStagesAssumption
<1>2. oPushT_q' = Ring[kStages] /\ oPushTBack' \in {Ring[kStages + 2], Ring[kStages + 1]}
  BY RingType DEF OutEdge, DetectToggle
<1> QED BY <1>1, <1>2

\* Any combination of clock edges moves every bit of the ring from its left
\* neighbour or leaves it.
LEMMA RingMoves ==
  ASSUME TypeOK, TypeOK', InClk \/ OutClk \/ BothClks
  PROVE  \A i \in 1 .. RingLast : Ring'[i] \in {Ring[i], Ring[i - 1]}
<1> SUFFICES ASSUME NEW i \in 1 .. RingLast PROVE Ring'[i] \in {Ring[i], Ring[i - 1]}
  OBVIOUS
<1>1. i \in 1 .. kStages \/ i = kStages + 1 \/ i = kStages + 2 \/ i \in kStages + 3 .. RingLast
  BY kStagesAssumption DEF RingLast
<1>2. InEdge \/ UNCHANGED inVars
  BY DEF InClk, OutClk, BothClks
<1>3. (\E a \in Bit : OutEdge(a)) \/ UNCHANGED outVars
  BY DEF InClk, OutClk, BothClks
<1>4. CASE i \in 1 .. kStages
  <2>1. Ring'[i] = oPushSync'[i] /\ Ring[i] = oPushSync[i]
    BY <1>4, kStagesAssumption DEF Ring, RingLast
  <2> QED BY <2>1, <1>3, <1>4, RingOut DEF outVars
<1>5. CASE i = kStages + 1
  <2>1. Ring'[i] = oPushT_q' /\ Ring[i] = oPushT_q
    BY <1>5, kStagesAssumption DEF Ring, RingLast
  <2> QED BY <2>1, <1>3, <1>5, RingOut, kStagesAssumption DEF outVars
<1>6. CASE i = kStages + 2
  <2>1. Ring'[i] = oPushTBack' /\ Ring[i] = oPushTBack
    BY <1>6, kStagesAssumption DEF Ring, RingLast
  <2> QED BY <2>1, <1>3, <1>6, RingOut, kStagesAssumption DEF outVars
<1>7. CASE i \in kStages + 3 .. RingLast
  <2>1. Ring'[i] = iBackSync'[i - kStages - 2] /\ Ring[i] = iBackSync[i - kStages - 2]
    BY <1>7, kStagesAssumption DEF Ring, RingLast
  <2> QED BY <2>1, <1>2, <1>7, RingIn DEF inVars, inRegs
<1> QED BY <1>1, <1>4, <1>5, <1>6, <1>7
-----------------------------------------------------------------------------
(* The handshake's invariant. *)

\* A clock edge at which no push is latched keeps a ring without a front so.
LEMMA IdleStays ==
  ASSUME TypeOK, TypeOK', InClk \/ OutClk \/ BothClks, AllEqual, iPushT' = iPushT
  PROVE  AllEqual'
<1> SUFFICES ASSUME NEW i \in 0 .. RingLast PROVE Ring'[i] = iPushT'
  BY DEF AllEqual
<1>1. CASE i = 0
  BY <1>1 DEF Ring, RingLast
<1>2. CASE i > 0
  <2>1. i \in 1 .. RingLast /\ i - 1 \in 0 .. RingLast
    BY <1>2, kStagesAssumption DEF RingLast
  <2>2. Ring'[i] \in {Ring[i], Ring[i - 1]}
    BY <2>1, RingMoves
  <2> QED BY <2>1, <2>2 DEF AllEqual
<1> QED BY <1>1, <1>2

\* Reset leaves no front.
LEMMA ClearedRing ==
  ASSUME ClearRegs
  PROVE  AllEqual' /\ OneFront'
<1>1. \A i \in 0 .. RingLast : Ring'[i] = 0
  BY kStagesAssumption DEF ClearRegs, Ring, RingLast, Sync!Cleared, Sync!Stages
<1>2. AllEqual'
  BY <1>1 DEF AllEqual, ClearRegs
<1>3. RingLast \in 0 .. RingLast /\ 0 \in 0 .. RingLast
  BY kStagesAssumption DEF RingLast
<1>4. FrontAt(Ring', RingLast)
  BY <1>1, <1>3 DEF FrontAt
<1> QED BY <1>2, <1>3, <1>4 DEF OneFront

\* The front of a ring that no push disturbs moves on; a push finds no front
\* and makes one behind the first bit.
LEMMA ClockKeepsFront ==
  ASSUME IInv, TypeOK', InClk \/ OutClk \/ BothClks
  PROVE  OneFront'
<1>1. \A i \in 1 .. RingLast : Ring'[i] \in {Ring[i], Ring[i - 1]}
  BY RingMoves DEF IInv
<1>2. RingLast \in Nat /\ Ring \in [0 .. RingLast -> Bit] /\ Ring[0] = iPushT
  BY RingType DEF IInv
<1>3. Ring' \in [0 .. RingLast -> Bit]
  <2>1. \A i \in 0 .. RingLast : Ring'[i] \in Bit
    BY kStagesAssumption DEF TypeOK, Ring, RingLast
  <2> QED BY <2>1 DEF Ring
<1>4. Ring'[0] = iPushT'
  BY kStagesAssumption DEF Ring, RingLast
<1>5. CASE iPushT' = iPushT
  <2>1. PICK k \in 0 .. RingLast : FrontAt(Ring, k)
    BY DEF IInv, OneFront
  <2> QED BY <2>1, <1>1, <1>2, <1>3, <1>4, <1>5, FrontMoves DEF OneFront
<1>6. CASE iPushT' # iPushT
  <2>1. iPushRising /\ iPushT' = Not(iPushT)
    BY <1>6 DEF InClk, OutClk, BothClks, InEdge, InRegs, LatchData, inVars, inRegs
  <2>2. AllEqual
    BY <2>1 DEF IInv, PushMeansIdle
  <2>3. \A i \in 1 .. RingLast : Ring'[i] = iPushT
    <3>1. \A i \in 1 .. RingLast : i \in 0 .. RingLast /\ i - 1 \in 0 .. RingLast
      BY <1>2
    <3> QED BY <1>1, <2>2, <3>1 DEF AllEqual
  <2>4. iPushT = Not(iPushT')
    BY <2>1 DEF Not, IInv, TypeOK, Bit
  <2>5. FrontAt(Ring', 0)
    BY <2>3, <2>4, <1>4 DEF FrontAt
  <2> QED BY <2>5, <1>2 DEF OneFront
<1> QED BY <1>5, <1>6

\* iRdy rises, and a push may begin, only at an edge that finds the ring idle.
LEMMA ClockKeepsIdle ==
  ASSUME IInv, TypeOK', InClk \/ OutClk \/ BothClks
  PROVE  ReadyMeansIdle' /\ PushMeansIdle'
<1>1. CASE InEdge
  <2>1. ASSUME iRdy' = 1 PROVE AllEqual'
    <3>1. iPush = 0 /\ iPushTBack = iPushT
      BY <1>1, <2>1 DEF InEdge, InRegs, ReadySignal
    <3>2. AllEqual
      BY <3>1, EqualEnds DEF IInv
    <3>3. iPushT' = iPushT
      BY <1>1, <3>1 DEF InEdge, InRegs, LatchData, iPushRising
    <3> QED BY <3>2, <3>3, IdleStays DEF IInv
  <2>2. ASSUME iPushRising' PROVE iRdy' = 1
    <3>1. iPush = 0 /\ iPush' = 1
      BY <1>1, <2>2 DEF iPushRising, InEdge, InRegs, DetectPush
    <3> QED BY <1>1, <3>1 DEF InEdge, Sender
  <2> QED BY <2>1, <2>2 DEF ReadyMeansIdle, PushMeansIdle
<1>2. CASE UNCHANGED inVars
  <2>1. iRdy' = iRdy /\ iPush' = iPush /\ iPush_q' = iPush_q /\ iPushT' = iPushT
    BY <1>2 DEF inVars, inRegs
  <2>2. iPushRising' = iPushRising
    BY <2>1 DEF iPushRising
  <2>3. AllEqual => AllEqual'
    BY <2>1, IdleStays DEF IInv
  <2> QED BY <2>1, <2>2, <2>3 DEF IInv, ReadyMeansIdle, PushMeansIdle
<1> QED BY <1>1, <1>2 DEF InClk, OutClk, BothClks

\* The handshake's invariant is inductive.
LEMMA InvInit == Init => IInv
<1> SUFFICES ASSUME Init PROVE IInv
  OBVIOUS
<1>1. TypeOK
  BY ClearedType DEF Init, TypeOK, Bit
<1>2. \A i \in 0 .. RingLast : Ring[i] = 0
  BY kStagesAssumption DEF Init, Ring, RingLast, Sync!Cleared, Sync!Stages
<1>3. RingLast \in 0 .. RingLast /\ 0 \in 0 .. RingLast
  BY kStagesAssumption DEF RingLast
<1>4. OneFront
  BY <1>2, <1>3 DEF OneFront, FrontAt
<1>5. ReadyMeansIdle /\ PushMeansIdle
  BY DEF Init, ReadyMeansIdle, PushMeansIdle, iPushRising
<1> QED BY <1>1, <1>4, <1>5 DEF IInv

LEMMA InvStep == IInv /\ TypeOK' /\ [Next]_vars => IInv'
<1> SUFFICES ASSUME IInv, TypeOK', [Next]_vars PROVE IInv'
  OBVIOUS
<1>1. CASE AssertReset
  BY <1>1, ClearedRing
     DEF AssertReset, ClearRegs, IInv, ReadyMeansIdle, PushMeansIdle
<1>2. CASE ReleaseReset \/ SenderInReset \/ UNCHANGED vars
  <2>1. UNCHANGED <<inRegs, outVars>>
    BY <1>2 DEF ReleaseReset, SenderInReset, vars, inVars
  <2>2. Ring' = Ring /\ iPushT' = iPushT /\ iRdy' = iRdy
    BY <2>1 DEF Ring, inRegs, outVars
  <2>3. OneFront' /\ ReadyMeansIdle' /\ (AllEqual => AllEqual')
    BY <2>2 DEF IInv, OneFront, ReadyMeansIdle, AllEqual
  <2>4. iPushRising' => iPushRising
    BY <1>2, <2>1
       DEF iPushRising, ReleaseReset, SenderInReset, vars, inVars, inRegs
  <2> QED BY <2>3, <2>4 DEF IInv, PushMeansIdle
<1>3. CASE InClk \/ OutClk \/ BothClks
  BY <1>3, ClockKeepsFront, ClockKeepsIdle DEF IInv
<1> QED BY <1>1, <1>2, <1>3 DEF Next

\* At most one toggle is ever under way, and iRdy or an accepted push means
\* that none is, for any number of synchronizer stages and any clock ratio.
THEOREM HandshakeInvariant == Spec => [](OneFront /\ ReadyMeansIdle /\ PushMeansIdle)
<1>1. Spec => []IInv
  BY TypeCorrect, InvInit, InvStep, PTL DEF Spec
<1>2. IInv => OneFront /\ ReadyMeansIdle /\ PushMeansIdle
  BY DEF IInv
<1> QED BY <1>1, <1>2, PTL

\* iRdy, read by the sender a clock after the ring was seen idle, still means
\* that no toggle is under way: a push it invites cannot overtake another.
THEOREM ReadyIdle == Spec => []ReadyMeansIdle
<1>1. (OneFront /\ ReadyMeansIdle /\ PushMeansIdle) => ReadyMeansIdle
  OBVIOUS
<1> QED BY <1>1, HandshakeInvariant, PTL

\* The word in the crossing is stable until the output register has it.
THEOREM CrossingStable == Spec => StableWhileCrossing
<1>1. IInv /\ [Next]_vars =>
        (iPushT # oPushT_q /\ aReset' = 0 => iData_int' = iData_int)
  <2> SUFFICES ASSUME IInv, [Next]_vars, iPushT # oPushT_q, aReset' = 0
               PROVE  iData_int' = iData_int
    OBVIOUS
  <2>1. ~iPushRising
    <3>1. kStages + 1 \in 0 .. RingLast
      BY kStagesAssumption DEF RingLast
    <3> QED BY <3>1, RingType DEF IInv, PushMeansIdle, AllEqual
  <2> QED BY <2>1 DEF Next, AssertReset, ReleaseReset, SenderInReset, InClk, OutClk,
            BothClks, InEdge, InRegs, LatchData, vars, inVars, inRegs
<1>2. Spec => []IInv
  BY TypeCorrect, InvInit, InvStep, PTL DEF Spec
<1> QED BY <1>1, <1>2, PTL DEF Spec, StableWhileCrossing

-----------------------------------------------------------------------------
(* The channel and its two ends: HandshakeLink. *)

\* A toggle that has come to some place of the ring has passed every earlier one.
LEMMA Passed ==
  ASSUME TypeOK, OneFront
  PROVE  /\ oPushT_q = iPushT => oPushT = iPushT
         /\ oPushTBack = iPushT => oPushT_q = iPushT
         /\ Ring[RingLast - 1] = iPushT => oPushT_q = iPushT
         /\ iPushTBack = iPushT => oPushT_q = iPushT
<1>1. PICK k \in 0 .. RingLast : FrontAt(Ring, k)
  BY DEF OneFront
<1>2. ASSUME NEW i \in 0 .. RingLast, NEW j \in 0 .. RingLast, j <= i, Ring[i] = iPushT
      PROVE  Ring[j] = iPushT
  BY <1>1, <1>2, RingType DEF FrontAt, Not, Bit
<1>3. /\ {kStages, kStages + 1, kStages + 2, RingLast - 1, RingLast} \subseteq 0 .. RingLast
      /\ kStages <= kStages + 1 /\ kStages + 1 <= kStages + 2
      /\ kStages + 1 <= RingLast - 1 /\ kStages + 1 <= RingLast
  BY kStagesAssumption DEF RingLast
<1> QED BY <1>2, <1>3, RingType

\* With no toggle under way, an edge of OutClk sees none.
LEMMA IdleOut ==
  ASSUME TypeOK, AllEqual
  PROVE  oPushT = iPushT /\ oPushT_q = iPushT /\ oPushTBack = iPushT /\ iPushTBack = iPushT
<1>1. {kStages, kStages + 1, kStages + 2, RingLast} \subseteq 0 .. RingLast
  BY kStagesAssumption DEF RingLast
<1> QED BY <1>1, RingType DEF AllEqual

\* What an edge of InClk does: it latches a push and flips the toggle, or it
\* moves the backward chain.
LEMMA InPart ==
  ASSUME IInv, InClk \/ OutClk \/ BothClks
  PROVE  \/ /\ iPushRising /\ (InClk \/ BothClks) /\ AllEqual
            /\ iPushT' = Not(iPushT) /\ iData_int' = iData
         \/ /\ ~(iPushRising /\ (InClk \/ BothClks))
            /\ iPushT' = iPushT /\ iData_int' = iData_int
            /\ iPushTBack' \in {iPushTBack, Ring[RingLast - 1]}
<1>1. CASE OutClk
  <2>1. UNCHANGED <<iPush, iPush_q, iPushT, iData_int, iBackSync>>
    BY <1>1 DEF OutClk, inVars, inRegs
  <2>2. iPushTBack' = iPushTBack
    BY <2>1 DEF iPushTBack, Sync!Out
  <2>3. ~(iPushRising /\ (InClk \/ BothClks))
    <3>1. CASE InClk \/ BothClks
      <4>1. iPush_q' = iPush
        BY <3>1 DEF InClk, BothClks, InEdge, InRegs, DetectPush
      <4> QED BY <4>1, <2>1 DEF iPushRising
    <3> QED BY <3>1
  <2> QED BY <2>1, <2>2, <2>3
<1>2. CASE (InClk \/ BothClks) /\ iPushRising
  BY <1>2 DEF IInv, PushMeansIdle, InClk, BothClks, InEdge, InRegs, LatchData
<1>3. CASE (InClk \/ BothClks) /\ ~iPushRising
  <2>1. InEdge
    BY <1>3 DEF InClk, BothClks
  <2>2. RingLast \in kStages + 3 .. RingLast /\ RingLast - kStages - 2 = kStages
    BY kStagesAssumption DEF RingLast
  <2>3. iPushTBack' = Ring[RingLast - 1]
    BY <2>1, <2>2, RingIn DEF IInv, iPushTBack, Sync!Out
  <2> QED BY <1>3, <2>1, <2>3 DEF InEdge, InRegs, LatchData
<1> QED BY <1>1, <1>2, <1>3

\* What an edge of OutClk does: it takes a toggle that has come, with its word.
LEMMA OutPart ==
  ASSUME IInv, InClk \/ OutClk \/ BothClks
  PROVE  \/ InClk /\ UNCHANGED <<oPushT_q, oPushTBack, oData, oValid>>
         \/ /\ OutClk \/ BothClks
            /\ oPushT_q' = oPushT /\ oPushTBack' \in {oPushTBack, oPushT_q}
            /\ oData' = IF oPushT # oPushT_q THEN iData_int ELSE oData
            /\ oValid' = IF oPushT # oPushT_q THEN 1 ELSE IF PulsedValid THEN 0 ELSE oValid
BY DEF InClk, OutClk, BothClks, OutEdge, DetectToggle, OutputData, oPushTChanged, outVars
-----------------------------------------------------------------------------
(* The refinement. *)

\* An edge pushes a word into an idle channel, delivers it, returns the
\* acknowledgement, or changes nothing the channel shows.
LEMMA ClockIsChannelStep ==
  ASSUME IInv, TypeOK', InClk \/ OutClk \/ BothClks
  PROVE  [Channel!ChanNext]_(Channel!chanVars)
<1> USE DEF Phase, Channel!chanVars
<1>0. {iPushT, oPushT, oPushT_q, iPushTBack} \subseteq Bit /\ iData \in Data
  BY RingType, kStagesAssumption DEF IInv, TypeOK, oPushT, iPushTBack, Sync!Out
<1>1. CASE iPushRising /\ AllEqual /\ iPushT' = Not(iPushT) /\ iData_int' = iData
  <2>1. Phase = "idle" /\ oPushT_q = oPushT /\ oPushT_q = iPushT
    BY <1>1, IdleOut DEF IInv
  <2>2. oPushT_q' = oPushT_q /\ oData' = oData
    BY <2>1, OutPart
  <2>3. Phase' = "pushed"
    BY <1>0, <1>1, <2>1, <2>2 DEF Not, Bit
  <2>4. Channel!Push(iData)
    BY <1>1, <2>1, <2>2, <2>3 DEF Channel!Push
  <2> QED BY <1>0, <2>4 DEF Channel!ChanNext
<1>2. CASE /\ iPushT' = iPushT /\ iData_int' = iData_int
           /\ iPushTBack' \in {iPushTBack, Ring[RingLast - 1]}
  <2>1. CASE iPushTBack = iPushT
    <3>1. AllEqual /\ AllEqual'
      BY <1>2, <2>1, EqualEnds, IdleStays DEF IInv
    <3>2. oPushT = iPushT /\ oPushT_q = iPushT
      BY <3>1, IdleOut DEF IInv
    <3>3. oPushT_q' = oPushT_q /\ oData' = oData
      BY <3>2, OutPart
    <3>4. iPushTBack' = iPushT'
      <4>1. RingLast \in 0 .. RingLast /\ Ring'[RingLast] = iPushTBack'
        BY kStagesAssumption DEF RingLast, Ring, iPushTBack, Sync!Out
      <4> QED BY <3>1, <4>1 DEF AllEqual
    <3> QED BY <1>2, <2>1, <3>2, <3>3, <3>4
  <2>2. CASE oPushT_q # iPushT
    <3>1. iPushTBack' # iPushT /\ iPushTBack # iPushT
      BY <1>2, <2>2, Passed DEF IInv
    <3>2. CASE oPushT_q' = oPushT_q
      <4>1. oData' = oData
        BY <3>2, OutPart
      <4> QED BY <1>2, <2>2, <3>2, <4>1
    <3>3. CASE oPushT_q' # oPushT_q
      <4>1. oPushT_q' = oPushT /\ oPushT # oPushT_q /\ oData' = iData_int
        BY <3>3, OutPart
      <4>2. oPushT_q' = iPushT
        BY <4>1, <2>2, <1>0 DEF Bit
      <4>3. Channel!Deliver
        BY <1>2, <2>2, <3>1, <4>1, <4>2 DEF Channel!Deliver
      <4> QED BY <4>3 DEF Channel!ChanNext
    <3> QED BY <3>2, <3>3
  <2>3. CASE iPushTBack # iPushT /\ oPushT_q = iPushT
    <3>1. oPushT_q' = oPushT_q /\ oData' = oData
      BY <2>3, Passed, OutPart DEF IInv
    <3>2. Phase = "delivered" /\ Phase' \in {"delivered", "idle"}
      BY <1>2, <2>3, <3>1
    <3> QED BY <1>2, <3>1, <3>2 DEF Channel!ChanNext, Channel!Return
  <2> QED BY <2>1, <2>2, <2>3
<1> QED BY <1>1, <1>2, InPart

\* Every other step clears the channel or leaves it alone.
LEMMA StepIsChannelStep ==
  ASSUME IInv, TypeOK', [Next]_vars
  PROVE  [Channel!ChanNext]_(Channel!chanVars)
<1>1. CASE AssertReset
  <2>1. Phase' = "idle"
    BY <1>1, kStagesAssumption
       DEF AssertReset, ClearRegs, Phase, iPushTBack, Sync!Out, Sync!Cleared, Sync!Stages
  <2> QED BY <1>1, <2>1
          DEF AssertReset, ClearRegs, Channel!ChanNext, Channel!Clear
<1>2. CASE ReleaseReset \/ SenderInReset \/ UNCHANGED vars
  <2>1. UNCHANGED <<iPushT, oPushT_q, iBackSync, iData_int, oData>>
    BY <1>2 DEF ReleaseReset, SenderInReset, vars, inVars, inRegs, outVars
  <2> QED BY <2>1 DEF Phase, iPushTBack, Sync!Out, Channel!chanVars
<1>3. CASE InClk \/ OutClk \/ BothClks
  BY <1>3, ClockIsChannelStep
<1> QED BY <1>1, <1>2, <1>3 DEF Next

\* The history variable does not restrict the registers.
LEMMA LinkStep == [LinkNext]_linkVars => [Next]_vars
BY DEF LinkNext, linkVars, Next

\* The invariant of the registers holds in the link.
LEMMA LinkInv == LinkSpec => []IInv /\ []TypeOK
<1>1. LinkSpec => Spec
  BY LinkStep, PTL DEF LinkSpec, LinkInit, Spec
<1>2. Spec => []IInv
  BY TypeCorrect, InvInit, InvStep, PTL DEF Spec
<1> QED BY <1>1, <1>2, TypeCorrect, PTL

\* The registers and synchronizers of HandshakeData.vhd implement the one-word
\* channel, resets included.
THEOREM Implements == LinkSpec => ImplementsChannel
<1>1. Init => Channel!ChanInit
  BY kStagesAssumption
     DEF Init, Channel!ChanInit, Phase, iPushTBack, Sync!Out, Sync!Cleared, Sync!Stages
<1>2. IInv /\ TypeOK' /\ [LinkNext]_linkVars => [Channel!ChanNext]_(Channel!chanVars)
  BY LinkStep, StepIsChannelStep
<1> QED BY <1>1, <1>2, LinkInv, PTL
        DEF LinkSpec, LinkInit, ImplementsChannel, Channel!ChanSpec
-----------------------------------------------------------------------------
(* What the receiver is shown.                                             *)

\* The word under way is the one pending; the one shown is still pending, and
\* its acknowledgement has not begun; else nothing is pending.
PendingMatches ==
  /\ oPushT_q # iPushT => oValid = 0 /\ pending = <<iData_int>>
  /\ oPushT_q = iPushT /\ oValid = 0 => pending = <<>>
  /\ oValid = 1 => oPushTBack # oPushT_q /\ pending = <<oData>>

\* An edge of OutClk takes the word that is shown, and shows the one that has come.
LEMMA TakenMatches ==
  ASSUME PulsedValid, IInv, PendingMatches, pending' = Taken(pending),
         iPushT' = iPushT, iData_int' = iData_int,
         oPushT_q' = oPushT, oPushTBack' \in {oPushTBack, oPushT_q},
         oData' = IF oPushT # oPushT_q THEN iData_int ELSE oData,
         oValid' = IF oPushT # oPushT_q THEN 1 ELSE 0
  PROVE  PendingMatches'
<1>0. {iPushT, oPushT, oPushT_q, oPushTBack, oValid} \subseteq Bit
  BY RingType, kStagesAssumption DEF IInv, TypeOK, oPushT, Sync!Out
<1>1. CASE oValid = 1
  <2>1. oPushT_q = iPushT /\ oPushT = iPushT /\ pending = <<oData>>
    BY <1>1, Passed DEF PendingMatches, IInv
  <2>2. pending' = <<>> /\ oValid' = 0 /\ oPushT_q' = iPushT'
    BY <1>1, <2>1 DEF Taken
  <2> QED BY <2>2 DEF PendingMatches
<1>2. CASE oValid = 0 /\ oPushT # oPushT_q
  <2>1. oPushT_q # iPushT /\ oPushTBack # iPushT /\ oPushT = iPushT
    BY <1>0, <1>2, Passed DEF IInv, Bit
  <2>2. pending' = <<iData_int>>
    BY <1>2, <2>1 DEF PendingMatches, Taken
  <2> QED BY <1>2, <2>1, <2>2 DEF PendingMatches
<1>3. CASE oValid = 0 /\ oPushT = oPushT_q
  <2>1. pending' = pending
    BY <1>3 DEF Taken
  <2> QED BY <1>3, <2>1 DEF PendingMatches
<1> QED BY <1>0, <1>1, <1>2, <1>3 DEF Bit

\* A push finds nothing shown and nothing pending.
LEMMA PushMatches ==
  ASSUME IInv, PendingMatches, AllEqual, pending' = Append(Taken(pending), iData),
         iPushT' = Not(iPushT), iData_int' = iData,
         oPushT_q' = oPushT_q, oValid' = 0
  PROVE  PendingMatches'
<1>1. /\ {iPushT, oValid} \subseteq Bit
      /\ oPushT_q = iPushT /\ oPushTBack = iPushT
  BY IdleOut DEF IInv, TypeOK
<1>2. oValid = 0 /\ pending = <<>>
  BY <1>1 DEF PendingMatches, Bit
<1>3. pending' = <<iData>>
  BY <1>2 DEF Taken
<1>4. oPushT_q' # iPushT'
  BY <1>1 DEF Not, Bit
<1> QED BY <1>3, <1>4 DEF PendingMatches

\* Every step keeps the history variable and the registers in agreement.
LEMMA PendingStep ==
  ASSUME PulsedValid, IInv, PendingMatches, [LinkNext]_linkVars
  PROVE  PendingMatches'
<1>1. CASE AssertReset /\ pending' = <<>>
  BY <1>1 DEF AssertReset, ClearRegs, PendingMatches
<1>2. CASE ((ReleaseReset \/ SenderInReset) /\ UNCHANGED pending) \/ UNCHANGED linkVars
  <2>1. UNCHANGED <<oPushT_q, oPushTBack, oValid, oData, iPushT, iData_int, pending>>
    BY <1>2 DEF ReleaseReset, SenderInReset, linkVars, vars, inVars, inRegs, outVars
  <2> QED BY <2>1 DEF PendingMatches
<1>3. CASE InClk /\ pending' = Accepted(pending)
  <2>1. UNCHANGED <<oPushT_q, oPushTBack, oData, oValid>>
    BY <1>3 DEF InClk, outVars
  <2>2. CASE iPushRising
    <3>1. AllEqual /\ iPushT' = Not(iPushT) /\ iData_int' = iData
      BY <1>3, <2>2, InPart
    <3>2. oPushTBack = oPushT_q /\ oValid \in Bit
      BY <3>1, IdleOut DEF IInv, TypeOK
    <3>3. oValid = 0 /\ Taken(pending) = pending
      BY <3>2 DEF PendingMatches, Bit, Taken
    <3>4. pending' = Append(Taken(pending), iData)
      BY <1>3, <2>2, <3>3 DEF Accepted
    <3> QED BY <2>1, <3>1, <3>3, <3>4, PushMatches
  <2>3. CASE ~iPushRising
    <3>1. iPushT' = iPushT /\ iData_int' = iData_int /\ pending' = pending
      BY <1>3, <2>3, InPart DEF Accepted
    <3> QED BY <2>1, <3>1 DEF PendingMatches
  <2> QED BY <2>2, <2>3
<1>4. ASSUME OutClk \/ BothClks
      PROVE  /\ oPushT_q' = oPushT /\ oPushTBack' \in {oPushTBack, oPushT_q}
             /\ oData' = IF oPushT # oPushT_q THEN iData_int ELSE oData
             /\ oValid' = IF oPushT # oPushT_q THEN 1 ELSE 0
  BY <1>4 DEF OutClk, BothClks, OutEdge, DetectToggle, OutputData, oPushTChanged
<1>5. CASE OutClk /\ pending' = Taken(pending)
  <2>1. iPushT' = iPushT /\ iData_int' = iData_int
    BY <1>5 DEF OutClk, inVars, inRegs
  <2> QED BY <1>4, <1>5, <2>1, TakenMatches
<1>6. CASE BothClks /\ pending' = Accepted(Taken(pending))
  <2>1. CASE iPushRising
    <3>1. /\ AllEqual /\ iPushT' = Not(iPushT) /\ iData_int' = iData
          /\ pending' = Append(Taken(pending), iData)
      BY <1>6, <2>1, InPart DEF Accepted
    <3>2. oPushT_q' = oPushT_q /\ oValid' = 0
      BY <1>4, <1>6, <3>1, IdleOut DEF IInv
    <3> QED BY <3>1, <3>2, PushMatches
  <2>2. CASE ~iPushRising
    <3>1. iPushT' = iPushT /\ iData_int' = iData_int /\ pending' = Taken(pending)
      BY <1>6, <2>2, InPart DEF Accepted
    <3> QED BY <1>4, <1>6, <3>1, TakenMatches
  <2> QED BY <2>1, <2>2
<1> QED BY <1>1, <1>2, <1>3, <1>5, <1>6 DEF LinkNext

\* In the copy of HandshakeData that clears oValid, each word pushed is shown
\* once, unmixed and in order.
THEOREM ShownOnce == ASSUME PulsedValid PROVE LinkSpec => []PulseShowsPending
<1>1. LinkInit => PendingMatches
  BY DEF LinkInit, Init, PendingMatches
<1>2. IInv /\ PendingMatches /\ [LinkNext]_linkVars => PendingMatches'
  BY PendingStep
<1>3. PendingMatches => PulseShowsPending
  BY DEF PendingMatches, PulseShowsPending
<1> QED BY <1>1, <1>2, <1>3, LinkInv, PTL DEF LinkSpec
=============================================================================
