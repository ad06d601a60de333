------------------------ MODULE SetupTripwire_proof ------------------------
(***************************************************************************)
(* With packets far enough apart for the manager to be done with one       *)
(* before the next (Spaced), the driver acts on whole packets only, in     *)
(* order and on none twice, whatever the number of packets and wherever    *)
(* the manager writes the next one.                                        *)
(***************************************************************************)
EXTENDS SetupTripwire, TLAPS

\* Between the clear of SUTW and that of the bit of the packet.
Serving == Clearing \cup {"SETUP_UPDATE_ENDPTSETUP_RECEIVED"}

\* The driver has seen ENDPTSETUPSTAT set, and has not passed the tripwire.
Reading == {"arm", "read1", "read2", "check"}

\* It has passed the tripwire.
Passed == {"clear", "disarm", "poll"}

\* Every packet handled comes before the n-th.
AllBefore(n) == \A k \in DOMAIN handled : handled[k][1] < n

\* Type correctness.
SetupTypeOK ==
    /\ sent \in Packets /\ words \in Words /\ context \in Words /\ memory \in Words
    /\ Data \in Words /\ handled \in Seq(Words)
    /\ {arriving, received, wasReset, SUTW, SETUPSTAT} \subseteq BOOLEAN
    /\ USBSTS \subseteq {"UI", "UR"} /\ IrqSts \subseteq {"UI", "UR"}
    /\ state \in States

\* There is a packet in the receive path, and none after it, while one is
\* under way or served.
PacketStays ==
    /\ arriving => state \notin Serving /\ ~received
    /\ ~arriving => words = Packet(sent)
    /\ state \in Serving => received

\* What the manager has copied is a whole packet, and an older one as long as
\* there is another to copy.
ContextWhole ==
    /\ context = Packet(context[1]) /\ context[1] <= sent
    /\ arriving => context[1] < sent
    /\ received /\ state \notin {"SETUP_S2MM", "SETUP_UPDATE_ENDPTSETUP_RECEIVED"}
          => context[1] < sent
    /\ state # "SETUP_S2MM" => memory = context

\* As long as the tripwire is set, memory is whole and has not changed since.
TripwireTells ==
    /\ SUTW => state \notin Clearing
    /\ SUTW /\ pc = "read2" => Data[1] = memory[1]
    /\ SUTW /\ pc = "check" => Data = memory

\* A bit that is set, a packet being copied, and a packet being read are newer
\* than every packet handled, and so is the one the driver has accepted.
NewerThanHandled ==
    /\ AllBefore(context[1] + 1)
    /\ SETUPSTAT \/ state = "SETUP_S2MM" \/ pc \in Reading
          => AllBefore(context[1]) /\ context[1] > 0

\* The packet that has passed the tripwire is whole, and older than one copied since.
Accepted ==
    pc \in Passed =>
        /\ Data = Packet(Data[1]) /\ Data[1] \in 1 .. context[1] /\ AllBefore(Data[1])
        /\ state = "SETUP_S2MM" => Data[1] < context[1]

\* What a reachable state satisfies: the strengthening that is inductive.
IInv ==
    /\ SetupTypeOK /\ PacketStays /\ ContextWhole /\ TripwireTells
    /\ NewerThanHandled /\ Accepted /\ SetupWhole /\ HandledInOrder

\* What the types say of the numbers of packets.
LEMMA Numbers ==
  ASSUME SetupTypeOK
  PROVE  /\ sent \in Nat /\ context[1] \in Nat /\ Data[1] \in Nat
         /\ \A k \in DOMAIN handled : handled[k][1] \in Nat
<1>1. \A w \in Words : w[1] \in Nat
  BY TripwireAssumption DEF Words, Packets
<1>2. \A k \in DOMAIN handled : handled[k] \in Words
  BY DEF SetupTypeOK
<1>3. sent \in Nat
  BY TripwireAssumption DEF SetupTypeOK, Packets
<1> QED BY <1>1, <1>2, <1>3 DEF SetupTypeOK

\* Nothing is sent and nothing handled.
LEMMA InvInit == Init => IInv
<1> SUFFICES ASSUME Init PROVE IInv
  OBVIOUS
<1>1. None \in Words /\ 0 \in Packets /\ None[1] = 0 /\ None[2] = 0 /\ None = Packet(0)
  BY TripwireAssumption DEF None, Packet, Words, Packets
<1>2. SetupTypeOK
  <2>1. handled \in Seq(Words)
    BY DEF Init
  <2>2. /\ {arriving, received, wasReset, SUTW, SETUPSTAT} \subseteq BOOLEAN /\ state \in States
        /\ USBSTS \subseteq {"UI", "UR"} /\ IrqSts \subseteq {"UI", "UR"}
    BY DEF Init, States
  <2> QED BY <1>1, <2>1, <2>2 DEF Init, SetupTypeOK
<1>3. PacketStays /\ ContextWhole /\ TripwireTells
  BY <1>1 DEF Init, PacketStays, ContextWhole, TripwireTells, Serving, Clearing
<1>4. NewerThanHandled /\ Accepted /\ SetupWhole /\ HandledInOrder
  BY DEF Init, NewerThanHandled, AllBefore, Accepted, SetupWhole, HandledInOrder,
         Reading, Passed
<1> QED BY <1>2, <1>3, <1>4 DEF IInv

\* A packet on its way: this is where Spaced is needed, and only here.
LEMMA ReceivePathStep ==
  ASSUME Spaced, IInv,
         HostSends \/ (\E i \in {1, 2} : WordCrosses(i)) \/ ReportCrosses
  PROVE  IInv'
<1>1. CASE HostSends
  <2>1. UNCHANGED <<pc, Data, handled>>
    BY <1>1 DEF HostSends, driver
  <2>2. SetupTypeOK'
    BY TripwireAssumption, <1>1
       DEF IInv, SetupTypeOK, States, Clearing, Words, Packets, HostSends, driver
  <2>3. PacketStays' /\ ContextWhole'
    BY <1>1, Numbers
       DEF IInv, SetupTypeOK, Words, Packet, PacketStays, ContextWhole, Serving,
           Clearing, HostSends
  <2>4. TripwireTells'
    BY <1>1 DEF IInv, TripwireTells, Clearing, HostSends, driver
  <2>5. NewerThanHandled' /\ Accepted'
    BY <1>1, <2>1, Numbers
       DEF IInv, NewerThanHandled, Accepted, AllBefore, PacketStays, ContextWhole,
           Serving, Clearing, Packet, HostSends
  <2>6. SetupWhole' /\ HandledInOrder'
    BY <1>1, <2>1, Numbers DEF IInv, SetupWhole, HandledInOrder, HostSends
  <2> QED BY <2>2, <2>3, <2>4, <2>5, <2>6 DEF IInv
<1>2. ASSUME NEW i \in {1, 2}, WordCrosses(i) PROVE IInv'
  <2>1. UNCHANGED <<pc, Data, handled>>
    BY <1>2 DEF WordCrosses, driver
  <2>2. SetupTypeOK'
    BY <1>2 DEF IInv, SetupTypeOK, States, Clearing, Words, Packets, WordCrosses, driver
  <2>3. PacketStays' /\ ContextWhole'
    BY <1>2, Numbers
       DEF IInv, SetupTypeOK, Words, Packet, PacketStays, ContextWhole, Serving,
           Clearing, WordCrosses
  <2>4. TripwireTells'
    BY <1>2 DEF IInv, TripwireTells, Clearing, WordCrosses, driver
  <2>5. NewerThanHandled' /\ Accepted'
    BY <1>2, <2>1, Numbers
       DEF IInv, NewerThanHandled, Accepted, AllBefore, PacketStays, ContextWhole,
           Serving, Clearing, Packet, WordCrosses
  <2>6. SetupWhole' /\ HandledInOrder'
    BY <1>2, <2>1, Numbers DEF IInv, SetupWhole, HandledInOrder, WordCrosses
  <2> QED BY <2>2, <2>3, <2>4, <2>5, <2>6 DEF IInv
<1>3. CASE ReportCrosses
  <2>1. UNCHANGED <<pc, Data, handled>>
    BY <1>3 DEF ReportCrosses, driver
  <2>2. SetupTypeOK'
    BY <1>3 DEF IInv, SetupTypeOK, States, Clearing, Words, Packets, ReportCrosses, driver
  <2>3. PacketStays' /\ ContextWhole'
    BY <1>3, Numbers
       DEF IInv, SetupTypeOK, Words, Packet, PacketStays, ContextWhole, Serving,
           Clearing, ReportCrosses
  <2>4. TripwireTells'
    BY <1>3 DEF IInv, TripwireTells, Clearing, ReportCrosses, driver
  <2>5. NewerThanHandled' /\ Accepted'
    BY <1>3, <2>1, Numbers
       DEF IInv, NewerThanHandled, Accepted, AllBefore, PacketStays, ContextWhole,
           Serving, Clearing, Packet, ReportCrosses
  <2>6. SetupWhole' /\ HandledInOrder'
    BY <1>3, <2>1, Numbers DEF IInv, SetupWhole, HandledInOrder, ReportCrosses
  <2> QED BY <2>2, <2>3, <2>4, <2>5, <2>6 DEF IInv
<1> QED BY <1>1, <1>2, <1>3

\* A step that leaves the driver where it is, or takes it out of
\* XUsbPs_EpGetSetupData.
Elsewhere == pc' = pc \/ pc' \notin Reading \cup Passed

\* The manager has copied a packet, in whatever clock of the driver's, and the bit
\* of it is set or discarded.
LEMMA CopiedStep ==
  ASSUME IInv, SetupCopied, SETUPSTAT' \in {SETUPSTAT, TRUE},
         UNCHANGED <<Data, handled>>, Elsewhere, USBSTS' \subseteq {"UI", "UR"}, UNCHANGED IrqSts
  PROVE  IInv'
<1>1. SetupTypeOK'
  BY DEF IInv, SetupTypeOK, States, Clearing, Words, Packets, SetupCopied
<1>2. PacketStays' /\ ContextWhole'
  BY Numbers
     DEF IInv, SetupTypeOK, Words, Packet, PacketStays, ContextWhole, Serving, Clearing, SetupCopied
<1>3. TripwireTells'
  BY DEF IInv, TripwireTells, Clearing, Elsewhere, Reading, SetupCopied
<1>4. NewerThanHandled' /\ Accepted'
  BY Numbers
     DEF IInv, NewerThanHandled, Accepted, AllBefore, PacketStays, ContextWhole, Serving,
         Clearing, Packet, Elsewhere, SetupCopied
<1>5. SetupWhole' /\ HandledInOrder'
  BY Numbers DEF IInv, SetupWhole, HandledInOrder, SetupCopied
<1> QED BY <1>1, <1>2, <1>3, <1>4, <1>5 DEF IInv

\* It has served another request.
LEMMA OtherDoneStep ==
  ASSUME IInv, OtherDone, UNCHANGED <<Data, handled>>, Elsewhere,
         USBSTS' \subseteq {"UI", "UR"}, UNCHANGED IrqSts
  PROVE  IInv'
<1>1. SetupTypeOK'
  BY DEF IInv, SetupTypeOK, States, Clearing, Words, Packets, OtherDone
<1>2. PacketStays' /\ ContextWhole'
  BY Numbers
     DEF IInv, SetupTypeOK, Words, Packet, PacketStays, ContextWhole, Serving, Clearing, OtherDone
<1>3. TripwireTells'
  BY DEF IInv, TripwireTells, Clearing, Elsewhere, Reading, OtherDone
<1>4. NewerThanHandled' /\ Accepted'
  BY Numbers
     DEF IInv, NewerThanHandled, Accepted, AllBefore, PacketStays, ContextWhole, Serving,
         Clearing, Packet, Elsewhere, OtherDone
<1>5. SetupWhole' /\ HandledInOrder'
  BY Numbers DEF IInv, SetupWhole, HandledInOrder, OtherDone
<1> QED BY <1>1, <1>2, <1>3, <1>4, <1>5 DEF IInv

\* A bus reset is reported.
LEMMA ResetDoneStep ==
  ASSUME IInv, ResetDone, UNCHANGED <<Data, handled>>, Elsewhere,
         USBSTS' \subseteq {"UI", "UR"}, UNCHANGED IrqSts
  PROVE  IInv'
<1>1. SetupTypeOK'
  BY DEF IInv, SetupTypeOK, States, Clearing, Words, Packets, ResetDone
<1>2. PacketStays' /\ ContextWhole'
  BY Numbers
     DEF IInv, SetupTypeOK, Words, Packet, PacketStays, ContextWhole, Serving, Clearing, ResetDone
<1>3. TripwireTells'
  BY DEF IInv, TripwireTells, Clearing, Elsewhere, Reading, ResetDone
<1>4. NewerThanHandled' /\ Accepted'
  BY Numbers
     DEF IInv, NewerThanHandled, Accepted, AllBefore, PacketStays, ContextWhole, Serving,
         Clearing, Packet, Elsewhere, ResetDone
<1>5. SetupWhole' /\ HandledInOrder'
  BY Numbers DEF IInv, SetupWhole, HandledInOrder, ResetDone
<1> QED BY <1>1, <1>2, <1>3, <1>4, <1>5 DEF IInv

\* A step of the manager, or a bus reset.
LEMMA ManagerStep ==
  ASSUME IInv, SetupStates \/ OtherStart \/ OtherEnd \/ BusReset
  PROVE  IInv'
<1>1. CASE SetupLockoutTripwire
  <2>1. UNCHANGED <<pc, Data, handled>>
    BY <1>1 DEF SetupLockoutTripwire, driver
  <2>2. SetupTypeOK'
    BY <1>1
       DEF IInv, SetupTypeOK, States, Clearing, Words, Packets, SetupLockoutTripwire, driver
  <2>3. PacketStays' /\ ContextWhole'
    BY <1>1, Numbers
       DEF IInv, SetupTypeOK, Words, Packet, PacketStays, ContextWhole, Serving,
           Clearing, SetupLockoutTripwire
  <2>4. TripwireTells'
    BY <1>1 DEF IInv, TripwireTells, Clearing, SetupLockoutTripwire, driver
  <2>5. NewerThanHandled' /\ Accepted'
    BY <1>1, <2>1, Numbers
       DEF IInv, NewerThanHandled, Accepted, AllBefore, PacketStays, ContextWhole,
           Serving, Clearing, Packet, SetupLockoutTripwire
  <2>6. SetupWhole' /\ HandledInOrder'
    BY <1>1, <2>1, Numbers DEF IInv, SetupWhole, HandledInOrder, SetupLockoutTripwire
  <2> QED BY <2>2, <2>3, <2>4, <2>5, <2>6 DEF IInv
<1>2. CASE SetupUpdateSetupBytes
  <2>1. UNCHANGED <<pc, Data, handled>>
    BY <1>2 DEF SetupUpdateSetupBytes, driver
  <2>2. SetupTypeOK'
    BY <1>2
       DEF IInv, SetupTypeOK, States, Clearing, Words, Packets, SetupUpdateSetupBytes, driver
  <2>3. PacketStays' /\ ContextWhole'
    BY <1>2, Numbers
       DEF IInv, SetupTypeOK, Words, Packet, PacketStays, ContextWhole, Serving,
           Clearing, SetupUpdateSetupBytes
  <2>4. TripwireTells'
    BY <1>2 DEF IInv, TripwireTells, Clearing, SetupUpdateSetupBytes, driver
  <2>5. NewerThanHandled' /\ Accepted'
    BY <1>2, <2>1, Numbers
       DEF IInv, NewerThanHandled, Accepted, AllBefore, PacketStays, ContextWhole,
           Serving, Clearing, Packet, SetupUpdateSetupBytes
  <2>6. SetupWhole' /\ HandledInOrder'
    BY <1>2, <2>1, Numbers DEF IInv, SetupWhole, HandledInOrder, SetupUpdateSetupBytes
  <2> QED BY <2>2, <2>3, <2>4, <2>5, <2>6 DEF IInv
<1>3. ASSUME NEW i \in {1, 2}, SetupS2MMWord(i) PROVE IInv'
  <2>1. UNCHANGED <<pc, Data, handled>>
    BY <1>3 DEF SetupS2MMWord, driver
  <2>2. SetupTypeOK'
    BY <1>3 DEF IInv, SetupTypeOK, States, Clearing, Words, Packets, SetupS2MMWord, driver
  <2>3. PacketStays' /\ ContextWhole'
    BY <1>3, Numbers
       DEF IInv, SetupTypeOK, Words, Packet, PacketStays, ContextWhole, Serving,
           Clearing, SetupS2MMWord
  <2>4. TripwireTells'
    BY <1>3 DEF IInv, TripwireTells, Clearing, SetupS2MMWord, driver
  <2>5. NewerThanHandled' /\ Accepted'
    BY <1>3, <2>1, Numbers
       DEF IInv, NewerThanHandled, Accepted, AllBefore, PacketStays, ContextWhole,
           Serving, Clearing, Packet, SetupS2MMWord
  <2>6. SetupWhole' /\ HandledInOrder'
    BY <1>3, <2>1, Numbers DEF IInv, SetupWhole, HandledInOrder, SetupS2MMWord
  <2> QED BY <2>2, <2>3, <2>4, <2>5, <2>6 DEF IInv
<1>4. CASE SetupS2MM
  <2>1. USBSTS' \subseteq {"UI", "UR"}
    BY <1>4 DEF IInv, SetupTypeOK, SetupS2MM
  <2> QED BY <1>4, <2>1, CopiedStep DEF SetupS2MM, Elsewhere, driver
<1>5. CASE SetupUpdateReceived
  <2>1. UNCHANGED <<pc, Data, handled>>
    BY <1>5 DEF SetupUpdateReceived, driver
  <2>2. SetupTypeOK'
    BY <1>5
       DEF IInv, SetupTypeOK, States, Clearing, Words, Packets, SetupUpdateReceived, driver
  <2>3. PacketStays' /\ ContextWhole'
    BY <1>5, Numbers
       DEF IInv, SetupTypeOK, Words, Packet, PacketStays, ContextWhole, Serving,
           Clearing, SetupUpdateReceived
  <2>4. TripwireTells'
    BY <1>5 DEF IInv, TripwireTells, Clearing, SetupUpdateReceived, driver
  <2>5. NewerThanHandled' /\ Accepted'
    BY <1>5, <2>1, Numbers
       DEF IInv, NewerThanHandled, Accepted, AllBefore, PacketStays, ContextWhole,
           Serving, Clearing, Packet, SetupUpdateReceived
  <2>6. SetupWhole' /\ HandledInOrder'
    BY <1>5, <2>1, Numbers DEF IInv, SetupWhole, HandledInOrder, SetupUpdateReceived
  <2> QED BY <2>2, <2>3, <2>4, <2>5, <2>6 DEF IInv
<1>6. CASE OtherStart
  <2>1. UNCHANGED <<pc, Data, handled>>
    BY <1>6 DEF OtherStart, driver
  <2>2. SetupTypeOK'
    BY <1>6 DEF IInv, SetupTypeOK, States, Clearing, Words, Packets, OtherStart, driver
  <2>3. PacketStays' /\ ContextWhole'
    BY <1>6, Numbers
       DEF IInv, SetupTypeOK, Words, Packet, PacketStays, ContextWhole, Serving,
           Clearing, OtherStart
  <2>4. TripwireTells'
    BY <1>6 DEF IInv, TripwireTells, Clearing, OtherStart, driver
  <2>5. NewerThanHandled' /\ Accepted'
    BY <1>6, <2>1, Numbers
       DEF IInv, NewerThanHandled, Accepted, AllBefore, PacketStays, ContextWhole,
           Serving, Clearing, Packet, OtherStart
  <2>6. SetupWhole' /\ HandledInOrder'
    BY <1>6, <2>1, Numbers DEF IInv, SetupWhole, HandledInOrder, OtherStart
  <2> QED BY <2>2, <2>3, <2>4, <2>5, <2>6 DEF IInv
<1>7. CASE OtherEnd
  <2>1. USBSTS' \subseteq {"UI", "UR"}
    BY <1>7 DEF IInv, SetupTypeOK, OtherEnd
  <2> QED BY <1>7, <2>1, OtherDoneStep DEF OtherEnd, Elsewhere, driver
<1>8. CASE BusReset
  <2>1. USBSTS' \subseteq {"UI", "UR"}
    BY <1>8 DEF IInv, SetupTypeOK, BusReset
  <2> QED BY <1>8, <2>1, ResetDoneStep DEF BusReset, Elsewhere, driver
<1> QED BY <1>1, <1>2, <1>3, <1>4, <1>5, <1>6, <1>7, <1>8 DEF SetupStates

\* The parts of the invariant that speak of the manager only, and those that
\* speak of the packets handled, in a step that leaves these alone.
LEMMA HardwareStays ==
  ASSUME IInv, UNCHANGED hardware
  PROVE  PacketStays' /\ ContextWhole'
BY DEF IInv, PacketStays, ContextWhole, hardware

LEMMA HandledStays ==
  ASSUME IInv, UNCHANGED hardware, UNCHANGED handled
  PROVE  SetupWhole' /\ HandledInOrder'
BY DEF IInv, SetupWhole, HandledInOrder, hardware

\* An access of the driver.
LEMMA DriverStep ==
  ASSUME IInv, Driver
  PROVE  IInv'
<1>1. CASE IntrHandler
  <2>1. UNCHANGED hardware /\ UNCHANGED handled
    BY <1>1 DEF IntrHandler
  <2>2. SetupTypeOK'
    BY <1>1 DEF IInv, SetupTypeOK, Words, IntrHandler, Goto, hardware
  <2>3. TripwireTells'
    BY <1>1 DEF IInv, SetupTypeOK, TripwireTells, IntrHandler, Goto, hardware
  <2>4. NewerThanHandled'
    BY <1>1 DEF IInv, NewerThanHandled, AllBefore, Reading, IntrHandler, Goto, hardware
  <2>5. Accepted'
    BY <1>1 DEF IInv, Accepted, AllBefore, Passed, IntrHandler, Goto, hardware
  <2> QED BY <2>1, <2>2, <2>3, <2>4, <2>5, HardwareStays, HandledStays DEF IInv
<1>2. CASE ClearISR
  <2>1. UNCHANGED hardware /\ UNCHANGED handled
    BY <1>2 DEF ClearISR, WriteISR, Handling
  <2>2. SetupTypeOK'
    BY <1>2 DEF IInv, SetupTypeOK, Words, ClearISR, WriteISR, Handling, Goto, hardware
  <2>3. TripwireTells'
    BY <1>2 DEF IInv, SetupTypeOK, TripwireTells, ClearISR, WriteISR, Handling, Goto, hardware
  <2>4. NewerThanHandled'
    BY <1>2 DEF IInv, NewerThanHandled, AllBefore, Reading, ClearISR, WriteISR, Handling, Goto,
                hardware
  <2>5. Accepted'
    BY <1>2 DEF IInv, Accepted, AllBefore, Passed, ClearISR, WriteISR, Handling, Goto, hardware
  <2> QED BY <2>1, <2>2, <2>3, <2>4, <2>5, HardwareStays, HandledStays DEF IInv
<1>3. CASE ReadEPSTAT
  <2>1. UNCHANGED hardware /\ UNCHANGED handled
    BY <1>3 DEF ReadEPSTAT
  <2>2. SetupTypeOK'
    BY <1>3 DEF IInv, SetupTypeOK, Words, ReadEPSTAT, Goto, hardware
  <2>3. TripwireTells'
    BY <1>3 DEF IInv, SetupTypeOK, TripwireTells, ReadEPSTAT, Goto, hardware
  <2>4. NewerThanHandled'
    BY <1>3 DEF IInv, NewerThanHandled, AllBefore, Reading, ReadEPSTAT, Goto, hardware
  <2>5. Accepted'
    BY <1>3 DEF IInv, Accepted, AllBefore, Passed, ReadEPSTAT, Goto, hardware
  <2> QED BY <2>1, <2>2, <2>3, <2>4, <2>5, HardwareStays, HandledStays DEF IInv
<1>4. CASE SetSetupTripwire
  <2>1. UNCHANGED hardware /\ UNCHANGED handled
    BY <1>4 DEF SetSetupTripwire
  <2>2. SetupTypeOK'
    BY <1>4 DEF IInv, SetupTypeOK, Words, SetSetupTripwire, Goto, hardware
  <2>3. TripwireTells'
    BY <1>4 DEF IInv, SetupTypeOK, TripwireTells, SetSetupTripwire, Goto, hardware
  <2>4. NewerThanHandled'
    BY <1>4 DEF IInv, NewerThanHandled, AllBefore, Reading, SetSetupTripwire, Goto, hardware
  <2>5. Accepted'
    BY <1>4 DEF IInv, Accepted, AllBefore, Passed, SetSetupTripwire, Goto, hardware
  <2> QED BY <2>1, <2>2, <2>3, <2>4, <2>5, HardwareStays, HandledStays DEF IInv
<1>5. ASSUME NEW i \in {1, 2}, ReadSUB(i) PROVE IInv'
  <2>1. UNCHANGED hardware /\ UNCHANGED handled
    BY <1>5 DEF ReadSUB
  <2>2. SetupTypeOK'
    BY <1>5 DEF IInv, SetupTypeOK, Words, ReadSUB, Goto, hardware
  <2>3. TripwireTells'
    BY <1>5 DEF IInv, SetupTypeOK, TripwireTells, Words, ReadSUB, Goto, hardware
  <2>4. NewerThanHandled'
    BY <1>5 DEF IInv, NewerThanHandled, AllBefore, Reading, ReadSUB, Goto, hardware
  <2>5. Accepted'
    BY <1>5 DEF IInv, Accepted, AllBefore, Passed, ReadSUB, Goto, hardware
  <2> QED BY <2>1, <2>2, <2>3, <2>4, <2>5, HardwareStays, HandledStays DEF IInv
<1>6. CASE SetupTripwireIsSet
  <2>1. UNCHANGED hardware /\ UNCHANGED handled
    BY <1>6 DEF SetupTripwireIsSet
  <2>2. SetupTypeOK'
    BY <1>6 DEF IInv, SetupTypeOK, Words, SetupTripwireIsSet, Goto, hardware
  <2>3. TripwireTells'
    BY <1>6 DEF IInv, SetupTypeOK, TripwireTells, SetupTripwireIsSet, Goto, hardware
  <2>4. NewerThanHandled'
    BY <1>6
       DEF IInv, NewerThanHandled, AllBefore, Reading, SetupTripwireIsSet, Goto, hardware
  <2>5. Accepted'
    <3>1. CASE SUTW
      <4>1. Data = context
        BY <1>6, <3>1
           DEF IInv, TripwireTells, ContextWhole, SetupTripwireIsSet, Goto, Clearing
      <4>2. context = Packet(context[1]) /\ AllBefore(context[1]) /\ context[1] > 0
        BY <1>6 DEF IInv, ContextWhole, NewerThanHandled, Reading, SetupTripwireIsSet, Goto
      <4>3. state # "SETUP_S2MM"
        BY <3>1 DEF IInv, TripwireTells, Clearing
      <4> QED BY <1>6, <4>1, <4>2, <4>3, Numbers
              DEF IInv, Accepted, AllBefore, SetupTripwireIsSet, Goto, hardware
    <3>2. CASE ~SUTW
      BY <1>6, <3>2 DEF Accepted, Passed, SetupTripwireIsSet, Goto
    <3> QED BY <3>1, <3>2
  <2> QED BY <2>1, <2>2, <2>3, <2>4, <2>5, HardwareStays, HandledStays DEF IInv
<1>7. CASE ClearEPSTAT
  <2>1. UNCHANGED hardware /\ UNCHANGED handled
    BY <1>7 DEF ClearEPSTAT
  <2>2. SetupTypeOK'
    BY <1>7 DEF IInv, SetupTypeOK, Words, ClearEPSTAT, Goto, hardware
  <2>3. TripwireTells'
    BY <1>7 DEF IInv, SetupTypeOK, TripwireTells, ClearEPSTAT, Goto, hardware
  <2>4. NewerThanHandled'
    BY <1>7 DEF IInv, NewerThanHandled, AllBefore, Reading, ClearEPSTAT, Goto, hardware
  <2>5. Accepted'
    BY <1>7 DEF IInv, Accepted, AllBefore, Passed, ClearEPSTAT, Goto, hardware
  <2> QED BY <2>1, <2>2, <2>3, <2>4, <2>5, HardwareStays, HandledStays DEF IInv
<1>8. CASE ClrSetupTripwire
  <2>1. UNCHANGED hardware /\ UNCHANGED handled
    BY <1>8 DEF ClrSetupTripwire
  <2>2. SetupTypeOK'
    BY <1>8 DEF IInv, SetupTypeOK, Words, ClrSetupTripwire, Goto, hardware
  <2>3. TripwireTells'
    BY <1>8 DEF IInv, SetupTypeOK, TripwireTells, ClrSetupTripwire, Goto, hardware
  <2>4. NewerThanHandled'
    BY <1>8 DEF IInv, NewerThanHandled, AllBefore, Reading, ClrSetupTripwire, Goto, hardware
  <2>5. Accepted'
    BY <1>8 DEF IInv, Accepted, AllBefore, Passed, ClrSetupTripwire, Goto, hardware
  <2> QED BY <2>1, <2>2, <2>3, <2>4, <2>5, HardwareStays, HandledStays DEF IInv
<1>9. CASE PollEPSTAT
  <2>1. /\ UNCHANGED <<hardware, SUTW, SETUPSTAT, USBSTS, IrqSts, Data>>
        /\ pc = "poll" /\ pc' = "main"
        /\ handled' = IF SETUPSTAT THEN handled ELSE Append(handled, Data)
    BY <1>9 DEF PollEPSTAT, Goto
  <2>2. TripwireTells' /\ Accepted'
    BY <2>1 DEF IInv, TripwireTells, Accepted, Passed, hardware
  <2>3. CASE SETUPSTAT
    \* The packet is dropped.
    <3>1. SetupTypeOK' /\ NewerThanHandled'
      BY <2>1, <2>3 DEF IInv, SetupTypeOK, NewerThanHandled, AllBefore, Reading, hardware
    <3> QED BY <2>1, <2>2, <2>3, <3>1, HardwareStays, HandledStays DEF IInv
  <2>4. CASE ~SETUPSTAT
    <3>1. handled \in Seq(Words) /\ Data \in Words /\ handled' = Append(handled, Data)
      BY <2>1, <2>4 DEF IInv, SetupTypeOK
    <3>2. /\ handled' \in Seq(Words) /\ Len(handled) \in Nat
          /\ DOMAIN handled = 1 .. Len(handled) /\ DOMAIN handled' = 1 .. (Len(handled) + 1)
          /\ \A k \in 1 .. Len(handled) : handled'[k] = handled[k]
          /\ handled'[Len(handled) + 1] = Data
      BY <3>1
    <3>3. SetupTypeOK'
      BY <2>1, <3>2 DEF IInv, SetupTypeOK, hardware
    <3>4. /\ Data = Packet(Data[1]) /\ Data[1] \in 1 .. context[1] /\ AllBefore(Data[1])
          /\ state = "SETUP_S2MM" => Data[1] < context[1]
      BY <2>1 DEF IInv, Accepted, Passed
    <3>5. /\ sent \in Nat /\ context[1] \in Nat /\ context[1] <= sent
          /\ \A k \in 1 .. Len(handled) : handled[k][1] \in Nat
      BY Numbers, <3>2 DEF IInv, ContextWhole
    <3>6. /\ sent' = sent /\ context' = context /\ state' = state
      BY <2>1 DEF hardware
    \* What has been read is the packet Data[1].
    <3>7. SetupWhole'
      <4>1. Data[1] \in 1 .. sent
        BY <3>4, <3>5
      <4>2. \A k \in 1 .. Len(handled) : \E n \in 1 .. sent : handled'[k] = Packet(n)
        BY <3>2 DEF IInv, SetupWhole
      <4> QED BY <4>1, <4>2, <3>2, <3>4, <3>6 DEF SetupWhole
    \* It is older than what has been copied since, and ENDPTSETUPSTAT is clear.
    <3>8. NewerThanHandled'
      <4>1. \A k \in DOMAIN handled' : handled'[k][1] \in Nat /\ handled'[k][1] <= Data[1]
        BY <3>2, <3>4, <3>5 DEF AllBefore
      <4>2. \A k \in DOMAIN handled' : handled'[k][1] < context[1] + 1
        BY <4>1, <3>4, <3>5
      <4>3. state = "SETUP_S2MM" =>
              context[1] > 0 /\ \A k \in DOMAIN handled' : handled'[k][1] < context[1]
        BY <4>1, <3>4, <3>5
      <4> QED BY <4>2, <4>3, <3>6, <2>1, <2>4 DEF NewerThanHandled, AllBefore, Reading
    \* It is newer than every packet handled before it.
    <3>9. HandledInOrder'
      <4> SUFFICES ASSUME NEW k \in DOMAIN handled', k > 1
                   PROVE  handled'[k - 1][1] < handled'[k][1]
        BY DEF HandledInOrder
      <4>1. CASE k = Len(handled) + 1
        <5>1. k - 1 \in 1 .. Len(handled) /\ handled'[k - 1] = handled[k - 1]
          BY <4>1, <3>2
        <5> QED BY <5>1, <4>1, <3>2, <3>4 DEF AllBefore
      <4>2. CASE k \in 1 .. Len(handled)
        <5>1. k - 1 \in 1 .. Len(handled)
          BY <4>2, <3>2
        <5> QED BY <5>1, <4>2, <3>2 DEF IInv, HandledInOrder
      <4> QED BY <4>1, <4>2, <3>2
    <3> QED BY <2>1, <2>2, <3>3, <3>7, <3>8, <3>9, HardwareStays DEF IInv
  <2> QED BY <2>3, <2>4
\* Its write meets a step of the hardware in one clock.
<1>10. CASE ReportDiscarded
  <2>1. /\ Elsewhere /\ UNCHANGED <<IrqSts, Data, handled>>
        /\ USBSTS' \subseteq {"UI", "UR"}
    BY <1>10
       DEF IInv, SetupTypeOK, ReportDiscarded, WriteISR, Handling, Goto, Elsewhere,
           Reading, Passed
  <2> QED BY <1>10, <2>1, CopiedStep, OtherDoneStep, ResetDoneStep DEF ReportDiscarded
<1>11. CASE ResetReadEPSTAT
  <2>1. UNCHANGED hardware /\ UNCHANGED handled
    BY <1>11 DEF ResetReadEPSTAT
  <2>2. SetupTypeOK'
    BY <1>11 DEF IInv, SetupTypeOK, Words, ResetReadEPSTAT, Goto, hardware
  <2>3. TripwireTells'
    BY <1>11 DEF IInv, SetupTypeOK, TripwireTells, ResetReadEPSTAT, Goto, hardware
  <2>4. NewerThanHandled'
    BY <1>11 DEF IInv, NewerThanHandled, AllBefore, Reading, ResetReadEPSTAT, Goto, hardware
  <2>5. Accepted'
    BY <1>11 DEF IInv, Accepted, AllBefore, Passed, ResetReadEPSTAT, Goto, hardware
  <2> QED BY <2>1, <2>2, <2>3, <2>4, <2>5, HardwareStays, HandledStays DEF IInv
<1>12. CASE ResetWriteEPSTAT
  <2>1. UNCHANGED hardware /\ UNCHANGED handled
    BY <1>12 DEF ResetWriteEPSTAT
  <2>2. SetupTypeOK'
    BY <1>12 DEF IInv, SetupTypeOK, Words, ResetWriteEPSTAT, Goto, hardware
  <2>3. TripwireTells'
    BY <1>12 DEF IInv, SetupTypeOK, TripwireTells, ResetWriteEPSTAT, Goto, hardware
  <2>4. NewerThanHandled'
    BY <1>12 DEF IInv, NewerThanHandled, AllBefore, Reading, ResetWriteEPSTAT, Goto, hardware
  <2>5. Accepted'
    BY <1>12 DEF IInv, Accepted, AllBefore, Passed, ResetWriteEPSTAT, Goto, hardware
  <2> QED BY <2>1, <2>2, <2>3, <2>4, <2>5, HardwareStays, HandledStays DEF IInv
<1>13. CASE BitDiscarded
  <2>1. /\ Elsewhere /\ UNCHANGED <<SETUPSTAT, IrqSts, Data, handled>>
        /\ USBSTS' \subseteq {"UI", "UR"}
    BY <1>13 DEF IInv, SetupTypeOK, BitDiscarded, Goto, Elsewhere, Reading, Passed
  <2> QED BY <1>13, <2>1, CopiedStep DEF BitDiscarded
<1> QED BY <1>1, <1>2, <1>3, <1>4, <1>5, <1>6, <1>7, <1>8, <1>9, <1>10, <1>11, <1>12, <1>13
        DEF Driver

\* The invariant is inductive if packets are spaced.
LEMMA InvStep == Spaced /\ IInv /\ [Next]_vars => IInv'
<1> SUFFICES ASSUME Spaced, IInv, [Next]_vars PROVE IInv'
  OBVIOUS
<1>1. CASE UNCHANGED vars
  BY <1>1
     DEF IInv, AllBefore, SetupTypeOK, PacketStays, ContextWhole, TripwireTells,
         NewerThanHandled, Accepted, SetupWhole, HandledInOrder, vars, hardware, driver
<1> QED BY <1>1, ReceivePathStep, ManagerStep, DriverStep DEF Next

\* XUsbPs_EpGetSetupData never returns the words of two packets, for any
\* number of packets and of other requests.
THEOREM WholeSetup == ASSUME Spaced PROVE Spec => []SetupWhole
<1>1. IInv => SetupWhole
  BY DEF IInv
<1> QED BY <1>1, InvInit, InvStep, PTL DEF Spec

\* No packet is given to XUsbPs_Ch9HandleSetupPacket twice, or after a later one.
THEOREM SetupInOrder == ASSUME Spaced PROVE Spec => []HandledInOrder
<1>1. IInv => HandledInOrder
  BY DEF IInv
<1> QED BY <1>1, InvInit, InvStep, PTL DEF Spec
=============================================================================
