-------------------------- MODULE VideoCapture_proof --------------------------
(***************************************************************************)
(* The safety properties of VideoCapture, for any number of frames and any *)
(* resolutions: whatever calls the menu makes, and wherever in them the    *)
(* two interrupts come.                                                    *)
(***************************************************************************)
EXTENDS VideoCapture, SequenceTheorems, TLAPS

\* What main holds between a load and a store.
Regs == [ptr : ParkPtrs, cr : [run : BOOLEAN, park : BOOLEAN], size : Sizes]

\* The calls of main by name, and the steps of each.
Calls == [VideoStop |-> VideoStop, VideoStart |-> VideoStart,
          VideoChangeFrame |-> VideoChangeFrame, DisplayStart |-> DisplayStart,
          DisplayChangeFrame |-> DisplayChangeFrame, DemoChangeRes |-> <<"DemoChangeRes">>,
          Copy |-> <<"Copy">>, LoopHead |-> LoopHead]
Names == {"VideoStop", "VideoStart", "VideoChangeFrame", "DisplayStart",
          "DisplayChangeFrame", "DemoChangeRes", "Copy", "LoopHead"}

\* What main has still to call when it is in a call, and the call that follows.
After(k) ==
    CASE k = "LoopHead"      -> {<<>>}
      [] k = "DemoChangeRes" -> {<<Calls["DisplayStart"], Calls["LoopHead"]>>}
      [] k = "Copy"          -> {<<Calls["VideoStart"], Calls["DisplayChangeFrame"],
                                   Calls["LoopHead"]>>}
      [] k = "VideoStop"     -> {<<Calls["LoopHead"]>>,
                                 <<Calls["Copy"], Calls["VideoStart"],
                                   Calls["DisplayChangeFrame"], Calls["LoopHead"]>>}
      [] k = "VideoStart"    -> {<<Calls["LoopHead"]>>,
                                 <<Calls["DisplayChangeFrame"], Calls["LoopHead"]>>}
      [] OTHER               -> {<<Calls["LoopHead"]>>}
Following(k) ==
    CASE k = "LoopHead"      -> {"Waiting"}
      [] k = "DemoChangeRes" -> {"DisplayStart"}
      [] k = "Copy"          -> {"VideoStart"}
      [] k = "VideoStop"     -> {"LoopHead", "Copy"}
      [] k = "VideoStart"    -> {"LoopHead", "DisplayChangeFrame"}
      [] OTHER               -> {"LoopHead"}

\* Where main is: at step i of the call k, or waiting for a key.
Place(k, i) ==
    IF k = "Waiting" THEN code = <<>>
    ELSE /\ k \in Names /\ i \in 1 .. Len(Calls[k])
         /\ code # <<>> /\ Head(code) = SubSeq(Calls[k], i, Len(Calls[k]))
         /\ Tail(code) \in After(k)

\* What the display shows is what its driver says, but for what the step is
\* about to bring about; the other direction's bits of PARKPTR are not stale.
DisplayAt(k, i) ==
    /\ disp.state = IF k = "DisplayStart" THEN "STOPPED" ELSE "RUNNING"
    /\ ~(k = "DisplayStart" /\ i = 1) => rd.run /\ rd.size = disp.vMode
    /\ ~(k = "DisplayStart" /\ i < 5) => rd.park
    /\ ~(k = "DisplayChangeFrame" /\ i \in {2, 3}) => parkptr.read = disp.curFrame
    /\ (k = "VideoStart" /\ i = 16) \/ (k = "VideoChangeFrame" /\ i = 4) =>
            reg.ptr.read = parkptr.read

\* Once the signal has settled no handler changes the channel any more: it is parked,
\* as VtcIsr left it, but for what a call of main has begun; and the check that
\* StartParking makes does not fail, for VideoStart has seen the channel run.
StreamAt(k, i) ==
    Settled =>
        /\ capt.state # "DISCONNECTED" /\ capt.timing = mode
        /\ ~(k = "VideoStop" /\ i = 3) /\ ~(k = "VideoStart" /\ i >= 9) =>
                (capt.state = "STREAMING" => wr.park)
        /\ k = "VideoStart" /\ i \in 12 .. 19 => wr.run
        /\ k = "VideoStart" /\ i = 20 => wr.park

\* The menu is only out of date while its printing is due, and DISCONNECTED reached in the
\* middle of the printing makes it due again.
MenuAt(k, i) ==
    /\ k = "Waiting" => fRefresh \/ shown = InputLine
    /\ k = "LoopHead" /\ i = 3 => fRefresh \/ capt.state # "DISCONNECTED"

Good(k, i) == Place(k, i) /\ DisplayAt(k, i) /\ StreamAt(k, i) /\ MenuAt(k, i)
PlaceInv == \E k \in Names \cup {"Waiting"}, i \in 1 .. 20 : Good(k, i)

\* What a reachable state satisfies: the strengthening that is inductive.
IInv == VideoTypeOK /\ PlaceInv
-----------------------------------------------------------------------------
(* Sequences.                                                              *)

\* One sequence before another.
Joins(S, s, a, b) ==
    /\ s \in Seq(S) /\ Len(s) = Len(a) + Len(b)
    /\ \A i \in 1 .. Len(a) + Len(b) : s[i] = IF i <= Len(a) THEN a[i] ELSE b[i - Len(a)]

LEMMA Joined ==
  ASSUME NEW S, NEW a \in Seq(S), NEW b \in Seq(S), NEW s, s = a \o b
  PROVE  Joins(S, s, a, b)
BY ConcatProperties, Zenon DEF Joins

\* A sequence that begins with a sequence of one element.
LEMMA Before ==
  ASSUME NEW S, NEW u \in Seq(S), Len(u) = 1, NEW t \in Seq(S), NEW s, s = u \o t
  PROVE  s \in Seq(S) /\ s # <<>> /\ Head(s) = u[1] /\ Tail(s) = t
<1>1. /\ s \in Seq(S) /\ Len(s) = Len(u) + Len(t)
      /\ \A i \in 1 .. Len(u) + Len(t) : s[i] = IF i <= Len(u) THEN u[i] ELSE t[i - Len(u)]
  BY ConcatProperties, Zenon
<1>4. /\ s \in Seq(S) /\ Len(s) = 1 + Len(t)
      /\ \A i \in 1 .. 1 + Len(t) : s[i] = IF i <= 1 THEN u[i] ELSE t[i - 1]
  BY <1>1
<1>5. s # <<>> /\ s[1] = u[1]
  BY <1>4
<1>6. Len(Tail(s)) = Len(t) /\ Tail(s) \in Seq(S)
  BY <1>4, <1>5
<1>7. \A i \in 1 .. Len(t) : Tail(s)[i] = t[i]
  BY <1>4, <1>5
<1> QED BY <1>4, <1>5, <1>6, <1>7

\* A sequence by its first element and the rest.
Begun(S, s, a, t) == s \in Seq(S) /\ s # <<>> /\ Head(s) = a /\ Tail(s) = t

\* Proceed puts what is left of a call before the calls that follow.
LEMMA Proceeding ==
  ASSUME NEW S, NEW a \in S, NEW t \in Seq(S), NEW s, s = <<a>> \o t
  PROVE  Begun(S, s, a, t)
<1> DEFINE u == <<a>>
<1>1. u \in Seq(S) /\ Len(u) = 1 /\ u[1] = a
  OBVIOUS
<1>2. s = u \o t
  OBVIOUS
<1> HIDE DEF u
<1> QED BY <1>1, <1>2, Before DEF Begun

\* What is left of a call at its step i.
Leaves(S, s, c, i) ==
    /\ s \in Seq(S) /\ s # <<>> /\ Head(s) = c[i]
    /\ Len(s) = 1 <=> i = Len(c)
    /\ i < Len(c) => Tail(s) = SubSeq(c, i + 1, Len(c))

LEMMA Suffix ==
  ASSUME NEW S, NEW c \in Seq(S), NEW i \in 1 .. Len(c), NEW s, s = SubSeq(c, i, Len(c))
  PROVE  Leaves(S, s, c, i)
<1>1. s \in Seq(S) /\ Len(s) = Len(c) - i + 1
  OBVIOUS
<1>2. Head(s) = c[i] /\ Tail(s) = SubSeq(c, i + 1, Len(c))
  BY HeadTailOfSubSeq
<1>4. s # <<>>
  <2>1. \A x \in Seq(S) : Len(x) # 0 => x # <<>>
    OBVIOUS
  <2>2. Len(s) # 0
    BY <1>1
  <2> QED BY <1>1, <2>1, <2>2, Zenon
<1> QED BY <1>1, <1>2, <1>4 DEF Leaves

\* Three more steps of what is left of a call.
LEMMA Dropped ==
  ASSUME NEW S, NEW c \in Seq(S), NEW i \in 1 .. Len(c), i + 3 <= Len(c),
         NEW h, h = SubSeq(c, i, Len(c))
  PROVE  SubSeq(h, 4, Len(h)) = SubSeq(c, i + 3, Len(c))
<1> DEFINE m == Len(c)
           s == SubSeq(h, 4, Len(h))
           t == SubSeq(c, i + 3, m)
<1>1. m \in Nat /\ i \in 1 .. m /\ i + 3 <= m
  OBVIOUS
<1>2. h \in Seq(S) /\ Len(h) = m - i + 1 /\ \A j \in 1 .. m - i + 1 : h[j] = c[i + j - 1]
  OBVIOUS
<1>3. t \in Seq(S) /\ Len(t) = m - i - 2 /\ \A j \in 1 .. m - i - 2 : t[j] = c[i + j + 2]
  OBVIOUS
<1>4. s \in Seq(S) /\ Len(s) = m - i - 2 /\ \A j \in 1 .. m - i - 2 : s[j] = h[j + 3]
  <2> HIDE DEF m
  <2> QED BY <1>1, <1>2
<1> HIDE DEF m, s, t
<1>5. \A j \in 1 .. m - i - 2 : s[j] = t[j]
  BY <1>1, <1>2, <1>3, <1>4
<1>6. s = t
  BY <1>3, <1>4, <1>5
<1> QED BY <1>6 DEF s, t, m

-----------------------------------------------------------------------------
(* The steps of the calls, in order.                                       *)

\* StartParking is part of four calls.
LEMMA Parking ==
  /\ ParkWrite \in Seq(StepNames) /\ Len(ParkWrite) = 5
  /\ ParkWrite[1] = "ReadParkPtr" /\ ParkWrite[2] = "WriteWriteRef"
  /\ ParkWrite[3] = "CheckRunning" /\ ParkWrite[4] = "ReadParkCR"
  /\ ParkWrite[5] = "WriteParkCR"
  /\ ParkRead \in Seq(StepNames) /\ Len(ParkRead) = 3
  /\ ParkRead[1] = "ReadParkPtr" /\ ParkRead[2] = "WriteReadRef"
  /\ ParkRead[3] = "ParkReadChannel"
BY DEF ParkWrite, ParkRead, StepNames

\* VideoStop, and the head of the loop.
LEMMA ShortCalls ==
  /\ VideoStop \in Seq(StepNames) /\ Len(VideoStop) = 3
  /\ VideoStop[1] = "StopCheck" /\ VideoStop[2] = "StopReset" /\ VideoStop[3] = "StopDone"
  /\ LoopHead \in Seq(StepNames) /\ Len(LoopHead) = 3
  /\ LoopHead[1] = "ClearRefresh" /\ LoopHead[2] = "PrintState"
  /\ LoopHead[3] = "PrintTiming"
BY DEF VideoStop, LoopHead, StepNames

\* VideoStart, StartParking of the input in it.
LEMMA VideoStartSteps ==
  /\ VideoStart \in Seq(StepNames) /\ Len(VideoStart) = 20
  /\ VideoStart[1] = "StartConnected" /\ VideoStart[2] = "StartIdle"
  /\ VideoStart[3] = "ReadTiming" /\ VideoStart[4] = "WriteRequest"
  /\ VideoStart[5] = "ReadRequest" /\ VideoStart[6] = "WriteChannel"
  /\ VideoStart[7] = "ReadConfigCR" /\ VideoStart[8] = "WriteConfigCR"
  /\ VideoStart[9] = "CheckHalted" /\ VideoStart[10] = "ReadStartCR"
  /\ VideoStart[11] = "WriteStartCR" /\ VideoStart[12] = "CheckStarted"
  /\ VideoStart[13] = "ReadVSize" /\ VideoStart[14] = "WriteVSize"
  /\ VideoStart[15] = "ReadParkPtr" /\ VideoStart[16] = "WriteWriteRef"
  /\ VideoStart[17] = "CheckRunning" /\ VideoStart[18] = "ReadParkCR"
  /\ VideoStart[19] = "WriteParkCR" /\ VideoStart[20] = "StartDone"
<1> DEFINE a == <<"StartConnected", "StartIdle", "ReadTiming", "WriteRequest", "ReadRequest",
                  "WriteChannel", "ReadConfigCR", "WriteConfigCR", "CheckHalted", "ReadStartCR",
                  "WriteStartCR", "CheckStarted", "ReadVSize", "WriteVSize">>
           c == <<"StartDone">>
           ab == a \o ParkWrite
<1>1. /\ a \in Seq(StepNames) /\ Len(a) = 14 /\ c \in Seq(StepNames) /\ Len(c) = 1
      /\ a[1] = "StartConnected" /\ a[2] = "StartIdle"
      /\ a[3] = "ReadTiming" /\ a[4] = "WriteRequest"
      /\ a[5] = "ReadRequest" /\ a[6] = "WriteChannel"
      /\ a[7] = "ReadConfigCR" /\ a[8] = "WriteConfigCR"
      /\ a[9] = "CheckHalted" /\ a[10] = "ReadStartCR"
      /\ a[11] = "WriteStartCR" /\ a[12] = "CheckStarted"
      /\ a[13] = "ReadVSize" /\ a[14] = "WriteVSize"
      /\ c[1] = "StartDone"
  BY DEF StepNames
<1>2. VideoStart = ab \o c
  BY Zenon DEF VideoStart
<1> HIDE DEF a, c
<1>3. ab = a \o ParkWrite
  OBVIOUS
<1> HIDE DEF ab
<1>4. /\ ab \in Seq(StepNames) /\ Len(ab) = 19
      /\ \A i \in 1 .. 19 : ab[i] = IF i <= 14 THEN a[i] ELSE ParkWrite[i - 14]
  <2>1. Joins(StepNames, ab, a, ParkWrite)
    BY <1>1, <1>3, Parking, Joined, Zenon
  <2> QED BY <2>1, <1>1, Parking DEF Joins
<1>5. /\ VideoStart \in Seq(StepNames) /\ Len(VideoStart) = 20
      /\ \A i \in 1 .. 20 : VideoStart[i] = IF i <= 19 THEN ab[i] ELSE c[i - 19]
  <2>1. Joins(StepNames, VideoStart, ab, c)
    BY <1>1, <1>2, <1>4, Joined, Zenon
  <2> QED BY <2>1, <1>1, <1>4 DEF Joins
<1> QED BY <1>1, <1>4, <1>5, Parking

\* VideoChangeFrame, StartParking of the input at its end.
LEMMA VideoChangeFrameSteps ==
  /\ VideoChangeFrame \in Seq(StepNames) /\ Len(VideoChangeFrame) = 7
  /\ VideoChangeFrame[1] = "SetVideoFrame" /\ VideoChangeFrame[2] = "ChangeCheck"
  /\ VideoChangeFrame[3] = "ReadParkPtr" /\ VideoChangeFrame[4] = "WriteWriteRef"
  /\ VideoChangeFrame[5] = "CheckRunning" /\ VideoChangeFrame[6] = "ReadParkCR"
  /\ VideoChangeFrame[7] = "WriteParkCR"
<1> DEFINE a == <<"SetVideoFrame", "ChangeCheck">>
<1>1. a \in Seq(StepNames) /\ Len(a) = 2 /\ a[1] = "SetVideoFrame" /\ a[2] = "ChangeCheck"
  BY DEF StepNames
<1>2. VideoChangeFrame = a \o ParkWrite
  BY Zenon DEF VideoChangeFrame
<1> HIDE DEF a
<1>3. /\ VideoChangeFrame \in Seq(StepNames) /\ Len(VideoChangeFrame) = 7
      /\ \A i \in 1 .. 7 : VideoChangeFrame[i] = IF i <= 2 THEN a[i] ELSE ParkWrite[i - 2]
  <2>1. Joins(StepNames, VideoChangeFrame, a, ParkWrite)
    BY <1>1, <1>2, Parking, Joined, Zenon
  <2> QED BY <2>1, <1>1, Parking DEF Joins
<1> QED BY <1>1, <1>3, Parking

\* DisplayStart, StartParking of the display in it.
LEMMA DisplayStartSteps ==
  /\ DisplayStart \in Seq(StepNames) /\ Len(DisplayStart) = 5
  /\ DisplayStart[1] = "DisplayCheck" /\ DisplayStart[2] = "ReadParkPtr"
  /\ DisplayStart[3] = "WriteReadRef" /\ DisplayStart[4] = "ParkReadChannel"
  /\ DisplayStart[5] = "DisplayDone"
<1> DEFINE a == <<"DisplayCheck">>
           c == <<"DisplayDone">>
           ab == a \o ParkRead
<1>1. /\ a \in Seq(StepNames) /\ Len(a) = 1 /\ a[1] = "DisplayCheck"
      /\ c \in Seq(StepNames) /\ Len(c) = 1 /\ c[1] = "DisplayDone"
  BY DEF StepNames
<1>2. DisplayStart = ab \o c
  BY Zenon DEF DisplayStart
<1> HIDE DEF a, c
<1>3. ab = a \o ParkRead
  OBVIOUS
<1> HIDE DEF ab
<1>4. /\ ab \in Seq(StepNames) /\ Len(ab) = 4
      /\ \A i \in 1 .. 4 : ab[i] = IF i <= 1 THEN a[i] ELSE ParkRead[i - 1]
  <2>1. Joins(StepNames, ab, a, ParkRead)
    BY <1>1, <1>3, Parking, Joined, Zenon
  <2> QED BY <2>1, <1>1, Parking DEF Joins
<1>5. /\ DisplayStart \in Seq(StepNames) /\ Len(DisplayStart) = 5
      /\ \A i \in 1 .. 5 : DisplayStart[i] = IF i <= 4 THEN ab[i] ELSE c[i - 4]
  <2>1. Joins(StepNames, DisplayStart, ab, c)
    BY <1>1, <1>2, <1>4, Joined, Zenon
  <2> QED BY <2>1, <1>1, <1>4 DEF Joins
<1> QED BY <1>1, <1>4, <1>5, Parking

\* DisplayChangeFrame, StartParking of the display at its end.
LEMMA DisplayChangeFrameSteps ==
  /\ DisplayChangeFrame \in Seq(StepNames) /\ Len(DisplayChangeFrame) = 4
  /\ DisplayChangeFrame[1] = "SetDisplayFrame" /\ DisplayChangeFrame[2] = "ReadParkPtr"
  /\ DisplayChangeFrame[3] = "WriteReadRef" /\ DisplayChangeFrame[4] = "ParkReadChannel"
<1> DEFINE a == <<"SetDisplayFrame">>
<1>1. a \in Seq(StepNames) /\ Len(a) = 1 /\ a[1] = "SetDisplayFrame"
  BY DEF StepNames
<1>2. DisplayChangeFrame = a \o ParkRead
  BY Zenon DEF DisplayChangeFrame
<1> HIDE DEF a
<1>3. /\ DisplayChangeFrame \in Seq(StepNames) /\ Len(DisplayChangeFrame) = 4
      /\ \A i \in 1 .. 4 : DisplayChangeFrame[i] = IF i <= 1 THEN a[i] ELSE ParkRead[i - 1]
  <2>1. Joins(StepNames, DisplayChangeFrame, a, ParkRead)
    BY <1>1, <1>2, Parking, Joined, Zenon
  <2> QED BY <2>1, <1>1, Parking DEF Joins
<1> QED BY <1>1, <1>3, Parking

\* The calls by name.
LEMMA CallsByName ==
  /\ Calls["VideoStop"] = VideoStop /\ Calls["VideoStart"] = VideoStart
  /\ Calls["VideoChangeFrame"] = VideoChangeFrame /\ Calls["DisplayStart"] = DisplayStart
  /\ Calls["DisplayChangeFrame"] = DisplayChangeFrame /\ Calls["LoopHead"] = LoopHead
  /\ Calls["DemoChangeRes"] = <<"DemoChangeRes">> /\ Calls["Copy"] = <<"Copy">>
BY DEF Calls

\* The calls of one step.
LEMMA SingleSteps ==
  ASSUME NEW k \in {"DemoChangeRes", "Copy"}
  PROVE  Calls[k] \in Seq(StepNames) /\ Len(Calls[k]) = 1 /\ Calls[k][1] = k
<1>1. Calls[k] = <<k>>
  BY CallsByName
<1>2. k \in StepNames
  BY DEF StepNames
<1> QED BY <1>1, <1>2

\* Every call has from one to twenty steps.
LEMMA CallsType ==
  ASSUME NEW k \in Names
  PROVE  Calls[k] \in Seq(StepNames) /\ Len(Calls[k]) \in 1 .. 20
<1>1. CASE k \in {"DemoChangeRes", "Copy"}
  BY <1>1, SingleSteps
<1>3. CASE k \in {"VideoStop", "LoopHead"}
  BY <1>3, CallsByName, ShortCalls
<1>4. CASE k \in {"VideoStart", "VideoChangeFrame"}
  BY <1>4, CallsByName, VideoStartSteps, VideoChangeFrameSteps
<1>5. CASE k \in {"DisplayStart", "DisplayChangeFrame"}
  BY <1>5, CallsByName, DisplayStartSteps, DisplayChangeFrameSteps
<1> QED BY <1>1, <1>3, <1>4, <1>5 DEF Names

\* At which steps of which calls a step is taken.
StepAt(k, i) ==
  LET c == Calls[k][i]
  IN  /\ c = "StopCheck" => k = "VideoStop" /\ i = 1
      /\ c = "StopReset" => k = "VideoStop" /\ i = 2
      /\ c = "StopDone" => k = "VideoStop" /\ i = 3
      /\ c = "StartConnected" => k = "VideoStart" /\ i = 1
      /\ c = "StartIdle" => k = "VideoStart" /\ i = 2
      /\ c = "ReadTiming" => k = "VideoStart" /\ i = 3
      /\ c = "WriteRequest" => k = "VideoStart" /\ i = 4
      /\ c = "ReadRequest" => k = "VideoStart" /\ i = 5
      /\ c = "WriteChannel" => k = "VideoStart" /\ i = 6
      /\ c = "ReadConfigCR" => k = "VideoStart" /\ i = 7
      /\ c = "WriteConfigCR" => k = "VideoStart" /\ i = 8
      /\ c = "CheckHalted" => k = "VideoStart" /\ i = 9
      /\ c = "ReadStartCR" => k = "VideoStart" /\ i = 10
      /\ c = "WriteStartCR" => k = "VideoStart" /\ i = 11
      /\ c = "CheckStarted" => k = "VideoStart" /\ i = 12
      /\ c = "ReadVSize" => k = "VideoStart" /\ i = 13
      /\ c = "WriteVSize" => k = "VideoStart" /\ i = 14
      /\ c = "ReadParkPtr" => \/ k = "VideoStart" /\ i = 15
                              \/ k = "VideoChangeFrame" /\ i = 3
                              \/ k \in {"DisplayStart", "DisplayChangeFrame"} /\ i = 2
      /\ c = "WriteWriteRef" => \/ k = "VideoStart" /\ i = 16
                                \/ k = "VideoChangeFrame" /\ i = 4
      /\ c = "CheckRunning" => \/ k = "VideoStart" /\ i = 17
                               \/ k = "VideoChangeFrame" /\ i = 5
      /\ c = "ReadParkCR" => \/ k = "VideoStart" /\ i = 18
                             \/ k = "VideoChangeFrame" /\ i = 6
      /\ c = "WriteParkCR" => \/ k = "VideoStart" /\ i = 19
                              \/ k = "VideoChangeFrame" /\ i = 7
      /\ c = "StartDone" => k = "VideoStart" /\ i = 20
      /\ c = "SetVideoFrame" => k = "VideoChangeFrame" /\ i = 1
      /\ c = "ChangeCheck" => k = "VideoChangeFrame" /\ i = 2
      /\ c = "Copy" => k = "Copy" /\ i = 1
      /\ c = "DemoChangeRes" => k = "DemoChangeRes" /\ i = 1
      /\ c = "DisplayCheck" => k = "DisplayStart" /\ i = 1
      /\ c = "WriteReadRef" => k \in {"DisplayStart", "DisplayChangeFrame"} /\ i = 3
      /\ c = "ParkReadChannel" => k \in {"DisplayStart", "DisplayChangeFrame"} /\ i = 4
      /\ c = "DisplayDone" => k = "DisplayStart" /\ i = 5
      /\ c = "SetDisplayFrame" => k = "DisplayChangeFrame" /\ i = 1
      /\ c = "ClearRefresh" => k = "LoopHead" /\ i = 1
      /\ c = "PrintState" => k = "LoopHead" /\ i = 2
      /\ c = "PrintTiming" => k = "LoopHead" /\ i = 3

\* The steps say where main is in its call.
LEMMA StepPlaces ==
  ASSUME NEW k \in Names, NEW i \in 1 .. Len(Calls[k])
  PROVE  StepAt(k, i)
<1>1. CASE k = "VideoStop"
  <2>1. i \in 1 .. 3
    BY <1>1, CallsByName, ShortCalls
  <2> QED BY <1>1, <2>1, CallsByName, ShortCalls DEF StepAt
<1>2. CASE k = "VideoStart"
  <2>1. i \in 1 .. 20
    BY <1>2, CallsByName, VideoStartSteps
  <2>2. Calls[k] = VideoStart
    BY <1>2, CallsByName
  <2>3. CASE i \in 1 .. 7
    BY <1>2, <2>2, <2>3, VideoStartSteps DEF StepAt
  <2>4. CASE i \in 8 .. 14
    BY <1>2, <2>2, <2>4, VideoStartSteps DEF StepAt
  <2>5. CASE i \in 15 .. 17
    BY <1>2, <2>2, <2>5, VideoStartSteps DEF StepAt
  <2>6. CASE i \in 18 .. 20
    BY <1>2, <2>2, <2>6, VideoStartSteps DEF StepAt
  <2>7. \/ i \in 1 .. 7 \/ i \in 8 .. 14
        \/ i \in 15 .. 17 \/ i \in 18 .. 20
    BY <2>1
  <2> QED BY <2>3, <2>4, <2>5, <2>6, <2>7, Zenon
<1>3. CASE k = "VideoChangeFrame"
  <2>1. i \in 1 .. 7
    BY <1>3, CallsByName, VideoChangeFrameSteps
  <2> QED BY <1>3, <2>1, CallsByName, VideoChangeFrameSteps DEF StepAt
<1>4. CASE k = "DisplayStart"
  <2>1. i \in 1 .. 5
    BY <1>4, CallsByName, DisplayStartSteps
  <2> QED BY <1>4, <2>1, CallsByName, DisplayStartSteps DEF StepAt
<1>5. CASE k = "DisplayChangeFrame"
  <2>1. i \in 1 .. 4
    BY <1>5, CallsByName, DisplayChangeFrameSteps
  <2> QED BY <1>5, <2>1, CallsByName, DisplayChangeFrameSteps DEF StepAt
<1>6. CASE k = "LoopHead"
  <2>1. i \in 1 .. 3
    BY <1>6, CallsByName, ShortCalls
  <2> QED BY <1>6, <2>1, CallsByName, ShortCalls DEF StepAt
<1>7. CASE k \in {"DemoChangeRes", "Copy"}
  BY <1>7, SingleSteps DEF StepAt
<1> QED BY <1>1, <1>2, <1>3, <1>4, <1>5, <1>6, <1>7 DEF Names

-----------------------------------------------------------------------------
(* Where main goes.                                                        *)

\* A list of calls that is left begins with the call that follows.
LEMMA Follows ==
  ASSUME NEW k \in Names, NEW t \in After(k)
  PROVE  \E n \in Following(k) :
            IF n = "Waiting" THEN t = <<>>
            ELSE /\ n \in Names /\ t # <<>> /\ Head(t) = Calls[n] /\ Tail(t) \in After(n)
<1>1. CASE k = "LoopHead"
  BY <1>1 DEF After, Following
<1>2. CASE k = "DemoChangeRes"
  <2>1. t = <<Calls["DisplayStart"], Calls["LoopHead"]>>
    BY <1>2 DEF After
  <2>2. "DisplayStart" \in Following(k) /\ After("DisplayStart") = {<<Calls["LoopHead"]>>}
    BY <1>2 DEF Following, After
  <2>3. t # <<>> /\ Head(t) = Calls["DisplayStart"] /\ Tail(t) = <<Calls["LoopHead"]>>
    BY <2>1
  <2> QED BY <2>2, <2>3 DEF Names
<1>3. CASE k = "Copy"
  <2>1. t = <<Calls["VideoStart"], Calls["DisplayChangeFrame"], Calls["LoopHead"]>>
    BY <1>3 DEF After
  <2>2. /\ "VideoStart" \in Following(k)
        /\ <<Calls["DisplayChangeFrame"], Calls["LoopHead"]>> \in After("VideoStart")
    BY <1>3 DEF Following, After
  <2>3. /\ t # <<>> /\ Head(t) = Calls["VideoStart"]
        /\ Tail(t) = <<Calls["DisplayChangeFrame"], Calls["LoopHead"]>>
    BY <2>1
  <2> QED BY <2>2, <2>3 DEF Names
<1>4. ASSUME t = <<Calls["LoopHead"]>>, "LoopHead" \in Following(k)
      PROVE  \E n \in Following(k) :
                /\ n # "Waiting" /\ n \in Names /\ t # <<>>
                /\ Head(t) = Calls[n] /\ Tail(t) \in After(n)
  <2>1. t # <<>> /\ Head(t) = Calls["LoopHead"] /\ Tail(t) = <<>>
    BY <1>4
  <2>2. After("LoopHead") = {<<>>}
    BY DEF After
  <2> QED BY <1>4, <2>1, <2>2 DEF Names
<1>5. CASE k = "VideoStop" /\ t # <<Calls["LoopHead"]>>
  <2>1. t = <<Calls["Copy"], Calls["VideoStart"], Calls["DisplayChangeFrame"],
              Calls["LoopHead"]>>
    BY <1>5 DEF After
  <2>2. /\ "Copy" \in Following(k)
        /\ After("Copy") = {<<Calls["VideoStart"], Calls["DisplayChangeFrame"],
                              Calls["LoopHead"]>>}
    BY <1>5 DEF Following, After
  <2>3. /\ t # <<>> /\ Head(t) = Calls["Copy"]
        /\ Tail(t) = <<Calls["VideoStart"], Calls["DisplayChangeFrame"], Calls["LoopHead"]>>
    BY <2>1
  <2> QED BY <2>2, <2>3 DEF Names
<1>6. CASE k = "VideoStart" /\ t # <<Calls["LoopHead"]>>
  <2>1. t = <<Calls["DisplayChangeFrame"], Calls["LoopHead"]>>
    BY <1>6 DEF After
  <2>2. /\ "DisplayChangeFrame" \in Following(k)
        /\ After("DisplayChangeFrame") = {<<Calls["LoopHead"]>>}
    BY <1>6 DEF Following, After
  <2>3. /\ t # <<>> /\ Head(t) = Calls["DisplayChangeFrame"]
        /\ Tail(t) = <<Calls["LoopHead"]>>
    BY <2>1
  <2> QED BY <2>2, <2>3 DEF Names
<1>7. CASE k \in {"VideoStop", "VideoStart"} /\ t = <<Calls["LoopHead"]>>
  BY <1>4, <1>7 DEF Following
<1>8. CASE k \in {"VideoChangeFrame", "DisplayStart", "DisplayChangeFrame"}
  <2>1. t = <<Calls["LoopHead"]>> /\ "LoopHead" \in Following(k)
    BY <1>8 DEF After, Following
  <2> QED BY <1>4, <2>1
<1> QED BY <1>1, <1>2, <1>3, <1>5, <1>6, <1>7, <1>8 DEF Names

\* A step of a call leads to the next one, or out of the call.
LEMMA Moves ==
  ASSUME code \in Seq(Seq(StepNames)), NEW k \in Names, NEW i, Place(k, i)
  PROVE  /\ code # <<>> /\ Head(Head(code)) = Calls[k][i]
         /\ i \in 1 .. Len(Calls[k]) /\ StepAt(k, i)
         /\ Proceed /\ i < Len(Calls[k]) => Place(k, i + 1)'
         /\ Proceed /\ i = Len(Calls[k]) => Return
         /\ Return => \E n \in Following(k) : Place(n, 1)'
         /\ Skip(3) /\ i + 3 <= Len(Calls[k]) => Place(k, i + 3)'
         /\ Proceed \/ Return => code' \in Seq(Seq(StepNames))
         /\ Skip(3) /\ i + 3 <= Len(Calls[k]) => code' \in Seq(Seq(StepNames))
<1> DEFINE c == Calls[k]
           h == SubSeq(c, i, Len(c))
<1>1. /\ i \in 1 .. Len(c) /\ code # <<>> /\ Head(code) = h /\ Tail(code) \in After(k)
  BY DEF Place, Names
<1>2. c \in Seq(StepNames) /\ Len(c) \in 1 .. 20 /\ StepAt(k, i)
  BY <1>1, CallsType, StepPlaces
<1>3. /\ h \in Seq(StepNames) /\ h # <<>> /\ Head(h) = c[i] /\ (Len(h) = 1 <=> i = Len(c))
      /\ i < Len(c) => Tail(h) = SubSeq(c, i + 1, Len(c))
  <2>1. h = SubSeq(c, i, Len(c)) /\ i \in 1 .. Len(c) /\ c \in Seq(StepNames)
    BY <1>1, <1>2
  <2> HIDE DEF c, h
  <2>2. Leaves(StepNames, h, c, i)
    BY <2>1, Suffix, Zenon
  <2> QED BY <2>2 DEF Leaves
<1>4. Tail(code) \in Seq(Seq(StepNames))
  BY <1>1
<1> HIDE DEF c, h
<1>5. Tail(h) \in Seq(StepNames)
  BY <1>3
<1>6. ASSUME Proceed, i < Len(c)
      PROVE  Place(k, i + 1)' /\ code' \in Seq(Seq(StepNames))
  <2>1. code' = <<Tail(h)>> \o Tail(code)
    <3>1. Len(Head(code)) # 1 /\ Head(code) = h
      BY <1>1, <1>2, <1>3, <1>6
    <3> QED BY <3>1, <1>6, Zenon DEF Proceed
  <2>2. code' \in Seq(Seq(StepNames)) /\ code' # <<>> /\ Head(code') = Tail(h)
        /\ Tail(code') = Tail(code)
    <3> DEFINE S == Seq(StepNames)
               t == Tail(code)
               u == Tail(h)
               s == code'
    <3>1. u \in S /\ t \in Seq(S) /\ s = <<u>> \o t
      BY <1>4, <1>5, <2>1
    <3> HIDE DEF S, t, u, s
    <3>2. Begun(S, s, u, t)
      BY <3>1, Proceeding, Zenon
    <3> QED BY <3>2 DEF Begun, S, t, u, s
  <2>3. Head(code') = SubSeq(c, i + 1, Len(c)) /\ i + 1 \in 1 .. Len(c)
    <3>1. Tail(h) = SubSeq(c, i + 1, Len(c)) /\ i + 1 \in 1 .. Len(c)
      BY <1>1, <1>2, <1>3, <1>6
    <3> QED BY <3>1, <2>2
  <2>4. k # "Waiting"
    BY DEF Names
  <2> QED BY <1>1, <2>2, <2>3, <2>4 DEF Place, c
<1>7. ASSUME Proceed, i = Len(c)
      PROVE  Return
  BY <1>1, <1>3, <1>7 DEF Proceed
<1>8. ASSUME Return
      PROVE  /\ \E n \in Following(k) : Place(n, 1)'
             /\ code' \in Seq(Seq(StepNames))
  <2>1. code' = Tail(code)
    BY <1>8 DEF Return
  <2>2. PICK n \in Following(k) :
            IF n = "Waiting" THEN code' = <<>>
            ELSE /\ n \in Names /\ code' # <<>> /\ Head(code') = Calls[n]
                 /\ Tail(code') \in After(n)
    BY <1>1, <2>1, Follows
  <2>3. CASE n = "Waiting"
    BY <2>2, <2>3, <1>4, <2>1 DEF Place
  <2>4. CASE n # "Waiting"
    <3>1. Calls[n] \in Seq(StepNames) /\ Len(Calls[n]) \in 1 .. 20
      BY <2>2, <2>4, CallsType
    <3>2. 1 \in 1 .. Len(Calls[n]) /\ SubSeq(Calls[n], 1, Len(Calls[n])) = Calls[n]
      <4>1. SubSeq(Calls[n], 1, Len(Calls[n])) = Calls[n]
        BY <3>1, SubSeqFull, Zenon
      <4>2. 1 \in 1 .. Len(Calls[n])
        <5> DEFINE m == Len(Calls[n])
        <5>1. m \in 1 .. 20
          BY <3>1
        <5> HIDE DEF m
        <5>2. 1 \in 1 .. m
          BY <5>1
        <5> QED BY <5>2 DEF m
      <4> QED BY <4>1, <4>2
    <3> QED BY <2>2, <2>4, <3>2, <1>4, <2>1 DEF Place
  <2> QED BY <2>3, <2>4
<1>9. ASSUME Skip(3), i + 3 <= Len(c)
      PROVE  Place(k, i + 3)' /\ code' \in Seq(Seq(StepNames))
  <2> DEFINE u == SubSeq(c, i + 3, Len(c))
  <2>1. SubSeq(h, 4, Len(h)) = u
    <3>1. c \in Seq(StepNames) /\ h = SubSeq(c, i, Len(c)) /\ i \in 1 .. Len(c)
      BY <1>1, <1>2 DEF h
    <3> QED BY <3>1, <1>9, Dropped, Zenon
  <2>2. code' = <<u>> \o Tail(code)
    <3>1. code' = <<SubSeq(Head(code), 4, Len(Head(code)))>> \o Tail(code)
      BY <1>9 DEF Skip
    <3>2. SubSeq(Head(code), 4, Len(Head(code))) = u
      BY <1>1, <2>1
    <3> HIDE DEF u
    <3> QED BY <3>1, <3>2
  <2>3. u \in Seq(StepNames) /\ i + 3 \in 1 .. Len(c)
    BY <1>1, <1>2, <1>9
  <2> HIDE DEF u
  <2>4. Begun(Seq(StepNames), code', u, Tail(code))
    <3> DEFINE S == Seq(StepNames)
               t == Tail(code)
               s == code'
    <3>1. u \in S /\ t \in Seq(S) /\ s = <<u>> \o t
      BY <1>4, <2>2, <2>3
    <3> HIDE DEF S, t, s
    <3>2. Begun(S, s, u, t)
      BY <3>1, Proceeding, Zenon
    <3> QED BY <3>2 DEF S, t, s
  <2>5. k # "Waiting"
    BY DEF Names
  <2> QED BY <1>1, <2>3, <2>4, <2>5 DEF Place, Begun, c, u
<1>10. i < Len(c) \/ i = Len(c)
  BY <1>1, <1>2
<1> QED BY <1>1, <1>2, <1>3, <1>6, <1>7, <1>8, <1>9, <1>10 DEF c

\* How many steps the calls have.
LEMMA Lengths ==
  /\ Len(Calls["VideoStop"]) = 3 /\ Len(Calls["VideoStart"]) = 20
  /\ Len(Calls["VideoChangeFrame"]) = 7 /\ Len(Calls["DisplayStart"]) = 5
  /\ Len(Calls["DisplayChangeFrame"]) = 4 /\ Len(Calls["LoopHead"]) = 3
  /\ Len(Calls["DemoChangeRes"]) = 1 /\ Len(Calls["Copy"]) = 1
BY CallsByName, ShortCalls, VideoStartSteps, VideoChangeFrameSteps, DisplayStartSteps,
   DisplayChangeFrameSteps, SingleSteps

\* Where a step of main is taken and where it leads.
Moving(s, k, i) ==
    /\ Good(k, i) /\ Calls[k][i] = s /\ StepAt(k, i)
    /\ Proceed /\ i < Len(Calls[k]) => Place(k, i + 1)'
    /\ Proceed /\ i = Len(Calls[k]) => \E n \in Following(k) : Place(n, 1)'
    /\ Return => \E n \in Following(k) : Place(n, 1)'
    /\ Skip(3) /\ i + 3 <= Len(Calls[k]) => Place(k, i + 3)'
    /\ Proceed \/ Return => code' \in Seq(Seq(StepNames))
    /\ Skip(3) /\ i + 3 <= Len(Calls[k]) => code' \in Seq(Seq(StepNames))

\* At a step of main, main is at a step of a call that is that step.
LEMMA MainMoves ==
  ASSUME IInv, NEW s, At(s)
  PROVE  \E k \in Names, i \in 1 .. 20 : Moving(s, k, i)
<1>1. PICK k \in Names \cup {"Waiting"}, i \in 1 .. 20 : Good(k, i)
  BY DEF IInv, PlaceInv
<1>2. k \in Names
  BY <1>1 DEF Good, Place, At
<1>3. code \in Seq(Seq(StepNames)) /\ Place(k, i)
  BY <1>1 DEF IInv, VideoTypeOK, Good
<1>4. /\ Head(Head(code)) = Calls[k][i] /\ StepAt(k, i)
      /\ Proceed /\ i < Len(Calls[k]) => Place(k, i + 1)'
      /\ Proceed /\ i = Len(Calls[k]) => Return
      /\ Return => \E n \in Following(k) : Place(n, 1)'
      /\ Skip(3) /\ i + 3 <= Len(Calls[k]) => Place(k, i + 3)'
      /\ Proceed \/ Return => code' \in Seq(Seq(StepNames))
      /\ Skip(3) /\ i + 3 <= Len(Calls[k]) => code' \in Seq(Seq(StepNames))
  BY <1>2, <1>3, Moves, Zenon
<1>5. Head(Head(code)) = s
  BY DEF At
<1> QED BY <1>1, <1>2, <1>4, <1>5, Zenon DEF Moving

\* There is a frame.
LEMMA FirstFrame == 0 \in Frames
BY VideoAssumption DEF Frames

-----------------------------------------------------------------------------
(* The steps of main.                                                      *)

\* VideoStop.
LEMMA StopStep ==
  ASSUME IInv, StopCheck \/ StopReset \/ StopDone
  PROVE  IInv'
<1> USE DEF Steps, Reads, drivers, menu, signal
<1>1. CASE StopCheck
  <2>1. PICK k \in Names, i \in 1 .. 20 : Moving("StopCheck", k, i)
    BY <1>1, MainMoves, Zenon DEF StopCheck
  <2>2. k = "VideoStop" /\ i = 1
    BY <2>1 DEF Moving, StepAt
  <2>3. VideoTypeOK'
    BY <1>1, <2>1 DEF IInv, VideoTypeOK, Regs, Moving, StopCheck, ProceedIf
  <2>4. CASE capt.state = "STREAMING"
    <3>1. Place("VideoStop", 2)'
      BY <1>1, <2>1, <2>2, <2>4, Lengths DEF Moving, StopCheck, ProceedIf
    <3>2. Good("VideoStop", 2)'
      BY <1>1, <2>1, <2>2, <3>1
      DEF Moving, Good, DisplayAt, StreamAt, Settled, MenuAt, StopCheck
    <3> QED BY <2>3, <3>2 DEF IInv, PlaceInv, Names
  <2>5. CASE capt.state # "STREAMING"
    <3>1. PICK n \in {"LoopHead", "Copy"} : Place(n, 1)'
      BY <1>1, <2>1, <2>2, <2>5 DEF Moving, StopCheck, ProceedIf, Following
    <3>2. Good(n, 1)'
      BY <1>1, <2>1, <2>2, <3>1
      DEF Moving, Good, DisplayAt, StreamAt, Settled, MenuAt, StopCheck
    <3> QED BY <2>3, <3>2 DEF IInv, PlaceInv, Names
  <2> QED BY <2>4, <2>5
<1>2. CASE StopReset
  <2>1. PICK k \in Names, i \in 1 .. 20 : Moving("StopReset", k, i)
    BY <1>2, MainMoves, Zenon DEF StopReset
  <2>2. k = "VideoStop" /\ i = 2
    BY <2>1 DEF Moving, StepAt
  <2>3. Place("VideoStop", 3)'
    BY <1>2, <2>1, <2>2, Lengths DEF Moving, StopReset
  <2>4. Good("VideoStop", 3)'
    BY <1>2, <2>1, <2>2, <2>3
    DEF IInv, VideoTypeOK, Channels, ChannelReset, Moving, Good, DisplayAt, StreamAt,
        Settled, MenuAt, StopReset
  <2>5. wr' \in Channels
    BY <1>2 DEF IInv, VideoTypeOK, Channels, Sizes, ChannelReset, StopReset
  <2>6. VideoTypeOK'
    BY <1>2, <2>1, <2>5 DEF IInv, VideoTypeOK, Regs, Moving, StopReset
  <2> QED BY <2>4, <2>6 DEF IInv, PlaceInv, Names
<1>3. CASE StopDone
  <2>1. PICK k \in Names, i \in 1 .. 20 : Moving("StopDone", k, i)
    BY <1>3, MainMoves, Zenon DEF StopDone
  <2>2. k = "VideoStop" /\ i = 3
    BY <2>1 DEF Moving, StepAt
  <2>3. PICK n \in {"LoopHead", "Copy"} : Place(n, 1)'
    BY <1>3, <2>1, <2>2, Lengths DEF Moving, StopDone, Following
  <2>4. Good(n, 1)'
    BY <1>3, <2>1, <2>2, <2>3
    DEF IInv, VideoTypeOK, Moving, Good, DisplayAt, StreamAt, Settled, MenuAt, StopDone
  <2>5. VideoTypeOK'
    BY <1>3, <2>1 DEF IInv, VideoTypeOK, Regs, Moving, StopDone
  <2> QED BY <2>4, <2>5 DEF IInv, PlaceInv, Names
<1> QED BY <1>1, <1>2, <1>3

\* VideoStart up to its DmaConfig: the timing goes into the request.
LEMMA RequestStep ==
  ASSUME IInv, StartConnected \/ StartIdle \/ ReadTiming \/ WriteRequest
  PROVE  IInv'
<1> USE DEF Steps, Writes, Reads, NoReg, drivers, menu, signal
<1>1. CASE StartConnected
  <2>1. PICK k \in Names, i \in 1 .. 20 : Moving("StartConnected", k, i)
    BY <1>1, MainMoves, Zenon DEF StartConnected
  <2>2. VideoTypeOK'
    BY <1>1, <2>1 DEF IInv, VideoTypeOK, Regs, Moving, StartConnected, ProceedIf
  <2>3. k = "VideoStart" /\ i = 1
    BY <2>1 DEF Moving, StepAt
  <2>4. CASE capt.state # "DISCONNECTED"
    <3>1. Place("VideoStart", 2)'
      BY <1>1, <2>1, <2>3, <2>4, Lengths DEF Moving, StartConnected, ProceedIf
    <3>2. Good("VideoStart", 2)'
      BY <1>1, <2>1, <2>3, <2>4, <3>1
      DEF IInv, VideoTypeOK, Channels, Moving, Good, DisplayAt, StreamAt, Settled,
          MenuAt, StartConnected
    <3> QED BY <2>2, <3>2 DEF IInv, PlaceInv, Names
  <2>5. CASE capt.state = "DISCONNECTED"
    <3>1. PICK n \in {"LoopHead", "DisplayChangeFrame"} : Place(n, 1)'
      BY <1>1, <2>1, <2>3, <2>5, Lengths DEF Moving, StartConnected, Following, ProceedIf
    <3>2. Good(n, 1)'
      BY <1>1, <2>1, <2>3, <2>5, <3>1
      DEF IInv, VideoTypeOK, Channels, Moving, Good, DisplayAt, StreamAt, Settled,
          MenuAt, StartConnected
    <3> QED BY <2>2, <3>2 DEF IInv, PlaceInv, Names
  <2> QED BY <2>4, <2>5
<1>2. CASE StartIdle
  <2>1. PICK k \in Names, i \in 1 .. 20 : Moving("StartIdle", k, i)
    BY <1>2, MainMoves, Zenon DEF StartIdle
  <2>2. VideoTypeOK'
    BY <1>2, <2>1 DEF IInv, VideoTypeOK, Regs, Moving, StartIdle, ProceedIf
  <2>3. k = "VideoStart" /\ i = 2
    BY <2>1 DEF Moving, StepAt
  <2>4. CASE capt.state # "STREAMING"
    <3>1. Place("VideoStart", 3)'
      BY <1>2, <2>1, <2>3, <2>4, Lengths DEF Moving, StartIdle, ProceedIf
    <3>2. Good("VideoStart", 3)'
      BY <1>2, <2>1, <2>3, <2>4, <3>1
      DEF IInv, VideoTypeOK, Channels, Moving, Good, DisplayAt, StreamAt, Settled,
          MenuAt, StartIdle
    <3> QED BY <2>2, <3>2 DEF IInv, PlaceInv, Names
  <2>5. CASE capt.state = "STREAMING"
    <3>1. PICK n \in {"LoopHead", "DisplayChangeFrame"} : Place(n, 1)'
      BY <1>2, <2>1, <2>3, <2>5, Lengths DEF Moving, StartIdle, Following, ProceedIf
    <3>2. Good(n, 1)'
      BY <1>2, <2>1, <2>3, <2>5, <3>1
      DEF IInv, VideoTypeOK, Channels, Moving, Good, DisplayAt, StreamAt, Settled,
          MenuAt, StartIdle
    <3> QED BY <2>2, <3>2 DEF IInv, PlaceInv, Names
  <2> QED BY <2>4, <2>5
<1>3. CASE ReadTiming
  <2>1. PICK k \in Names, i \in 1 .. 20 : Moving("ReadTiming", k, i)
    BY <1>3, MainMoves, Zenon DEF ReadTiming, Loads
  <2>2. reg' \in Regs
    BY <1>3, FirstFrame DEF IInv, VideoTypeOK, Regs, ParkPtrs, Channels, Sizes, ReadTiming, Loads
  <2>3. VideoTypeOK'
    BY <1>3, <2>1, <2>2 DEF IInv, VideoTypeOK, Regs, Moving, ReadTiming, Loads
  <2>4. k = "VideoStart" /\ i = 3
    BY <2>1 DEF Moving, StepAt
  <2>5. Place("VideoStart", 4)'
    BY <1>3, <2>1, <2>4, Lengths DEF Moving, ReadTiming, Loads
  <2>6. Good("VideoStart", 4)'
    BY <1>3, <2>1, <2>4, <2>5
    DEF IInv, VideoTypeOK, Channels, Moving, Good, DisplayAt, StreamAt, Settled,
        MenuAt, ReadTiming, Loads
  <2> QED BY <2>3, <2>6 DEF IInv, PlaceInv, Names
<1>4. CASE WriteRequest
  <2>1. PICK k \in Names, i \in 1 .. 20 : Moving("WriteRequest", k, i)
    BY <1>4, MainMoves, Zenon DEF WriteRequest
  <2>2. capt' \in [state : {"DISCONNECTED", "STREAMING", "PAUSED"}, timing : Sizes,
                    curFrame : Frames, size : Sizes]
    BY <1>4 DEF IInv, VideoTypeOK, Sizes, Regs, WriteRequest
  <2>3. reg' \in Regs
    BY <1>4, FirstFrame DEF IInv, VideoTypeOK, Regs, ParkPtrs, Channels, Sizes, WriteRequest
  <2>4. VideoTypeOK'
    BY <1>4, <2>1, <2>2, <2>3 DEF IInv, VideoTypeOK, Regs, Moving, WriteRequest
  <2>5. k = "VideoStart" /\ i = 4
    BY <2>1 DEF Moving, StepAt
  <2>6. Place("VideoStart", 5)'
    BY <1>4, <2>1, <2>5, Lengths DEF Moving, WriteRequest
  <2>7. Good("VideoStart", 5)'
    BY <1>4, <2>1, <2>5, <2>6
    DEF IInv, VideoTypeOK, Channels, Moving, Good, DisplayAt, StreamAt, Settled,
        MenuAt, WriteRequest
  <2> QED BY <2>4, <2>7 DEF IInv, PlaceInv, Names
<1> QED BY <1>1, <1>2, <1>3, <1>4

\* DmaConfig: the request goes into the channel, which leaves parking.
LEMMA ConfigStep ==
  ASSUME IInv, ReadRequest \/ WriteChannel \/ ReadConfigCR \/ WriteConfigCR
  PROVE  IInv'
<1> USE DEF Steps, Writes, Reads, NoReg, drivers, menu, signal
<1>1. CASE ReadRequest
  <2>1. PICK k \in Names, i \in 1 .. 20 : Moving("ReadRequest", k, i)
    BY <1>1, MainMoves, Zenon DEF ReadRequest, Loads
  <2>2. reg' \in Regs
    BY <1>1, FirstFrame DEF IInv, VideoTypeOK, Regs, ParkPtrs, Channels, Sizes, ReadRequest, Loads
  <2>3. VideoTypeOK'
    BY <1>1, <2>1, <2>2 DEF IInv, VideoTypeOK, Regs, Moving, ReadRequest, Loads
  <2>4. k = "VideoStart" /\ i = 5
    BY <2>1 DEF Moving, StepAt
  <2>5. Place("VideoStart", 6)'
    BY <1>1, <2>1, <2>4, Lengths DEF Moving, ReadRequest, Loads
  <2>6. Good("VideoStart", 6)'
    BY <1>1, <2>1, <2>4, <2>5
    DEF IInv, VideoTypeOK, Channels, Moving, Good, DisplayAt, StreamAt, Settled,
        MenuAt, ReadRequest, Loads
  <2> QED BY <2>3, <2>6 DEF IInv, PlaceInv, Names
<1>2. CASE WriteChannel
  <2>1. PICK k \in Names, i \in 1 .. 20 : Moving("WriteChannel", k, i)
    BY <1>2, MainMoves, Zenon DEF WriteChannel
  <2>2. wr' \in Channels
    BY <1>2 DEF IInv, VideoTypeOK, Channels, Sizes, Regs, WriteChannel
  <2>3. reg' \in Regs
    BY <1>2, FirstFrame DEF IInv, VideoTypeOK, Regs, ParkPtrs, Channels, Sizes, WriteChannel
  <2>4. VideoTypeOK'
    BY <1>2, <2>1, <2>2, <2>3 DEF IInv, VideoTypeOK, Regs, Moving, WriteChannel
  <2>5. k = "VideoStart" /\ i = 6
    BY <2>1 DEF Moving, StepAt
  <2>6. Place("VideoStart", 7)'
    BY <1>2, <2>1, <2>5, Lengths DEF Moving, WriteChannel
  <2>7. Good("VideoStart", 7)'
    BY <1>2, <2>1, <2>5, <2>6
    DEF IInv, VideoTypeOK, Channels, Moving, Good, DisplayAt, StreamAt, Settled,
        MenuAt, WriteChannel
  <2> QED BY <2>4, <2>7 DEF IInv, PlaceInv, Names
<1>3. CASE ReadConfigCR
  <2>1. PICK k \in Names, i \in 1 .. 20 : Moving("ReadConfigCR", k, i)
    BY <1>3, MainMoves, Zenon DEF ReadConfigCR
  <2>2. reg' \in Regs
    BY <1>3, FirstFrame DEF IInv, VideoTypeOK, Regs, ParkPtrs, Channels, Sizes, ControlOf, ReadConfigCR
  <2>3. VideoTypeOK'
    BY <1>3, <2>1, <2>2 DEF IInv, VideoTypeOK, Regs, Moving, ReadConfigCR
  <2>4. k = "VideoStart" /\ i = 7
    BY <2>1 DEF Moving, StepAt
  <2>5. Place("VideoStart", 8)'
    BY <1>3, <2>1, <2>4, Lengths DEF Moving, ReadConfigCR
  <2>6. Good("VideoStart", 8)'
    BY <1>3, <2>1, <2>4, <2>5
    DEF IInv, VideoTypeOK, Channels, Moving, Good, DisplayAt, StreamAt, Settled,
        MenuAt, ReadConfigCR
  <2> QED BY <2>3, <2>6 DEF IInv, PlaceInv, Names
<1>4. CASE WriteConfigCR
  <2>1. PICK k \in Names, i \in 1 .. 20 : Moving("WriteConfigCR", k, i)
    BY <1>4, MainMoves, Zenon DEF WriteConfigCR
  <2>2. wr' \in Channels
    BY <1>4 DEF IInv, VideoTypeOK, Channels, Sizes, Regs, WriteConfigCR
  <2>3. reg' \in Regs
    BY <1>4, FirstFrame DEF IInv, VideoTypeOK, Regs, ParkPtrs, Channels, Sizes, WriteConfigCR
  <2>4. VideoTypeOK'
    BY <1>4, <2>1, <2>2, <2>3 DEF IInv, VideoTypeOK, Regs, Moving, WriteConfigCR
  <2>5. k = "VideoStart" /\ i = 8
    BY <2>1 DEF Moving, StepAt
  <2>6. Place("VideoStart", 9)'
    BY <1>4, <2>1, <2>5, Lengths DEF Moving, WriteConfigCR
  <2>7. Good("VideoStart", 9)'
    BY <1>4, <2>1, <2>5, <2>6
    DEF IInv, VideoTypeOK, Channels, Moving, Good, DisplayAt, StreamAt, Settled,
        MenuAt, WriteConfigCR
  <2> QED BY <2>4, <2>7 DEF IInv, PlaceInv, Names
<1> QED BY <1>1, <1>2, <1>3, <1>4

\* DmaStart: the channel runs after it, or has run before it.
LEMMA StartStep ==
  ASSUME IInv, CheckHalted \/ ReadStartCR \/ WriteStartCR \/ CheckStarted \/ ReadVSize \/
         WriteVSize \/ StartDone
  PROVE  IInv'
<1> USE DEF Steps, Writes, Reads, NoReg, drivers, menu, signal
<1>1. CASE CheckHalted
  <2>1. PICK k \in Names, i \in 1 .. 20 : Moving("CheckHalted", k, i)
    BY <1>1, MainMoves, Zenon DEF CheckHalted
  <2>2. k = "VideoStart" /\ i = 9
    BY <2>1 DEF Moving, StepAt
  <2>3. VideoTypeOK'
    BY <1>1, <2>1, <2>2, Lengths DEF IInv, VideoTypeOK, Regs, Moving, CheckHalted
  <2>4. CASE wr.run
    <3>1. Place("VideoStart", 12)'
      BY <1>1, <2>1, <2>2, <2>4, Lengths DEF Moving, CheckHalted
    <3>2. Good("VideoStart", 12)'
      BY <1>1, <2>1, <2>2, <2>4, <3>1
      DEF IInv, VideoTypeOK, Channels, Moving, Good, DisplayAt, StreamAt, Settled,
          MenuAt, CheckHalted
    <3> QED BY <2>3, <3>2 DEF IInv, PlaceInv, Names
  <2>5. CASE ~wr.run
    <3>1. Place("VideoStart", 10)'
      BY <1>1, <2>1, <2>2, <2>5, Lengths DEF Moving, CheckHalted
    <3>2. Good("VideoStart", 10)'
      BY <1>1, <2>1, <2>2, <2>5, <3>1
      DEF IInv, VideoTypeOK, Channels, Moving, Good, DisplayAt, StreamAt, Settled,
          MenuAt, CheckHalted
    <3> QED BY <2>3, <3>2 DEF IInv, PlaceInv, Names
  <2> QED BY <2>4, <2>5
<1>2. CASE ReadStartCR
  <2>1. PICK k \in Names, i \in 1 .. 20 : Moving("ReadStartCR", k, i)
    BY <1>2, MainMoves, Zenon DEF ReadStartCR
  <2>2. reg' \in Regs
    BY <1>2, FirstFrame DEF IInv, VideoTypeOK, Regs, ParkPtrs, Channels, Sizes, ControlOf, ReadStartCR
  <2>3. VideoTypeOK'
    BY <1>2, <2>1, <2>2 DEF IInv, VideoTypeOK, Regs, Moving, ReadStartCR
  <2>4. k = "VideoStart" /\ i = 10
    BY <2>1 DEF Moving, StepAt
  <2>5. Place("VideoStart", 11)'
    BY <1>2, <2>1, <2>4, Lengths DEF Moving, ReadStartCR
  <2>6. Good("VideoStart", 11)'
    BY <1>2, <2>1, <2>4, <2>5
    DEF IInv, VideoTypeOK, Channels, Moving, Good, DisplayAt, StreamAt, Settled,
        MenuAt, ReadStartCR
  <2> QED BY <2>3, <2>6 DEF IInv, PlaceInv, Names
<1>3. CASE WriteStartCR
  <2>1. PICK k \in Names, i \in 1 .. 20 : Moving("WriteStartCR", k, i)
    BY <1>3, MainMoves, Zenon DEF WriteStartCR
  <2>2. wr' \in Channels
    BY <1>3 DEF IInv, VideoTypeOK, Channels, Sizes, Regs, WriteStartCR
  <2>3. reg' \in Regs
    BY <1>3, FirstFrame DEF IInv, VideoTypeOK, Regs, ParkPtrs, Channels, Sizes, WriteStartCR
  <2>4. VideoTypeOK'
    BY <1>3, <2>1, <2>2, <2>3 DEF IInv, VideoTypeOK, Regs, Moving, WriteStartCR
  <2>5. k = "VideoStart" /\ i = 11
    BY <2>1 DEF Moving, StepAt
  <2>6. Place("VideoStart", 12)'
    BY <1>3, <2>1, <2>5, Lengths DEF Moving, WriteStartCR
  <2>7. Good("VideoStart", 12)'
    BY <1>3, <2>1, <2>5, <2>6
    DEF IInv, VideoTypeOK, Channels, Moving, Good, DisplayAt, StreamAt, Settled,
        MenuAt, WriteStartCR
  <2> QED BY <2>4, <2>7 DEF IInv, PlaceInv, Names
<1>4. CASE CheckStarted
  <2>1. PICK k \in Names, i \in 1 .. 20 : Moving("CheckStarted", k, i)
    BY <1>4, MainMoves, Zenon DEF CheckStarted
  <2>2. VideoTypeOK'
    BY <1>4, <2>1 DEF IInv, VideoTypeOK, Regs, Moving, CheckStarted, ProceedIf
  <2>3. k = "VideoStart" /\ i = 12
    BY <2>1 DEF Moving, StepAt
  <2>4. CASE wr.run
    <3>1. Place("VideoStart", 13)'
      BY <1>4, <2>1, <2>3, <2>4, Lengths DEF Moving, CheckStarted, ProceedIf
    <3>2. Good("VideoStart", 13)'
      BY <1>4, <2>1, <2>3, <2>4, <3>1
      DEF IInv, VideoTypeOK, Channels, Moving, Good, DisplayAt, StreamAt, Settled,
          MenuAt, CheckStarted
    <3> QED BY <2>2, <3>2 DEF IInv, PlaceInv, Names
  <2>5. CASE ~wr.run
    <3>1. PICK n \in {"LoopHead", "DisplayChangeFrame"} : Place(n, 1)'
      BY <1>4, <2>1, <2>3, <2>5, Lengths DEF Moving, CheckStarted, Following, ProceedIf
    <3>2. Good(n, 1)'
      BY <1>4, <2>1, <2>3, <2>5, <3>1
      DEF IInv, VideoTypeOK, Channels, Moving, Good, DisplayAt, StreamAt, Settled,
          MenuAt, CheckStarted
    <3> QED BY <2>2, <3>2 DEF IInv, PlaceInv, Names
  <2> QED BY <2>4, <2>5
<1>5. CASE ReadVSize
  <2>1. PICK k \in Names, i \in 1 .. 20 : Moving("ReadVSize", k, i)
    BY <1>5, MainMoves, Zenon DEF ReadVSize, Loads
  <2>2. reg' \in Regs
    BY <1>5, FirstFrame DEF IInv, VideoTypeOK, Regs, ParkPtrs, Channels, Sizes, ReadVSize, Loads
  <2>3. VideoTypeOK'
    BY <1>5, <2>1, <2>2 DEF IInv, VideoTypeOK, Regs, Moving, ReadVSize, Loads
  <2>4. k = "VideoStart" /\ i = 13
    BY <2>1 DEF Moving, StepAt
  <2>5. Place("VideoStart", 14)'
    BY <1>5, <2>1, <2>4, Lengths DEF Moving, ReadVSize, Loads
  <2>6. Good("VideoStart", 14)'
    BY <1>5, <2>1, <2>4, <2>5
    DEF IInv, VideoTypeOK, Channels, Moving, Good, DisplayAt, StreamAt, Settled,
        MenuAt, ReadVSize, Loads
  <2> QED BY <2>3, <2>6 DEF IInv, PlaceInv, Names
<1>6. CASE WriteVSize
  <2>1. PICK k \in Names, i \in 1 .. 20 : Moving("WriteVSize", k, i)
    BY <1>6, MainMoves, Zenon DEF WriteVSize
  <2>2. wr' \in Channels
    BY <1>6 DEF IInv, VideoTypeOK, Channels, Sizes, Regs, WriteVSize
  <2>3. reg' \in Regs
    BY <1>6, FirstFrame DEF IInv, VideoTypeOK, Regs, ParkPtrs, Channels, Sizes, WriteVSize
  <2>4. VideoTypeOK'
    BY <1>6, <2>1, <2>2, <2>3 DEF IInv, VideoTypeOK, Regs, Moving, WriteVSize
  <2>5. k = "VideoStart" /\ i = 14
    BY <2>1 DEF Moving, StepAt
  <2>6. Place("VideoStart", 15)'
    BY <1>6, <2>1, <2>5, Lengths DEF Moving, WriteVSize
  <2>7. Good("VideoStart", 15)'
    BY <1>6, <2>1, <2>5, <2>6
    DEF IInv, VideoTypeOK, Channels, Moving, Good, DisplayAt, StreamAt, Settled,
        MenuAt, WriteVSize
  <2> QED BY <2>4, <2>7 DEF IInv, PlaceInv, Names
<1>7. CASE StartDone
  <2>1. PICK k \in Names, i \in 1 .. 20 : Moving("StartDone", k, i)
    BY <1>7, MainMoves, Zenon DEF StartDone
  <2>2. capt' \in [state : {"DISCONNECTED", "STREAMING", "PAUSED"}, timing : Sizes,
                    curFrame : Frames, size : Sizes]
    BY <1>7 DEF IInv, VideoTypeOK, Sizes, StartDone
  <2>3. VideoTypeOK'
    BY <1>7, <2>1, <2>2 DEF IInv, VideoTypeOK, Regs, Moving, StartDone
  <2>4. k = "VideoStart" /\ i = 20
    BY <2>1 DEF Moving, StepAt
  <2>5. PICK n \in {"LoopHead", "DisplayChangeFrame"} : Place(n, 1)'
    BY <1>7, <2>1, <2>4, Lengths DEF Moving, StartDone, Following
  <2>6. Good(n, 1)'
    BY <1>7, <2>1, <2>4, <2>5
    DEF IInv, VideoTypeOK, Channels, Moving, Good, DisplayAt, StreamAt, Settled,
        MenuAt, StartDone
  <2> QED BY <2>3, <2>6 DEF IInv, PlaceInv, Names
<1> QED BY <1>1, <1>2, <1>3, <1>4, <1>5, <1>6, <1>7

\* StartParking of the input, in VideoStart and VideoChangeFrame.
LEMMA ParkWriteStep ==
  ASSUME IInv, WriteWriteRef \/ CheckRunning \/ ReadParkCR \/ WriteParkCR
  PROVE  IInv'
<1> USE DEF Steps, Writes, Reads, NoReg, drivers, menu, signal
<1>1. CASE WriteWriteRef
  <2>1. PICK k \in Names, i \in 1 .. 20 : Moving("WriteWriteRef", k, i)
    BY <1>1, MainMoves, Zenon DEF WriteWriteRef
  <2>2. parkptr' \in ParkPtrs
    BY <1>1 DEF Regs, IInv, VideoTypeOK, ParkPtrs, WriteWriteRef, Parked
  <2>3. reg' \in Regs
    BY <1>1, FirstFrame DEF Regs, Sizes, IInv, VideoTypeOK, ParkPtrs, Channels, WriteWriteRef, Parked
  <2>4. VideoTypeOK'
    BY <1>1, <2>1, <2>2, <2>3 DEF IInv, VideoTypeOK, Regs, Moving, WriteWriteRef
  <2>5. (k = "VideoStart" /\ i = 16) \/ (k = "VideoChangeFrame" /\ i = 4)
    BY <2>1 DEF Moving, StepAt
  <2>6. CASE k = "VideoStart"
    <3>1. Place("VideoStart", 17)'
      BY <1>1, <2>1, <2>5, <2>6, Lengths DEF Moving, WriteWriteRef
    <3>2. Good("VideoStart", 17)'
      BY <1>1, <2>1, <2>5, <2>6, <3>1
      DEF IInv, VideoTypeOK, Channels, Moving, Good, DisplayAt, StreamAt, Settled,
          MenuAt, WriteWriteRef, Parked
    <3> QED BY <2>4, <3>2 DEF IInv, PlaceInv, Names
  <2>7. CASE k = "VideoChangeFrame"
    <3>1. Place("VideoChangeFrame", 5)'
      BY <1>1, <2>1, <2>5, <2>7, Lengths DEF Moving, WriteWriteRef
    <3>2. Good("VideoChangeFrame", 5)'
      BY <1>1, <2>1, <2>5, <2>7, <3>1
      DEF IInv, VideoTypeOK, Channels, Moving, Good, DisplayAt, StreamAt, Settled,
          MenuAt, WriteWriteRef, Parked
    <3> QED BY <2>4, <3>2 DEF IInv, PlaceInv, Names
  <2> QED BY <2>5, <2>6, <2>7
<1>2. CASE CheckRunning
  <2>1. PICK k \in Names, i \in 1 .. 20 : Moving("CheckRunning", k, i)
    BY <1>2, MainMoves, Zenon DEF CheckRunning
  <2>2. VideoTypeOK'
    BY <1>2, <2>1 DEF IInv, VideoTypeOK, Regs, Moving, CheckRunning, ProceedIf
  <2>3. (k = "VideoStart" /\ i = 17) \/ (k = "VideoChangeFrame" /\ i = 5)
    BY <2>1 DEF Moving, StepAt
  <2>4. CASE k = "VideoStart" /\ wr.run
    <3>1. Place("VideoStart", 18)'
      BY <1>2, <2>1, <2>3, <2>4, Lengths DEF Moving, CheckRunning, ProceedIf
    <3>2. Good("VideoStart", 18)'
      BY <1>2, <2>1, <2>3, <2>4, <3>1
      DEF IInv, VideoTypeOK, Channels, Moving, Good, DisplayAt, StreamAt, Settled,
          MenuAt, CheckRunning
    <3> QED BY <2>2, <3>2 DEF IInv, PlaceInv, Names
  <2>5. CASE k = "VideoChangeFrame" /\ wr.run
    <3>1. Place("VideoChangeFrame", 6)'
      BY <1>2, <2>1, <2>3, <2>5, Lengths DEF Moving, CheckRunning, ProceedIf
    <3>2. Good("VideoChangeFrame", 6)'
      BY <1>2, <2>1, <2>3, <2>5, <3>1
      DEF IInv, VideoTypeOK, Channels, Moving, Good, DisplayAt, StreamAt, Settled,
          MenuAt, CheckRunning
    <3> QED BY <2>2, <3>2 DEF IInv, PlaceInv, Names
  <2>6. CASE k = "VideoStart" /\ ~wr.run
    <3>1. PICK n \in {"LoopHead", "DisplayChangeFrame"} : Place(n, 1)'
      BY <1>2, <2>1, <2>3, <2>6, Lengths DEF Moving, CheckRunning, Following, ProceedIf
    <3>2. Good(n, 1)'
      BY <1>2, <2>1, <2>3, <2>6, <3>1
      DEF IInv, VideoTypeOK, Channels, Moving, Good, DisplayAt, StreamAt, Settled,
          MenuAt, CheckRunning
    <3> QED BY <2>2, <3>2 DEF IInv, PlaceInv, Names
  <2>7. CASE k = "VideoChangeFrame" /\ ~wr.run
    <3>1. PICK n \in {"LoopHead"} : Place(n, 1)'
      BY <1>2, <2>1, <2>3, <2>7, Lengths DEF Moving, CheckRunning, Following, ProceedIf
    <3>2. Good(n, 1)'
      BY <1>2, <2>1, <2>3, <2>7, <3>1
      DEF IInv, VideoTypeOK, Channels, Moving, Good, DisplayAt, StreamAt, Settled,
          MenuAt, CheckRunning
    <3> QED BY <2>2, <3>2 DEF IInv, PlaceInv, Names
  <2> QED BY <2>3, <2>4, <2>5, <2>6, <2>7
<1>3. CASE ReadParkCR
  <2>1. PICK k \in Names, i \in 1 .. 20 : Moving("ReadParkCR", k, i)
    BY <1>3, MainMoves, Zenon DEF ReadParkCR
  <2>2. reg' \in Regs
    BY <1>3, FirstFrame DEF IInv, VideoTypeOK, Regs, ParkPtrs, Channels, Sizes, ControlOf, ReadParkCR
  <2>3. VideoTypeOK'
    BY <1>3, <2>1, <2>2 DEF IInv, VideoTypeOK, Regs, Moving, ReadParkCR
  <2>4. (k = "VideoStart" /\ i = 18) \/ (k = "VideoChangeFrame" /\ i = 6)
    BY <2>1 DEF Moving, StepAt
  <2>5. CASE k = "VideoStart"
    <3>1. Place("VideoStart", 19)'
      BY <1>3, <2>1, <2>4, <2>5, Lengths DEF Moving, ReadParkCR
    <3>2. Good("VideoStart", 19)'
      BY <1>3, <2>1, <2>4, <2>5, <3>1
      DEF IInv, VideoTypeOK, Channels, Moving, Good, DisplayAt, StreamAt, Settled,
          MenuAt, ReadParkCR, ControlOf
    <3> QED BY <2>3, <3>2 DEF IInv, PlaceInv, Names
  <2>6. CASE k = "VideoChangeFrame"
    <3>1. Place("VideoChangeFrame", 7)'
      BY <1>3, <2>1, <2>4, <2>6, Lengths DEF Moving, ReadParkCR
    <3>2. Good("VideoChangeFrame", 7)'
      BY <1>3, <2>1, <2>4, <2>6, <3>1
      DEF IInv, VideoTypeOK, Channels, Moving, Good, DisplayAt, StreamAt, Settled,
          MenuAt, ReadParkCR, ControlOf
    <3> QED BY <2>3, <3>2 DEF IInv, PlaceInv, Names
  <2> QED BY <2>4, <2>5, <2>6
<1>4. CASE WriteParkCR
  <2>1. PICK k \in Names, i \in 1 .. 20 : Moving("WriteParkCR", k, i)
    BY <1>4, MainMoves, Zenon DEF WriteParkCR
  <2>2. wr' \in Channels
    BY <1>4 DEF Regs, IInv, VideoTypeOK, Channels, Sizes, WriteParkCR
  <2>3. reg' \in Regs
    BY <1>4, FirstFrame DEF Regs, Sizes, IInv, VideoTypeOK, ParkPtrs, Channels, WriteParkCR
  <2>4. VideoTypeOK'
    BY <1>4, <2>1, <2>2, <2>3 DEF IInv, VideoTypeOK, Regs, Moving, WriteParkCR
  <2>5. (k = "VideoStart" /\ i = 19) \/ (k = "VideoChangeFrame" /\ i = 7)
    BY <2>1 DEF Moving, StepAt
  <2>6. CASE k = "VideoStart"
    <3>1. Place("VideoStart", 20)'
      BY <1>4, <2>1, <2>5, <2>6, Lengths DEF Moving, WriteParkCR
    <3>2. Good("VideoStart", 20)'
      BY <1>4, <2>1, <2>5, <2>6, <3>1
      DEF IInv, VideoTypeOK, Channels, Moving, Good, DisplayAt, StreamAt, Settled,
          MenuAt, WriteParkCR
    <3> QED BY <2>4, <3>2 DEF IInv, PlaceInv, Names
  <2>7. CASE k = "VideoChangeFrame"
    <3>1. PICK n \in {"LoopHead"} : Place(n, 1)'
      BY <1>4, <2>1, <2>5, <2>7, Lengths DEF Moving, WriteParkCR, Following
    <3>2. Good(n, 1)'
      BY <1>4, <2>1, <2>5, <2>7, <3>1
      DEF IInv, VideoTypeOK, Channels, Moving, Good, DisplayAt, StreamAt, Settled,
          MenuAt, WriteParkCR
    <3> QED BY <2>4, <3>2 DEF IInv, PlaceInv, Names
  <2> QED BY <2>5, <2>6, <2>7
<1> QED BY <1>1, <1>2, <1>3, <1>4

\* VideoChangeFrame, but for its StartParking, and the copy of a frame.
LEMMA ChangeStep ==
  ASSUME IInv, SetVideoFrame \/ ChangeCheck \/ Copy
  PROVE  IInv'
<1> USE DEF Steps, Writes, Reads, NoReg, drivers, menu, signal
<1>1. CASE SetVideoFrame
  <2>1. PICK k \in Names, i \in 1 .. 20 : Moving("SetVideoFrame", k, i)
    BY <1>1, MainMoves, Zenon DEF SetVideoFrame
  <2>2. capt' \in [state : {"DISCONNECTED", "STREAMING", "PAUSED"}, timing : Sizes,
                    curFrame : Frames, size : Sizes]
    BY <1>1 DEF IInv, VideoTypeOK, Sizes, SetVideoFrame
  <2>3. VideoTypeOK'
    BY <1>1, <2>1, <2>2 DEF IInv, VideoTypeOK, Regs, Moving, SetVideoFrame
  <2>4. k = "VideoChangeFrame" /\ i = 1
    BY <2>1 DEF Moving, StepAt
  <2>5. Place("VideoChangeFrame", 2)'
    BY <1>1, <2>1, <2>4, Lengths DEF Moving, SetVideoFrame
  <2>6. Good("VideoChangeFrame", 2)'
    BY <1>1, <2>1, <2>4, <2>5
    DEF IInv, VideoTypeOK, Channels, Moving, Good, DisplayAt, StreamAt, Settled,
        MenuAt, SetVideoFrame
  <2> QED BY <2>3, <2>6 DEF IInv, PlaceInv, Names
<1>2. CASE ChangeCheck
  <2>1. PICK k \in Names, i \in 1 .. 20 : Moving("ChangeCheck", k, i)
    BY <1>2, MainMoves, Zenon DEF ChangeCheck
  <2>2. VideoTypeOK'
    BY <1>2, <2>1 DEF IInv, VideoTypeOK, Regs, Moving, ChangeCheck, ProceedIf
  <2>3. k = "VideoChangeFrame" /\ i = 2
    BY <2>1 DEF Moving, StepAt
  <2>4. CASE capt.state = "STREAMING"
    <3>1. Place("VideoChangeFrame", 3)'
      BY <1>2, <2>1, <2>3, <2>4, Lengths DEF Moving, ChangeCheck, ProceedIf
    <3>2. Good("VideoChangeFrame", 3)'
      BY <1>2, <2>1, <2>3, <2>4, <3>1
      DEF IInv, VideoTypeOK, Channels, Moving, Good, DisplayAt, StreamAt, Settled,
          MenuAt, ChangeCheck
    <3> QED BY <2>2, <3>2 DEF IInv, PlaceInv, Names
  <2>5. CASE capt.state # "STREAMING"
    <3>1. PICK n \in {"LoopHead"} : Place(n, 1)'
      BY <1>2, <2>1, <2>3, <2>5, Lengths DEF Moving, ChangeCheck, Following, ProceedIf
    <3>2. Good(n, 1)'
      BY <1>2, <2>1, <2>3, <2>5, <3>1
      DEF IInv, VideoTypeOK, Channels, Moving, Good, DisplayAt, StreamAt, Settled,
          MenuAt, ChangeCheck
    <3> QED BY <2>2, <3>2 DEF IInv, PlaceInv, Names
  <2> QED BY <2>3, <2>4, <2>5
<1>3. CASE Copy
  <2>1. PICK k \in Names, i \in 1 .. 20 : Moving("Copy", k, i)
    BY <1>3, MainMoves, Zenon DEF Copy
  <2>2. VideoTypeOK'
    BY <1>3, <2>1 DEF IInv, VideoTypeOK, Regs, Moving, Copy
  <2>3. k = "Copy" /\ i = 1
    BY <2>1 DEF Moving, StepAt
  <2>4. PICK n \in {"VideoStart"} : Place(n, 1)'
    BY <1>3, <2>1, <2>3, Lengths DEF Moving, Copy, Following
  <2>5. Good(n, 1)'
    BY <1>3, <2>1, <2>3, <2>4
    DEF IInv, VideoTypeOK, Channels, Moving, Good, DisplayAt, StreamAt, Settled,
        MenuAt, Copy
  <2> QED BY <2>2, <2>5 DEF IInv, PlaceInv, Names
<1> QED BY <1>1, <1>2, <1>3

\* PARKPTR as both directions change it.
LEMMA ReadParkPtrStep ==
  ASSUME IInv, ReadParkPtr \/ WriteReadRef
  PROVE  IInv'
<1> USE DEF Steps, Writes, Reads, NoReg, drivers, menu, signal
<1>1. CASE ReadParkPtr
  <2>1. PICK k \in Names, i \in 1 .. 20 : Moving("ReadParkPtr", k, i)
    BY <1>1, MainMoves, Zenon DEF ReadParkPtr
  <2>2. reg' \in Regs
    BY <1>1, FirstFrame DEF Regs, Sizes, IInv, VideoTypeOK, ParkPtrs, Channels, ReadParkPtr
  <2>3. VideoTypeOK'
    BY <1>1, <2>1, <2>2 DEF IInv, VideoTypeOK, Regs, Moving, ReadParkPtr
  <2>4. \/ k = "VideoStart" /\ i = 15
        \/ k = "VideoChangeFrame" /\ i = 3
        \/ k = "DisplayStart" /\ i = 2
        \/ k = "DisplayChangeFrame" /\ i = 2
    BY <2>1 DEF Moving, StepAt
  <2>5. CASE k = "VideoStart"
    <3>1. Place("VideoStart", 16)'
      BY <1>1, <2>1, <2>4, <2>5, Lengths DEF Moving, ReadParkPtr
    <3>2. Good("VideoStart", 16)'
      BY <1>1, <2>1, <2>4, <2>5, <3>1
      DEF IInv, VideoTypeOK, Channels, Moving, Good, DisplayAt, StreamAt, Settled,
          MenuAt, ReadParkPtr
    <3> QED BY <2>3, <3>2 DEF IInv, PlaceInv, Names
  <2>6. CASE k = "VideoChangeFrame"
    <3>1. Place("VideoChangeFrame", 4)'
      BY <1>1, <2>1, <2>4, <2>6, Lengths DEF Moving, ReadParkPtr
    <3>2. Good("VideoChangeFrame", 4)'
      BY <1>1, <2>1, <2>4, <2>6, <3>1
      DEF IInv, VideoTypeOK, Channels, Moving, Good, DisplayAt, StreamAt, Settled,
          MenuAt, ReadParkPtr
    <3> QED BY <2>3, <3>2 DEF IInv, PlaceInv, Names
  <2>7. CASE k = "DisplayStart"
    <3>1. Place("DisplayStart", 3)'
      BY <1>1, <2>1, <2>4, <2>7, Lengths DEF Moving, ReadParkPtr
    <3>2. Good("DisplayStart", 3)'
      BY <1>1, <2>1, <2>4, <2>7, <3>1
      DEF IInv, VideoTypeOK, Channels, Moving, Good, DisplayAt, StreamAt, Settled,
          MenuAt, ReadParkPtr
    <3> QED BY <2>3, <3>2 DEF IInv, PlaceInv, Names
  <2>8. CASE k = "DisplayChangeFrame"
    <3>1. Place("DisplayChangeFrame", 3)'
      BY <1>1, <2>1, <2>4, <2>8, Lengths DEF Moving, ReadParkPtr
    <3>2. Good("DisplayChangeFrame", 3)'
      BY <1>1, <2>1, <2>4, <2>8, <3>1
      DEF IInv, VideoTypeOK, Channels, Moving, Good, DisplayAt, StreamAt, Settled,
          MenuAt, ReadParkPtr
    <3> QED BY <2>3, <3>2 DEF IInv, PlaceInv, Names
  <2> QED BY <2>4, <2>5, <2>6, <2>7, <2>8
<1>2. CASE WriteReadRef
  <2>1. PICK k \in Names, i \in 1 .. 20 : Moving("WriteReadRef", k, i)
    BY <1>2, MainMoves, Zenon DEF WriteReadRef
  <2>2. parkptr' \in ParkPtrs
    BY <1>2 DEF Regs, IInv, VideoTypeOK, WriteReadRef, Parked, ParkPtrs
  <2>3. reg' \in Regs
    BY <1>2, FirstFrame DEF Regs, Sizes, IInv, VideoTypeOK, Channels, WriteReadRef, Parked, ParkPtrs
  <2>4. VideoTypeOK'
    BY <1>2, <2>1, <2>2, <2>3 DEF IInv, VideoTypeOK, Regs, Moving, WriteReadRef
  <2>5. (k = "DisplayStart" /\ i = 3) \/ (k = "DisplayChangeFrame" /\ i = 3)
    BY <2>1 DEF Moving, StepAt
  <2>6. CASE k = "DisplayStart"
    <3>1. Place("DisplayStart", 4)'
      BY <1>2, <2>1, <2>5, <2>6, Lengths DEF Moving, WriteReadRef
    <3>2. Good("DisplayStart", 4)'
      BY <1>2, <2>1, <2>5, <2>6, <3>1
      DEF IInv, VideoTypeOK, Channels, Moving, Good, DisplayAt, StreamAt, Settled,
          MenuAt, WriteReadRef, Parked, ParkPtrs
    <3> QED BY <2>4, <3>2 DEF IInv, PlaceInv, Names
  <2>7. CASE k = "DisplayChangeFrame"
    <3>1. Place("DisplayChangeFrame", 4)'
      BY <1>2, <2>1, <2>5, <2>7, Lengths DEF Moving, WriteReadRef
    <3>2. Good("DisplayChangeFrame", 4)'
      BY <1>2, <2>1, <2>5, <2>7, <3>1
      DEF IInv, VideoTypeOK, Channels, Moving, Good, DisplayAt, StreamAt, Settled,
          MenuAt, WriteReadRef, Parked, ParkPtrs
    <3> QED BY <2>4, <3>2 DEF IInv, PlaceInv, Names
  <2> QED BY <2>5, <2>6, <2>7
<1> QED BY <1>1, <1>2

\* DisplayStart and DisplayChangeFrame.
LEMMA DisplayStep ==
  ASSUME IInv, DisplayCheck \/ ParkReadChannel \/ DisplayDone \/ SetDisplayFrame
  PROVE  IInv'
<1> USE DEF Steps, Writes, Reads, NoReg, drivers, menu, signal
<1>1. CASE DisplayCheck
  <2>1. PICK k \in Names, i \in 1 .. 20 : Moving("DisplayCheck", k, i)
    BY <1>1, MainMoves, Zenon DEF DisplayCheck
  <2>2. rd' \in Channels
    BY <1>1 DEF IInv, VideoTypeOK, Channels, Sizes, DisplayCheck
  <2>3. VideoTypeOK'
    BY <1>1, <2>1, <2>2 DEF IInv, VideoTypeOK, Regs, Moving, DisplayCheck, ProceedIf
  <2>4. k = "DisplayStart" /\ i = 1
    BY <2>1 DEF Moving, StepAt
  <2>5. CASE disp.state = "STOPPED"
    <3>1. Place("DisplayStart", 2)'
      BY <1>1, <2>1, <2>4, <2>5, Lengths DEF Moving, DisplayCheck, ProceedIf
    <3>2. Good("DisplayStart", 2)'
      BY <1>1, <2>1, <2>4, <2>5, <3>1
      DEF IInv, VideoTypeOK, Channels, Moving, Good, DisplayAt, StreamAt, Settled,
          MenuAt, DisplayCheck
    <3> QED BY <2>3, <3>2 DEF IInv, PlaceInv, Names
  <2>6. CASE disp.state # "STOPPED"
    <3>1. PICK n \in {"LoopHead"} : Place(n, 1)'
      BY <1>1, <2>1, <2>4, <2>6, Lengths DEF Moving, DisplayCheck, Following, ProceedIf
    <3>2. Good(n, 1)'
      BY <1>1, <2>1, <2>4, <2>6, <3>1
      DEF IInv, VideoTypeOK, Channels, Moving, Good, DisplayAt, StreamAt, Settled,
          MenuAt, DisplayCheck
    <3> QED BY <2>3, <3>2 DEF IInv, PlaceInv, Names
  <2> QED BY <2>4, <2>5, <2>6
<1>2. CASE ParkReadChannel
  <2>1. PICK k \in Names, i \in 1 .. 20 : Moving("ParkReadChannel", k, i)
    BY <1>2, MainMoves, Zenon DEF ParkReadChannel
  <2>2. rd' \in Channels
    BY <1>2 DEF IInv, VideoTypeOK, Channels, Sizes, ParkReadChannel
  <2>3. VideoTypeOK'
    BY <1>2, <2>1, <2>2 DEF IInv, VideoTypeOK, Regs, Moving, ParkReadChannel, ProceedIf
  <2>4. (k = "DisplayStart" /\ i = 4) \/ (k = "DisplayChangeFrame" /\ i = 4)
    BY <2>1 DEF Moving, StepAt
  <2>5. CASE k = "DisplayStart" /\ rd.run
    <3>1. Place("DisplayStart", 5)'
      BY <1>2, <2>1, <2>4, <2>5, Lengths DEF Moving, ParkReadChannel, ProceedIf
    <3>2. Good("DisplayStart", 5)'
      BY <1>2, <2>1, <2>4, <2>5, <3>1
      DEF IInv, VideoTypeOK, Channels, Moving, Good, DisplayAt, StreamAt, Settled,
          MenuAt, ParkReadChannel
    <3> QED BY <2>3, <3>2 DEF IInv, PlaceInv, Names
  <2>6. CASE k = "DisplayChangeFrame" /\ rd.run
    <3>1. PICK n \in {"LoopHead"} : Place(n, 1)'
      BY <1>2, <2>1, <2>4, <2>6, Lengths DEF Moving, ParkReadChannel, Following, ProceedIf
    <3>2. Good(n, 1)'
      BY <1>2, <2>1, <2>4, <2>6, <3>1
      DEF IInv, VideoTypeOK, Channels, Moving, Good, DisplayAt, StreamAt, Settled,
          MenuAt, ParkReadChannel
    <3> QED BY <2>3, <3>2 DEF IInv, PlaceInv, Names
  <2>7. CASE k = "DisplayStart" /\ ~rd.run
    <3>1. PICK n \in {"LoopHead"} : Place(n, 1)'
      BY <1>2, <2>1, <2>4, <2>7, Lengths DEF Moving, ParkReadChannel, Following, ProceedIf
    <3>2. Good(n, 1)'
      BY <1>2, <2>1, <2>4, <2>7, <3>1
      DEF IInv, VideoTypeOK, Channels, Moving, Good, DisplayAt, StreamAt, Settled,
          MenuAt, ParkReadChannel
    <3> QED BY <2>3, <3>2 DEF IInv, PlaceInv, Names
  <2>8. CASE k = "DisplayChangeFrame" /\ ~rd.run
    <3>1. PICK n \in {"LoopHead"} : Place(n, 1)'
      BY <1>2, <2>1, <2>4, <2>8, Lengths DEF Moving, ParkReadChannel, Following, ProceedIf
    <3>2. Good(n, 1)'
      BY <1>2, <2>1, <2>4, <2>8, <3>1
      DEF IInv, VideoTypeOK, Channels, Moving, Good, DisplayAt, StreamAt, Settled,
          MenuAt, ParkReadChannel
    <3> QED BY <2>3, <3>2 DEF IInv, PlaceInv, Names
  <2> QED BY <2>4, <2>5, <2>6, <2>7, <2>8
<1>3. CASE DisplayDone
  <2>1. PICK k \in Names, i \in 1 .. 20 : Moving("DisplayDone", k, i)
    BY <1>3, MainMoves, Zenon DEF DisplayDone
  <2>2. disp' \in [state : {"STOPPED", "RUNNING"}, vMode : Modes, curFrame : Frames]
    BY <1>3 DEF IInv, VideoTypeOK, DisplayDone
  <2>3. VideoTypeOK'
    BY <1>3, <2>1, <2>2 DEF IInv, VideoTypeOK, Regs, Moving, DisplayDone
  <2>4. k = "DisplayStart" /\ i = 5
    BY <2>1 DEF Moving, StepAt
  <2>5. PICK n \in {"LoopHead"} : Place(n, 1)'
    BY <1>3, <2>1, <2>4, Lengths DEF Moving, DisplayDone, Following
  <2>6. Good(n, 1)'
    BY <1>3, <2>1, <2>4, <2>5
    DEF IInv, VideoTypeOK, Channels, Moving, Good, DisplayAt, StreamAt, Settled,
        MenuAt, DisplayDone
  <2> QED BY <2>3, <2>6 DEF IInv, PlaceInv, Names
<1>4. CASE SetDisplayFrame
  <2>1. PICK k \in Names, i \in 1 .. 20 : Moving("SetDisplayFrame", k, i)
    BY <1>4, MainMoves, Zenon DEF SetDisplayFrame
  <2>2. disp' \in [state : {"STOPPED", "RUNNING"}, vMode : Modes, curFrame : Frames]
    BY <1>4 DEF IInv, VideoTypeOK, SetDisplayFrame
  <2>3. VideoTypeOK'
    BY <1>4, <2>1, <2>2 DEF IInv, VideoTypeOK, Regs, Moving, SetDisplayFrame, ProceedIf
  <2>4. k = "DisplayChangeFrame" /\ i = 1
    BY <2>1 DEF Moving, StepAt
  <2>5. CASE disp.state = "RUNNING"
    <3>1. Place("DisplayChangeFrame", 2)'
      BY <1>4, <2>1, <2>4, <2>5, Lengths DEF Moving, SetDisplayFrame, ProceedIf
    <3>2. Good("DisplayChangeFrame", 2)'
      BY <1>4, <2>1, <2>4, <2>5, <3>1
      DEF IInv, VideoTypeOK, Channels, Moving, Good, DisplayAt, StreamAt, Settled,
          MenuAt, SetDisplayFrame
    <3> QED BY <2>3, <3>2 DEF IInv, PlaceInv, Names
  <2>6. CASE disp.state # "RUNNING"
    <3>1. PICK n \in {"LoopHead"} : Place(n, 1)'
      BY <1>4, <2>1, <2>4, <2>6, Lengths DEF Moving, SetDisplayFrame, Following, ProceedIf
    <3>2. Good(n, 1)'
      BY <1>4, <2>1, <2>4, <2>6, <3>1
      DEF IInv, VideoTypeOK, Channels, Moving, Good, DisplayAt, StreamAt, Settled,
          MenuAt, SetDisplayFrame
    <3> QED BY <2>3, <3>2 DEF IInv, PlaceInv, Names
  <2> QED BY <2>4, <2>5, <2>6
<1> QED BY <1>1, <1>2, <1>3, <1>4

\* The head of the loop.
LEMMA LoopStep ==
  ASSUME IInv, ClearRefresh \/ PrintMenu
  PROVE  IInv'
<1> USE DEF Steps, Writes, Reads, NoReg, drivers, menu, signal
<1>1. CASE ClearRefresh
  <2>1. PICK k \in Names, i \in 1 .. 20 : Moving("ClearRefresh", k, i)
    BY <1>1, MainMoves, Zenon DEF ClearRefresh
  <2>2. VideoTypeOK'
    BY <1>1, <2>1 DEF IInv, VideoTypeOK, Regs, Moving, ClearRefresh
  <2>3. k = "LoopHead" /\ i = 1
    BY <2>1 DEF Moving, StepAt
  <2>4. Place("LoopHead", 2)'
    BY <1>1, <2>1, <2>3, Lengths DEF Moving, ClearRefresh
  <2>5. Good("LoopHead", 2)'
    BY <1>1, <2>1, <2>3, <2>4
    DEF IInv, VideoTypeOK, Channels, Moving, Good, DisplayAt, StreamAt, Settled,
        MenuAt, ClearRefresh
  <2> QED BY <2>2, <2>5 DEF IInv, PlaceInv, Names
<1>2. CASE PrintState
  <2>1. PICK k \in Names, i \in 1 .. 20 : Moving("PrintState", k, i)
    BY <1>2, MainMoves, Zenon DEF PrintState
  <2>2. VideoTypeOK'
    BY <1>2, <2>1 DEF IInv, VideoTypeOK, Regs, Sizes, Moving, PrintState, ProceedIf
  <2>3. k = "LoopHead" /\ i = 2
    BY <2>1 DEF Moving, StepAt
  <2>4. CASE capt.state # "DISCONNECTED"
    <3>1. Place("LoopHead", 3)'
      BY <1>2, <2>1, <2>3, <2>4, Lengths DEF Moving, PrintState, ProceedIf
    <3>2. Good("LoopHead", 3)'
      BY <1>2, <2>1, <2>3, <2>4, <3>1
      DEF IInv, VideoTypeOK, Channels, Moving, Good, DisplayAt, StreamAt, Settled,
          MenuAt, PrintState
    <3> QED BY <2>2, <3>2 DEF IInv, PlaceInv, Names
  <2>5. CASE capt.state = "DISCONNECTED"
    <3>1. PICK n \in {"Waiting"} : Place(n, 1)'
      BY <1>2, <2>1, <2>3, <2>5, Lengths DEF Moving, PrintState, Following, ProceedIf
    <3>2. Good(n, 1)'
      BY <1>2, <2>1, <2>3, <2>5, <3>1
      DEF IInv, VideoTypeOK, Channels, Moving, Good, DisplayAt, StreamAt, Settled,
          MenuAt, PrintState, InputLine
    <3> QED BY <2>2, <3>2 DEF IInv, PlaceInv, Names
  <2> QED BY <2>4, <2>5
<1>3. CASE PrintTiming
  <2>1. PICK k \in Names, i \in 1 .. 20 : Moving("PrintTiming", k, i)
    BY <1>3, MainMoves, Zenon DEF PrintTiming
  <2>2. VideoTypeOK'
    BY <1>3, <2>1 DEF IInv, VideoTypeOK, Regs, Moving, PrintTiming
  <2>3. k = "LoopHead" /\ i = 3
    BY <2>1 DEF Moving, StepAt
  <2>4. PICK n \in {"Waiting"} : Place(n, 1)'
    BY <1>3, <2>1, <2>3, Lengths DEF Moving, PrintTiming, Following
  <2>5. Good(n, 1)'
    BY <1>3, <2>1, <2>3, <2>4
    DEF IInv, VideoTypeOK, Channels, Moving, Good, DisplayAt, StreamAt, Settled,
        MenuAt, PrintTiming, InputLine
  <2> QED BY <2>2, <2>5 DEF IInv, PlaceInv, Names
<1> QED BY <1>1, <1>2, <1>3 DEF PrintMenu

-----------------------------------------------------------------------------
(* The keys.                                                               *)

\* A key with two calls, the head of the loop after them.
LEMMA TwoCalls ==
  ASSUME NEW S, NEW a \in S, NEW b \in S, NEW l \in S, NEW s, s = <<a, b>> \o <<l>>
  PROVE  Begun(S, s, a, <<b, l>>)
<1> DEFINE u == <<a, b>>
           t == <<b, l>>
<1>1. u \in Seq(S) /\ Len(u) = 2 /\ u[1] = a /\ u[2] = b
  OBVIOUS
<1>2. t \in Seq(S) /\ Len(t) = 2 /\ t[1] = b /\ t[2] = l
  OBVIOUS
<1> DEFINE v == <<l>>
<1>3. v \in Seq(S) /\ Len(v) = 1 /\ v[1] = l /\ s = u \o v
  OBVIOUS
<1> HIDE DEF u, t, v
<1>4. Joins(S, s, u, v)
  BY <1>1, <1>3, Joined, Zenon
<1>5. s \in Seq(S) /\ Len(s) = 3 /\ s[1] = a /\ s[2] = b /\ s[3] = l
  BY <1>1, <1>3, <1>4 DEF Joins
<1>6. Tail(s) = t
  BY <1>2, <1>5
<1> QED BY <1>5, <1>6 DEF Begun, t

\* A key with four calls.
LEMMA FourCalls ==
  ASSUME NEW S, NEW a \in S, NEW b \in S, NEW c \in S, NEW d \in S, NEW l \in S,
         NEW s, s = <<a, b, c, d>> \o <<l>>
  PROVE  Begun(S, s, a, <<b, c, d, l>>)
<1> DEFINE u == <<a, b, c, d>>
           t == <<b, c, d, l>>
<1>1. u \in Seq(S) /\ Len(u) = 4 /\ u[1] = a /\ u[2] = b /\ u[3] = c /\ u[4] = d
  OBVIOUS
<1>2. t \in Seq(S) /\ Len(t) = 4 /\ t[1] = b /\ t[2] = c /\ t[3] = d /\ t[4] = l
  OBVIOUS
<1> DEFINE v == <<l>>
<1>3. v \in Seq(S) /\ Len(v) = 1 /\ v[1] = l /\ s = u \o v
  OBVIOUS
<1> HIDE DEF u, t, v
<1>4. Joins(S, s, u, v)
  BY <1>1, <1>3, Joined, Zenon
<1>5. /\ s \in Seq(S) /\ Len(s) = 5
      /\ s[1] = a /\ s[2] = b /\ s[3] = c /\ s[4] = d /\ s[5] = l
  BY <1>1, <1>3, <1>4 DEF Joins
<1>6. Tail(s) = t
  BY <1>2, <1>5
<1> QED BY <1>5, <1>6 DEF Begun, t

\* A list of calls is begun at the first step of its first call.
LEMMA Begins ==
  ASSUME NEW k \in Names, NEW s, s # <<>>, Head(s) = Calls[k], Tail(s) \in After(k),
         code' = s
  PROVE  Place(k, 1)'
<1> DEFINE c == Calls[k]
           m == Len(c)
<1>1. c \in Seq(StepNames) /\ m \in 1 .. 20
  BY CallsType
<1>2. SubSeq(c, 1, m) = c
  BY <1>1, SubSeqFull, Zenon
<1> HIDE DEF c, m
<1>3. 1 \in 1 .. m
  BY <1>1
<1>4. Head(code') = SubSeq(c, 1, m)
  BY <1>2 DEF c
<1>5. k # "Waiting"
  BY DEF Names
<1> QED BY <1>3, <1>4, <1>5 DEF Place, c, m

\* A key leads from the end of the loop to its first call.
LEMMA KeyPlace ==
  ASSUME NEW calls, NEW next, Key(calls, next), NEW k \in Names,
         \/ calls = <<>> /\ k = "LoopHead"
         \/ calls = <<Calls[k]>> /\ <<LoopHead>> \in After(k)
         \/ calls = <<<<"DemoChangeRes">>, DisplayStart>> /\ k = "DemoChangeRes"
         \/ calls = GrabFrame /\ k = "VideoStop"
  PROVE  Place(k, 1)' /\ code' \in Seq(Seq(StepNames))
<1> DEFINE S == Seq(StepNames)
           l == LoopHead
           s == code'
<1>1. s = calls \o <<l>>
  BY DEF Key
<1>2. /\ Calls[k] \in S /\ l \in S /\ VideoStop \in S /\ VideoStart \in S
      /\ DisplayChangeFrame \in S /\ DisplayStart \in S
  BY CallsType, ShortCalls, VideoStartSteps, DisplayChangeFrameSteps, DisplayStartSteps
<1>3. <<"DemoChangeRes">> \in S /\ <<"Copy">> \in S
  BY DEF StepNames
<1>4. l = Calls["LoopHead"]
  BY CallsByName
<1> HIDE DEF S, l, s
<1>5. CASE calls = <<>> /\ k = "LoopHead"
  <2>1. s = <<l>>
    BY <1>1, <1>2, <1>5
  <2>2. s \in Seq(S) /\ s # <<>> /\ Head(s) = l /\ Tail(s) = <<>>
    BY <1>2, <2>1
  <2>3. Tail(s) \in After(k)
    BY <1>5, <2>2 DEF After
  <2> QED BY <1>4, <1>5, <2>2, <2>3, Begins, Zenon DEF s, S
<1>6. CASE calls = <<Calls[k]>> /\ <<LoopHead>> \in After(k)
  <2>1. <<l>> \in Seq(S)
    BY <1>2
  <2>2. Begun(S, s, Calls[k], <<l>>)
    BY <1>1, <1>2, <1>6, <2>1, Proceeding, Zenon
  <2>3. Tail(s) \in After(k)
    BY <1>6, <2>2 DEF Begun, l
  <2> QED BY <2>2, <2>3, Begins, Zenon DEF Begun, s, S
<1>7. CASE calls = <<<<"DemoChangeRes">>, DisplayStart>> /\ k = "DemoChangeRes"
  <2>1. Begun(S, s, <<"DemoChangeRes">>, <<DisplayStart, l>>)
    BY <1>1, <1>2, <1>3, <1>7, TwoCalls, Zenon
  <2>2. Head(s) = Calls[k]
    BY <1>7, <2>1, CallsByName, Zenon DEF Begun
  <2>3. Tail(s) \in After(k)
    <3>1. After(k) = {<<Calls["DisplayStart"], Calls["LoopHead"]>>}
      BY <1>7 DEF After
    <3> QED BY <1>4, <2>1, <3>1, CallsByName DEF Begun
  <2> QED BY <2>1, <2>2, <2>3, Begins, Zenon DEF Begun, s, S
<1>8. CASE calls = GrabFrame /\ k = "VideoStop"
  <2>1. s = <<VideoStop, <<"Copy">>, VideoStart, DisplayChangeFrame>> \o <<l>>
    BY <1>1, <1>8, Zenon DEF GrabFrame
  <2>2. Begun(S, s, VideoStop, <<<<"Copy">>, VideoStart, DisplayChangeFrame, l>>)
    BY <2>1, <1>2, <1>3, FourCalls, Zenon
  <2>3. Head(s) = Calls[k]
    BY <1>8, <2>2, CallsByName, Zenon DEF Begun
  <2>4. Tail(s) \in After(k)
    <3>1. <<Calls["Copy"], Calls["VideoStart"], Calls["DisplayChangeFrame"],
            Calls["LoopHead"]>> \in After(k)
      BY <1>8 DEF After
    <3> QED BY <1>4, <2>2, <3>1, CallsByName, Zenon DEF Begun
  <2> QED BY <2>2, <2>3, <2>4, Begins, Zenon DEF Begun, s, S
<1> QED BY <1>5, <1>6, <1>7, <1>8

\* A key is pressed when nothing is left to do.
LEMMA KeyStep ==
  ASSUME IInv, NEW calls, NEW next \in Frames, Key(calls, next), NEW k \in Names,
         \/ calls = <<>> /\ k = "LoopHead"
         \/ calls = <<Calls[k]>> /\ <<LoopHead>> \in After(k)
         \/ calls = <<<<"DemoChangeRes">>, DisplayStart>> /\ k = "DemoChangeRes"
         \/ calls = GrabFrame /\ k = "VideoStop",
         k # "DisplayStart"
  PROVE  IInv'
<1> USE DEF drivers, menu, signal
<1>1. Place(k, 1)' /\ code' \in Seq(Seq(StepNames))
  BY KeyPlace, Zenon
<1>2. PICK j \in Names \cup {"Waiting"}, i \in 1 .. 20 : Good(j, i)
  BY DEF IInv, PlaceInv
<1>3. j = "Waiting"
  BY <1>2 DEF Good, Place, Key, Waiting
<1>4. Good(k, 1)'
  BY <1>1, <1>2, <1>3 DEF Good, DisplayAt, StreamAt, Settled, MenuAt, Key, Names
<1>5. VideoTypeOK'
  BY <1>1 DEF IInv, VideoTypeOK, Key
<1> QED BY <1>4, <1>5 DEF IInv, PlaceInv

\* The frame a key selects is one.
LEMMA FramesAfter ==
  ASSUME NEW f \in Frames
  PROVE  FrameAfter(f) \in Frames
BY VideoAssumption DEF Frames, FrameAfter

\* The loop of DemoRun.
LEMMA DemoRunStep ==
  ASSUME IInv, DemoRun
  PROVE  IInv'
<1>1. /\ nextFrame \in Frames
      /\ FrameAfter(disp.curFrame) \in Frames /\ FrameAfter(capt.curFrame) \in Frames
  BY FramesAfter DEF IInv, VideoTypeOK
<1>2. CASE ClearRefresh \/ PrintMenu
  BY <1>2, LoopStep
<1>3. CASE Refresh
  <2>1. Key(<<>>, nextFrame)
    BY <1>3 DEF Refresh
  <2>2. "LoopHead" \in Names /\ "LoopHead" # "DisplayStart"
    BY DEF Names
  <2> QED BY <1>1, <2>1, <2>2, KeyStep, Zenon
<1>4. CASE Key(<<<<"DemoChangeRes">>, DisplayStart>>, nextFrame)
  <2>1. "DemoChangeRes" \in Names /\ "DemoChangeRes" # "DisplayStart"
    BY DEF Names
  <2> QED BY <1>1, <1>4, <2>1, KeyStep, Zenon
<1>5. ASSUME NEW k \in {"DisplayChangeFrame", "VideoStop", "VideoStart",
                        "VideoChangeFrame"},
             NEW c, c = Calls[k], NEW next \in Frames, Key(<<c>>, next)
      PROVE  IInv'
  <2>1. k \in Names /\ k # "DisplayStart"
    BY DEF Names
  <2>2. <<LoopHead>> \in After(k)
    BY CallsByName DEF After
  <2>3. <<c>> = <<Calls[k]>>
    BY <1>5
  <2> QED BY <1>5, <2>1, <2>2, <2>3, KeyStep, Zenon
<1>6. CASE Key(<<DisplayChangeFrame>>, FrameAfter(disp.curFrame))
  BY <1>1, <1>5, <1>6, CallsByName
<1>7. CASE Key(<<ToggleStream>>, nextFrame)
  <2>1. ToggleStream = Calls["VideoStop"] \/ ToggleStream = Calls["VideoStart"]
    BY CallsByName DEF ToggleStream
  <2> QED BY <1>1, <1>5, <1>7, <2>1
<1>8. CASE Key(<<VideoChangeFrame>>, FrameAfter(capt.curFrame))
  BY <1>1, <1>5, <1>8, CallsByName
<1>9. CASE Key(GrabFrame, FrameAfter(capt.curFrame))
  <2>1. "VideoStop" \in Names /\ "VideoStop" # "DisplayStart"
    BY DEF Names
  <2> QED BY <1>1, <1>9, <2>1, KeyStep, Zenon
<1> QED BY <1>2, <1>3, <1>4, <1>6, <1>7, <1>8, <1>9 DEF DemoRun

\* The resolution menu: its call is followed by DisplayStart, or by the head of the loop.
LEMMA DemoChangeResStep ==
  ASSUME IInv, DemoChangeRes
  PROVE  IInv'
<1> USE DEF Steps, Reads, drivers, menu, signal
<1>1. PICK k \in Names, i \in 1 .. 20 : Moving("DemoChangeRes", k, i)
  BY MainMoves, Zenon DEF DemoChangeRes
<1>2. k = "DemoChangeRes" /\ i = 1
  BY <1>1 DEF Moving, StepAt
<1>3. ASSUME NEW m \in Modes, Proceed, Steps,
             disp' = [disp EXCEPT !.state = "STOPPED", !.vMode = m],
             rd' = [rd EXCEPT !.run = FALSE], UNCHANGED <<capt, wr, parkptr>>
      PROVE  IInv'
  <2>1. Place("DisplayStart", 1)'
    BY <1>1, <1>2, <1>3, Lengths DEF Moving, Following
  <2>2. Good("DisplayStart", 1)'
    BY <1>1, <1>2, <1>3, <2>1
    DEF IInv, VideoTypeOK, Channels, Moving, Good, DisplayAt, StreamAt, Settled, MenuAt
  <2>3. rd' \in Channels
    BY <1>3 DEF IInv, VideoTypeOK, Channels
  <2>4. disp' \in [state : {"STOPPED", "RUNNING"}, vMode : Modes, curFrame : Frames]
    BY <1>3 DEF IInv, VideoTypeOK
  <2>5. VideoTypeOK'
    BY <1>1, <1>3, <2>3, <2>4 DEF IInv, VideoTypeOK, Regs, Moving
  <2> QED BY <2>2, <2>5 DEF IInv, PlaceInv, Names
<1>4. ASSUME code' = Tail(Tail(code)), Steps, UNCHANGED drivers
      PROVE  IInv'
  <2>1. code \in Seq(Seq(StepNames)) /\ code # <<>> /\ Tail(code) \in After(k)
    BY <1>1, <1>2 DEF IInv, VideoTypeOK, Moving, Good, Place
  <2>2. Tail(code) = <<Calls["DisplayStart"], Calls["LoopHead"]>>
    BY <1>2, <2>1 DEF After
  <2>3. code' = <<Calls["LoopHead"]>>
    <3>1. \A a, b : Tail(<<a, b>>) = <<b>>
      OBVIOUS
    <3> QED BY <1>4, <2>2, <3>1, Zenon
  <2>4. /\ Calls["LoopHead"] \in Seq(StepNames) /\ "LoopHead" \in Names
        /\ After("LoopHead") = {<<>>}
    BY CallsType DEF Names, After
  <2>5. /\ code' \in Seq(Seq(StepNames)) /\ code' # <<>> /\ Head(code') = Calls["LoopHead"]
        /\ Tail(code') = <<>>
    BY <2>3, <2>4
  <2>6. Place("LoopHead", 1)'
    <3>1. Tail(code') \in After("LoopHead")
      BY <2>4, <2>5
    <3> QED BY <2>4, <2>5, <3>1, Begins, Zenon
  <2>7. Good("LoopHead", 1)'
    BY <1>1, <1>2, <1>4, <2>6 DEF Moving, Good, DisplayAt, StreamAt, Settled, MenuAt
  <2>8. VideoTypeOK'
    BY <1>4, <2>5 DEF IInv, VideoTypeOK, Regs
  <2> QED BY <2>7, <2>8, <2>4 DEF IInv, PlaceInv
<1> QED BY <1>3, <1>4 DEF DemoChangeRes

-----------------------------------------------------------------------------
(* The interrupts, at any step of main, and the source.                    *)

\* An interrupt handler.
LEMMA InterruptStep ==
  ASSUME IInv, GpioServe \/ VtcIsr
  PROVE  IInv'
<1> USE DEF main, drivers, menu
<1>1. PICK k \in Names \cup {"Waiting"}, i \in 1 .. 20 : Good(k, i)
  BY DEF IInv, PlaceInv
<1>2. CASE GpioIsr
  <2>1. Good(k, i)'
    BY <1>1, <1>2 DEF Good, Place, DisplayAt, StreamAt, Settled, MenuAt, InputLine, GpioIsr
  <2>2. VideoTypeOK'
    BY <1>2 DEF IInv, VideoTypeOK, Regs, GpioIsr
  <2> QED BY <2>1, <2>2 DEF IInv, PlaceInv
<1>3. CASE GpioLocked
  <2>1. Good(k, i)'
    BY <1>1, <1>3
    DEF Good, Place, DisplayAt, StreamAt, Settled, MenuAt, InputLine, GpioLocked
  <2>2. VideoTypeOK'
    BY <1>3 DEF IInv, VideoTypeOK, Regs, GpioLocked
  <2> QED BY <2>1, <2>2 DEF IInv, PlaceInv
<1>4. CASE GpioLost
  <2>1. Good(k, i)'
    BY <1>1, <1>4
    DEF IInv, VideoTypeOK, Good, Place, DisplayAt, StreamAt, Settled, MenuAt, InputLine,
        GpioLost
  <2>2. wr' \in Channels
    BY <1>4 DEF IInv, VideoTypeOK, GpioLost, ChannelReset, Channels, Sizes
  <2>3. capt' \in [state : {"DISCONNECTED", "STREAMING", "PAUSED"}, timing : Sizes,
                   curFrame : Frames, size : Sizes]
    BY <1>4 DEF IInv, VideoTypeOK, GpioLost
  <2>4. VideoTypeOK'
    BY <1>4, <2>2, <2>3 DEF IInv, VideoTypeOK, Regs, GpioLost
  <2> QED BY <2>1, <2>4 DEF IInv, PlaceInv
<1>5. CASE VtcIsr
  <2>1. Good(k, i)'
    BY <1>1, <1>5
    DEF IInv, VideoTypeOK, ParkPtrs, Good, Place, DisplayAt, StreamAt, Settled, MenuAt,
        VtcIsr, Parked
  <2>2. wr' \in Channels
    BY <1>5 DEF IInv, VideoTypeOK, VtcIsr, Channels
  <2>3. capt' \in [state : {"DISCONNECTED", "STREAMING", "PAUSED"}, timing : Sizes,
                   curFrame : Frames, size : Sizes]
    BY <1>5 DEF IInv, VideoTypeOK, VtcIsr
  <2>4. parkptr' \in ParkPtrs
    BY <1>5 DEF IInv, VideoTypeOK, VtcIsr, ParkPtrs, Parked
  <2>5. VideoTypeOK'
    BY <1>5, <2>2, <2>3, <2>4 DEF IInv, VideoTypeOK, Regs, VtcIsr
  <2> QED BY <2>1, <2>5 DEF IInv, PlaceInv
<1> QED BY <1>2, <1>3, <1>4, <1>5 DEF GpioServe

\* The source comes or goes; the signal is then no longer settled.
LEMMA SourceStep ==
  ASSUME IInv, Source
  PROVE  IInv'
<1> USE DEF main, drivers, menu
<1>1. PICK k \in Names \cup {"Waiting"}, i \in 1 .. 20 : Good(k, i)
  BY DEF IInv, PlaceInv
<1>2. Good(k, i)'
  BY <1>1
  DEF Good, Place, DisplayAt, StreamAt, Settled, MenuAt, InputLine, Source, Plug, Unplug
<1>3. VideoTypeOK'
  BY DEF IInv, VideoTypeOK, Sizes, Source, Plug, Unplug
<1> QED BY <1>2, <1>3 DEF IInv, PlaceInv

-----------------------------------------------------------------------------
(* The theorems.                                                           *)

\* The demo starts in it.
LEMMA InvInit == Init => IInv
<1> SUFFICES ASSUME Init PROVE IInv
  OBVIOUS
<1>1. LoopHead \in Seq(StepNames) /\ LoopHead = Calls["LoopHead"] /\ "LoopHead" \in Names
  BY ShortCalls, CallsByName DEF Names
<1>2. /\ code \in Seq(Seq(StepNames)) /\ code # <<>> /\ Head(code) = LoopHead
      /\ Tail(code) = <<>>
  BY <1>1 DEF Init
<1>3. Place("LoopHead", 1)
  <2> DEFINE c == Calls["LoopHead"]
  <2>1. SubSeq(c, 1, Len(c)) = c
    BY <1>1, SubSeqFull, Zenon
  <2>2. 1 \in 1 .. Len(c)
    BY Lengths
  <2>3. Tail(code) \in After("LoopHead")
    BY <1>2 DEF After
  <2> QED BY <1>1, <1>2, <2>1, <2>2, <2>3 DEF Place
<1>4. Good("LoopHead", 1)
  BY <1>3 DEF Good, DisplayAt, StreamAt, Settled, MenuAt, Init
<1>5. VideoTypeOK
  <2>1. NoReg \in Regs
    BY FirstFrame DEF NoReg, ParkPtrs, Regs, Sizes
  <2>2. wr \in Channels /\ rd \in Channels /\ parkptr \in ParkPtrs
    BY FirstFrame, VideoAssumption DEF Init, Channels, ParkPtrs, Sizes
  <2>3. /\ capt \in [state : {"DISCONNECTED", "STREAMING", "PAUSED"}, timing : Sizes,
                     curFrame : Frames, size : Sizes]
        /\ disp \in [state : {"STOPPED", "RUNNING"}, vMode : Modes, curFrame : Frames]
        /\ nextFrame \in Frames /\ shown \in Sizes /\ mode \in Sizes
    BY FirstFrame, VideoAssumption DEF Init, Sizes
  <2> QED BY <1>2, <2>1, <2>2, <2>3 DEF VideoTypeOK, Init, Regs
<1> QED BY <1>1, <1>4, <1>5 DEF IInv, PlaceInv

\* Every step keeps it.
LEMMA InvNext == IInv /\ [Next]_vars => IInv'
<1> SUFFICES ASSUME IInv, [Next]_vars PROVE IInv'
  OBVIOUS
<1>1. CASE VideoCalls
  BY <1>1, StopStep, RequestStep, ConfigStep, StartStep, ParkWriteStep, ChangeStep,
     ReadParkPtrStep
  DEF VideoCalls
<1>2. CASE DisplayCalls
  BY <1>2, DemoChangeResStep, DisplayStep, ReadParkPtrStep DEF DisplayCalls
<1>3. CASE DemoRun
  BY <1>3, DemoRunStep
<1>4. CASE GpioServe \/ VtcIsr
  BY <1>4, InterruptStep
<1>5. CASE Source
  BY <1>5, SourceStep
<1>6. CASE UNCHANGED vars
  <2> USE DEF vars, main, drivers, menu, signal
  <2>1. VideoTypeOK'
    BY <1>6 DEF IInv, VideoTypeOK, Regs
  <2>2. PICK k \in Names \cup {"Waiting"}, i \in 1 .. 20 : Good(k, i)
    BY DEF IInv, PlaceInv
  <2>3. Good(k, i)'
    BY <1>6, <2>2 DEF Good, Place, DisplayAt, StreamAt, Settled, MenuAt, InputLine
  <2> QED BY <2>1, <2>3 DEF IInv, PlaceInv
<1> QED BY <1>1, <1>2, <1>3, <1>4, <1>5, <1>6 DEF Next, MainStep

\* IInv holds in every state the demo reaches.
THEOREM VideoInvariant == Spec => []IInv
BY InvInit, InvNext, PTL DEF Spec

\* The registers hold frames and resolutions, and main is in one of its calls.
THEOREM VideoTypes == Spec => []VideoTypeOK
<1>1. IInv => VideoTypeOK
  BY DEF IInv
<1> QED BY <1>1, VideoInvariant, PTL

\* The menu of a demo that waits for a key says what the driver knows of the input, or
\* its refresh is due, wherever in the loop of DemoRun the callback came.
THEOREM MenuCurrent == Spec => []MenuIsCurrent
<1>1. IInv => MenuIsCurrent
  BY DEF IInv, PlaceInv, Good, Place, MenuAt, MenuIsCurrent, Waiting
<1> QED BY <1>1, VideoInvariant, PTL

\* Between two keys the display shows the frame and the resolution its driver says: the
\* writes of the input to PARKPTR, from its calls and its interrupts, never undo it.
THEOREM DisplayCorrect == Spec => []DisplayShowsFrame
<1>1. IInv => DisplayShowsFrame
  BY DEF IInv, PlaceInv, Good, Place, DisplayAt, DisplayShowsFrame
<1> QED BY <1>1, VideoInvariant, PTL

\* Once the signal has settled and been detected, its driver knows of it and of its
\* resolution, and a stream into memory has been told to stay in one frame, although main
\* and the handlers read and write the control register in the middle of each other.
THEOREM StreamCorrect == Spec => []StreamIsParked
<1>1. IInv => StreamIsParked
  BY DEF IInv, PlaceInv, Good, Place, StreamAt, StreamIsParked, Settled
<1> QED BY <1>1, VideoInvariant, PTL
=============================================================================
