---------------------------- MODULE VideoCapture ----------------------------
(***************************************************************************)
(* The HDMI demo: its menu loop (video_demo.c), the drivers of the display *)
(* and of the video input it calls (display_ctrl.c, video_capture.c), and  *)
(* the two interrupt handlers of the latter, which may come between any    *)
(* two steps of a call.  An interrupt handler is not interrupted.          *)
(*                                                                         *)
(* Both drivers use one VDMA.  Each direction has a control register of    *)
(* its own; PARKPTR, which says what frame each direction works on, is     *)
(* shared.  A step of main loads or stores what it shares with a handler   *)
(* at most once: where the driver changes a register by reading it and     *)
(* writing it back, or copies a field, there are two steps.                *)
(***************************************************************************)
EXTENDS Integers, Sequences

CONSTANTS
    NumFrames,  \* VIDEO_NUM_FRAMES, DISPLAY_NUM_FRAMES
    Modes,      \* resolutions of the source and of the display
    NoMode,     \* no resolution yet
    FirstMode   \* VMODE_640x480

ASSUME VideoAssumption ==
    NumFrames \in Nat \ {0} /\ FirstMode \in Modes /\ NoMode \notin Modes

VARIABLES
    code,       \* the calls main has still to make, each the steps left of it
    nextFrame,  \* nextFrame of DemoRun
    reg,        \* what main has loaded and not yet stored
    capt,       \* videoCapt: state, timing, curFrame, vdmaConfig.VertSizeInput
    disp,       \* dispCtrl: state, vMode, curFrame
    wr, rd,     \* the VDMA channels: CR (run, park), the size in the driver and in VSIZE
    parkptr,    \* PARKPTR: the frame read and the frame written
    fRefresh,
    shown,      \* what the menu says of the video input
    isr,        \* whether GpioIsr is between its two steps
    locked,     \* the source is connected and its clock is locked
    mode,       \* the resolution of the source
    pending,    \* the lock interrupt of the GPIO
    detecting   \* the timing detector is on and its interrupt is enabled

main == <<code, nextFrame, reg>>
drivers == <<capt, disp, wr, rd, parkptr>>
menu == <<fRefresh, shown>>
signal == <<isr, locked, mode, pending, detecting>>
vars == <<main, drivers, menu, signal>>

Frames == 0 .. NumFrames - 1

FrameAfterLast(f) == IF f + 1 > NumFrames THEN 0 ELSE f + 1   \* mutated: off by one

FrameAfter(f) == IF f + 1 >= NumFrames THEN 0 ELSE f + 1

NoReg == [ptr |-> [read |-> 0, write |-> 0], cr |-> [run |-> FALSE, park |-> FALSE],
          size |-> NoMode]
ChannelReset(ch) == [ch EXCEPT !.run = FALSE, !.park = FALSE, !.size = NoMode]
ControlOf(ch) == [run |-> ch.run, park |-> ch.park]

ParkedAlone(ptr, dir, f) ==   \* mutated: the mask takes the bits of both directions
    [[d \in DOMAIN ptr |-> 0] EXCEPT ![dir] = f]

\* StartParking keeps the bits of the other direction.
Parked(ptr, dir, f) == [ptr EXCEPT ![dir] = f]

-----------------------------------------------------------------------------
(* The calls, step by step.                                                *)

ParkWrite == <<"ReadParkPtr", "WriteWriteRef", "CheckRunning", "ReadParkCR", "WriteParkCR">>
ParkRead == <<"ReadParkPtr", "WriteReadRef", "ParkReadChannel">>
VideoStop == <<"StopCheck", "StopReset", "StopDone">>
VideoStart == <<"StartConnected", "StartIdle", "ReadTiming", "WriteRequest", "ReadRequest",
                "WriteChannel", "ReadConfigCR", "WriteConfigCR", "CheckHalted", "ReadStartCR",
                "WriteStartCR", "CheckStarted", "ReadVSize", "WriteVSize">> \o ParkWrite \o <<"StartDone">>
VideoChangeFrame == <<"SetVideoFrame", "ChangeCheck">> \o ParkWrite
DisplayStart == <<"DisplayCheck">> \o ParkRead \o <<"DisplayDone">>
DisplayChangeFrame == <<"SetDisplayFrame">> \o ParkRead

LoopHeadLate == <<"PrintState", "PrintTiming", "ClearRefresh">>   \* mutated: cleared when printed

\* The head of the loop of DemoRun.
LoopHead == <<"ClearRefresh", "PrintState", "PrintTiming">>

GrabFrame == <<VideoStop, <<"Copy">>, VideoStart, DisplayChangeFrame>>

Init ==
    /\ code = <<LoopHead>> /\ nextFrame = 0 /\ reg = NoReg
    /\ capt = [state |-> "DISCONNECTED", timing |-> NoMode, curFrame |-> 0, size |-> NoMode]
    /\ disp = [state |-> "RUNNING", vMode |-> FirstMode, curFrame |-> 0]
    /\ wr = [run |-> FALSE, park |-> FALSE, vsize |-> NoMode, size |-> NoMode]
    /\ rd = [run |-> TRUE, park |-> TRUE, vsize |-> FirstMode, size |-> FirstMode]
    /\ parkptr = [read |-> 0, write |-> 0]
    /\ fRefresh = FALSE /\ shown = NoMode
    /\ isr = "none" /\ mode = NoMode
    /\ locked = FALSE /\ pending = FALSE /\ detecting = FALSE

At(step) == isr = "none" /\ code # <<>> /\ Head(Head(code)) = step
Return == code' = Tail(code)
Proceed == IF Len(Head(code)) = 1 THEN Return
           ELSE code' = <<Tail(Head(code))>> \o Tail(code)
ProceedIf(ok) == IF ok THEN Proceed ELSE Return

\* The call goes on n steps further.
Skip(n) == code' = <<SubSeq(Head(code), n + 1, Len(Head(code)))>> \o Tail(code)

\* A step of main that reads a register, one that writes back what it read, and the others.
Reads(r) == reg' = r /\ UNCHANGED <<nextFrame, menu, signal>>
Writes == Reads(NoReg)
Steps == Reads(reg)

-----------------------------------------------------------------------------
(* VideoStop, VideoStart and VideoChangeFrame.                             *)

StopCheck == At("StopCheck") /\ ProceedIf(capt.state = "STREAMING") /\ Steps /\ UNCHANGED drivers

StopReset ==
    /\ At("StopReset") /\ Proceed /\ Steps
    /\ wr' = ChannelReset(wr) /\ UNCHANGED <<capt, disp, rd, parkptr>>

StopDone ==
    /\ At("StopDone") /\ Proceed /\ Steps
    /\ capt' = [capt EXCEPT !.state = "PAUSED"] /\ UNCHANGED <<disp, wr, rd, parkptr>>

StartConnected ==
    At("StartConnected") /\ ProceedIf(capt.state # "DISCONNECTED") /\ Steps /\ UNCHANGED drivers

StartIdle == At("StartIdle") /\ ProceedIf(capt.state # "STREAMING") /\ Steps /\ UNCHANGED drivers

\* The resolution goes from the timing to the request, and from there to the channel.
Loads(step, size) ==
    At(step) /\ Proceed /\ Reads([NoReg EXCEPT !.size = size]) /\ UNCHANGED drivers

ReadTiming == Loads("ReadTiming", capt.timing)

WriteRequest ==
    /\ At("WriteRequest") /\ Proceed /\ Writes
    /\ capt' = [capt EXCEPT !.size = reg.size] /\ UNCHANGED <<disp, wr, rd, parkptr>>

ReadRequest == Loads("ReadRequest", capt.size)

WriteChannel ==
    /\ At("WriteChannel") /\ Proceed /\ Writes
    /\ wr' = [wr EXCEPT !.vsize = reg.size] /\ UNCHANGED <<capt, disp, rd, parkptr>>

ReadConfigCR ==
    /\ At("ReadConfigCR") /\ Proceed /\ Reads([NoReg EXCEPT !.cr = ControlOf(wr)])
    /\ UNCHANGED drivers

\* EnableCircularBuf is set.
WriteConfigCR ==
    /\ At("WriteConfigCR") /\ Proceed /\ Writes
    /\ wr' = [wr EXCEPT !.run = reg.cr.run, !.park = FALSE] /\ UNCHANGED <<capt, disp, rd, parkptr>>

CheckHaltedOrDone ==   \* mutated: nothing is left to do for a channel that runs
    /\ At("CheckHalted") /\ Steps /\ UNCHANGED drivers
    /\ IF wr.run THEN code' = <<<<"StartDone">>>> \o Tail(code) ELSE Proceed

\* A channel that runs is not started again.
CheckHalted ==
    /\ At("CheckHalted") /\ Steps /\ UNCHANGED drivers
    /\ IF wr.run THEN Skip(3) ELSE Proceed

ReadStartCR ==
    /\ At("ReadStartCR") /\ Proceed /\ Reads([NoReg EXCEPT !.cr = ControlOf(wr)])
    /\ UNCHANGED drivers

WriteStartCR ==
    /\ At("WriteStartCR") /\ Proceed /\ Writes
    /\ wr' = [wr EXCEPT !.run = TRUE, !.park = reg.cr.park] /\ UNCHANGED <<capt, disp, rd, parkptr>>

\* A channel that does not run after all fails.
CheckStarted == At("CheckStarted") /\ ProceedIf(wr.run) /\ Steps /\ UNCHANGED drivers

ReadVSize == Loads("ReadVSize", wr.vsize)

WriteVSize ==
    /\ At("WriteVSize") /\ Proceed /\ Writes
    /\ wr' = [wr EXCEPT !.size = reg.size] /\ UNCHANGED <<capt, disp, rd, parkptr>>

ReadParkPtr ==
    /\ At("ReadParkPtr") /\ Proceed /\ Reads([NoReg EXCEPT !.ptr = parkptr]) /\ UNCHANGED drivers

WriteWriteRef ==
    /\ At("WriteWriteRef") /\ Proceed /\ Writes
    /\ parkptr' = Parked(reg.ptr, "write", capt.curFrame) /\ UNCHANGED <<capt, disp, wr, rd>>

CheckRunning == At("CheckRunning") /\ ProceedIf(wr.run) /\ Steps /\ UNCHANGED drivers

ReadParkCR ==
    /\ At("ReadParkCR") /\ Proceed /\ Reads([NoReg EXCEPT !.cr = ControlOf(wr)]) /\ UNCHANGED drivers

WriteParkCR ==
    /\ At("WriteParkCR") /\ Proceed /\ Writes
    /\ wr' = [wr EXCEPT !.run = reg.cr.run, !.park = TRUE] /\ UNCHANGED <<capt, disp, rd, parkptr>>

StartDone ==
    /\ At("StartDone") /\ Proceed /\ Steps
    /\ capt' = [capt EXCEPT !.state = "STREAMING"] /\ UNCHANGED <<disp, wr, rd, parkptr>>

SetVideoFrame ==
    /\ At("SetVideoFrame") /\ Proceed /\ Steps
    /\ capt' = [capt EXCEPT !.curFrame = nextFrame] /\ UNCHANGED <<disp, wr, rd, parkptr>>

ChangeCheck == At("ChangeCheck") /\ ProceedIf(capt.state = "STREAMING") /\ Steps /\ UNCHANGED drivers

Copy == At("Copy") /\ Proceed /\ Steps /\ UNCHANGED drivers

VideoCalls ==
    \/ StopCheck \/ StopReset \/ StopDone \/ StartConnected \/ StartIdle
    \/ ReadTiming \/ WriteRequest \/ ReadRequest \/ WriteChannel \/ ReadConfigCR
    \/ WriteConfigCR \/ CheckHalted \/ ReadStartCR \/ WriteStartCR
    \/ CheckStarted \/ ReadVSize \/ WriteVSize
    \/ ReadParkPtr \/ WriteWriteRef \/ CheckRunning \/ ReadParkCR \/ WriteParkCR \/ StartDone
    \/ SetVideoFrame \/ ChangeCheck \/ Copy

-----------------------------------------------------------------------------
(* The display: no interrupt handler uses its channel or its state, so     *)
(* what lies between two accesses to PARKPTR is one step.                  *)

\* A key of the resolution menu: DisplayStop and DisplaySetMode; 'q' leaves it.
DemoChangeRes ==
    /\ At("DemoChangeRes") /\ Steps
    /\ \/ \E m \in Modes :
             /\ Proceed
             /\ disp' = [disp EXCEPT !.state = "STOPPED", !.vMode = m]
             /\ rd' = [rd EXCEPT !.run = FALSE]
             /\ UNCHANGED <<capt, wr, parkptr>>
       \/ code' = Tail(Tail(code)) /\ UNCHANGED drivers

DisplayCheck ==
    /\ At("DisplayCheck") /\ ProceedIf(disp.state = "STOPPED") /\ Steps
    /\ rd' = IF disp.state = "STOPPED"
             THEN [run |-> TRUE, park |-> FALSE, vsize |-> disp.vMode, size |-> disp.vMode]
             ELSE rd
    /\ UNCHANGED <<capt, disp, wr, parkptr>>

WriteReadRef ==
    /\ At("WriteReadRef") /\ Proceed /\ Writes
    /\ parkptr' = Parked(reg.ptr, "read", disp.curFrame) /\ UNCHANGED <<capt, disp, wr, rd>>

ParkReadChannel ==
    /\ At("ParkReadChannel") /\ ProceedIf(rd.run) /\ Steps
    /\ rd' = [rd EXCEPT !.park = rd.park \/ rd.run] /\ UNCHANGED <<capt, disp, wr, parkptr>>

DisplayDone ==
    /\ At("DisplayDone") /\ Proceed /\ Steps
    /\ disp' = [disp EXCEPT !.state = "RUNNING"] /\ UNCHANGED <<capt, wr, rd, parkptr>>

SetDisplayFrame ==
    /\ At("SetDisplayFrame") /\ ProceedIf(disp.state = "RUNNING") /\ Steps
    /\ disp' = [disp EXCEPT !.curFrame = nextFrame] /\ UNCHANGED <<capt, wr, rd, parkptr>>

DisplayCalls ==
    DemoChangeRes \/ DisplayCheck \/ WriteReadRef \/ ParkReadChannel \/ DisplayDone \/ SetDisplayFrame

-----------------------------------------------------------------------------
(* The loop of DemoRun.                                                    *)

ClearRefresh ==
    /\ At("ClearRefresh") /\ Proceed
    /\ fRefresh' = FALSE /\ UNCHANGED <<nextFrame, reg, shown, drivers, signal>>

\* What the menu says of the video input: the resolution, or that it is unplugged.
InputLine == IF capt.state = "DISCONNECTED" THEN NoMode ELSE capt.timing

\* Which of the two it says, and the resolution.
PrintState ==
    /\ At("PrintState") /\ ProceedIf(capt.state # "DISCONNECTED")
    /\ shown' = IF capt.state = "DISCONNECTED" THEN NoMode ELSE shown
    /\ UNCHANGED <<nextFrame, reg, fRefresh, drivers, signal>>

PrintTiming ==
    /\ At("PrintTiming") /\ Proceed
    /\ shown' = capt.timing /\ UNCHANGED <<nextFrame, reg, fRefresh, drivers, signal>>

PrintMenu == PrintState \/ PrintTiming

Waiting == code = <<>> /\ isr = "none"

\* A key is pressed, and its calls follow.
Key(calls, next) ==
    /\ Waiting
    /\ code' = calls \o <<LoopHead>> /\ nextFrame' = next
    /\ UNCHANGED <<reg, drivers, menu, signal>>

ToggleStream == IF capt.state = "STREAMING" THEN VideoStop ELSE VideoStart

\* No key, but the callback has asked for the menu to be printed again.
Refresh == fRefresh /\ Key(<<>>, nextFrame)

DemoRun ==
    \/ ClearRefresh \/ PrintMenu \/ Refresh
    \/ Key(<<<<"DemoChangeRes">>, DisplayStart>>, nextFrame)            \* '1'
    \/ Key(<<DisplayChangeFrame>>, FrameAfter(disp.curFrame))           \* '2'
    \/ Key(<<ToggleStream>>, nextFrame)                                 \* '5'
    \/ Key(<<VideoChangeFrame>>, FrameAfter(capt.curFrame))             \* '6'
    \/ Key(GrabFrame, FrameAfter(capt.curFrame))                        \* '7', '8'

MainStep == VideoCalls \/ DisplayCalls \/ DemoRun

-----------------------------------------------------------------------------
(* The interrupt handlers, and the source.                                 *)

\* The interrupt is cleared, and the lock read after that.
GpioIsr ==
    /\ isr = "none" /\ pending
    /\ isr' = "gpio" /\ pending' = FALSE
    /\ UNCHANGED <<main, drivers, menu, locked, mode, detecting>>

\* Lock: the detector and its interrupt are enabled.
GpioLocked ==
    /\ isr = "gpio" /\ locked
    /\ isr' = "none" /\ detecting' = TRUE
    /\ UNCHANGED <<main, drivers, menu, locked, mode, pending>>

\* Lost: VideoStop, the interrupt of the detector off, the callback.
GpioLost ==
    /\ isr = "gpio" /\ ~locked
    /\ isr' = "none" /\ detecting' = FALSE
    /\ wr' = IF capt.state = "STREAMING" THEN ChannelReset(wr) ELSE wr
    /\ fRefresh' = (fRefresh \/ capt.state # "DISCONNECTED")
    /\ capt' = [capt EXCEPT !.state = "DISCONNECTED"]
    /\ UNCHANGED <<main, disp, rd, parkptr, shown, locked, mode, pending>>

\* The detector has locked; VideoStart runs from beginning to end (startOnDetect).
VtcIsr ==
    /\ isr = "none" /\ detecting /\ locked
    /\ detecting' = FALSE /\ fRefresh' = TRUE
    /\ capt' = [capt EXCEPT !.state = "STREAMING", !.timing = mode, !.size = mode]
    /\ wr' = [run |-> TRUE, park |-> TRUE, vsize |-> mode, size |-> mode]
    /\ parkptr' = Parked(parkptr, "write", capt.curFrame)
    /\ UNCHANGED <<main, disp, rd, shown, isr, locked, mode, pending>>

Plug(m) ==
    /\ ~locked
    /\ locked' = TRUE /\ mode' = m /\ pending' = TRUE
    /\ UNCHANGED <<main, drivers, menu, isr, detecting>>

Unplug ==
    /\ locked
    /\ locked' = FALSE /\ mode' = NoMode /\ pending' = TRUE
    /\ UNCHANGED <<main, drivers, menu, isr, detecting>>

GpioServe == GpioIsr \/ GpioLocked \/ GpioLost
Source == Unplug \/ \E m \in Modes : Plug(m)

Next == MainStep \/ GpioServe \/ VtcIsr \/ Source

Spec == Init /\ [][Next]_vars

\* The processor goes on with a call it has begun, prints the menu when asked to and
\* serves its interrupts; a key may never come.
FairSpec ==
    /\ Spec
    /\ WF_vars(VideoCalls \/ (DisplayCalls /\ ~At("DemoChangeRes")) \/ ClearRefresh \/ PrintMenu)
    /\ WF_vars(Refresh) /\ WF_vars(GpioServe) /\ WF_vars(VtcIsr)

-----------------------------------------------------------------------------
(* Correctness.                                                            *)

Sizes == Modes \cup {NoMode}
StepNames == {"StopCheck", "StopReset", "StopDone", "StartConnected", "StartIdle", "ReadTiming",
              "WriteRequest", "ReadRequest", "WriteChannel", "ReadConfigCR", "WriteConfigCR",
              "CheckHalted", "ReadStartCR", "WriteStartCR", "CheckStarted", "ReadVSize",
              "WriteVSize", "ReadParkPtr", "WriteWriteRef", "CheckRunning", "ReadParkCR",
              "WriteParkCR", "StartDone", "SetVideoFrame", "ChangeCheck", "Copy",
              "DemoChangeRes", "DisplayCheck", "WriteReadRef", "ParkReadChannel", "DisplayDone",
              "SetDisplayFrame", "ClearRefresh", "PrintState", "PrintTiming"}
Channels == [run : BOOLEAN, park : BOOLEAN, vsize : Sizes, size : Sizes]
ParkPtrs == [read : Frames, write : Frames]

\* The registers hold frames and resolutions, and main is in one of its calls.
VideoTypeOK ==
    /\ code \in Seq(Seq(StepNames)) /\ nextFrame \in Frames
    /\ reg \in [ptr : ParkPtrs, cr : [run : BOOLEAN, park : BOOLEAN], size : Sizes]
    /\ capt \in [state : {"DISCONNECTED", "STREAMING", "PAUSED"}, timing : Sizes,
                 curFrame : Frames, size : Sizes]
    /\ disp \in [state : {"STOPPED", "RUNNING"}, vMode : Modes, curFrame : Frames]
    /\ wr \in Channels /\ rd \in Channels /\ parkptr \in ParkPtrs
    /\ shown \in Sizes /\ mode \in Sizes /\ isr \in {"none", "gpio"}
    /\ {fRefresh, locked, pending, detecting} \subseteq BOOLEAN

\* While the demo waits for a key and no refresh is due, the menu says what the driver
\* knows of the input, wherever in the loop an interrupt came.
MenuIsCurrent == Waiting /\ ~fRefresh => shown = InputLine

\* Between two keys the display shows the frame and the resolution its driver says,
\* although the video input writes the register that selects the frame.
DisplayShowsFrame ==
    code = <<>> => /\ disp.state = "RUNNING" /\ rd.run /\ rd.park
                   /\ parkptr.read = disp.curFrame /\ rd.size = disp.vMode

\* Once the signal has settled and been detected, its driver knows of it and of its
\* resolution, and a stream into memory is told to stay in one frame, whatever calls and
\* interrupts the signal came and went under and whichever of them wrote the control
\* register of the channel last.
Settled == locked /\ ~pending /\ ~detecting /\ isr = "none"

StreamIsParked ==
    Settled /\ code = <<>> =>
        /\ capt.state # "DISCONNECTED" /\ capt.timing = mode
        /\ capt.state = "STREAMING" => wr.park

\* A source that stays connected is on the menu in the end, whatever came before and
\* wherever its lock was noticed, if the user leaves the resolution menu again.
ShowsInput == <>[]locked /\ []<>Waiting => <>[](shown = mode)

\* What VideoInitialize says may be done "at will" leaves the driver with the state of
\* its input: no signal, DISCONNECTED.
StateIsTrue == Waiting /\ ~locked /\ ~pending => capt.state = "DISCONNECTED"

\* The state XVideoState_STREAMING says that there is a stream: the channel runs.
StreamRuns == Settled /\ code = <<>> /\ capt.state = "STREAMING" => wr.run

\* A stream has the size of the picture.
StreamHasSize == Settled /\ code = <<>> /\ capt.state = "STREAMING" /\ wr.run => wr.size = mode

\* A stream goes into the frame VideoChangeFrame has been given.
StreamsIntoCurFrame == code = <<>> /\ capt.state = "STREAMING" => parkptr.write = capt.curFrame

\* VideoStop halts the stream into memory.
PausedMeansHalted == code = <<>> /\ capt.state = "PAUSED" => ~wr.run
=============================================================================
