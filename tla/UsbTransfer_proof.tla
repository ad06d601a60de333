-------------------------- MODULE UsbTransfer_proof --------------------------
(***************************************************************************)
(* The transfers of an IN endpoint and the SETUP packets of its number,    *)
(* for every packet size, every transfer of up to two packets, any         *)
(* contents of SETUP packets and any number of lost handshakes: what the   *)
(* host acknowledges, what the descriptor counts and what the registers    *)
(* tell the driver agree at every clock.                                   *)
(*                                                                         *)
(* N is the endpoint number, X its IN endpoint.  The invariant says in     *)
(* which phase a transfer is (Loaded, Owing, Resending, Counted; Fresh,    *)
(* Blocked, Answered for one of no bytes), where the manager may be in     *)
(* each phase, and how far a SETUP packet has come.                        *)
(***************************************************************************)
EXTENDS UsbTransfer, TLAPS

\* The number of the endpoints in use, and the IN endpoint.
N == CHOOSE n \in 0 .. 11 : n + 16 \in Endpoints
X == In(N)

\* The settings of the theorems: one endpoint number with its IN endpoint, one
\* dTD of at most two packets per transfer, a driver that takes these
\* precautions.  Without the first, the second or the bound of two packets a
\* property below is false (README, section 3.3); a second dTD is never sent.
Settings ==
  /\ \E n \in 0 .. 11 : In(n) \in Endpoints /\ Endpoints \subseteq {n, In(n)}
  /\ {"direction", "write", "ack"} \subseteq Discipline
  /\ \A l \in DtdLists : Len(l) = 1 /\ l[1] <= 2 * FifoSize

\* The states of the manager, by what it serves.
SetupStates == {"SETUP_LOCKOUT_TRIPWIRE", "SETUP_UPDATE_SETUP_BYTES", "SETUP_WAIT1",
                "SETUP_S2MM", "SETUP_UPDATE_ENDPTSETUP_RECEIVED", "SETUP_WAIT2"}
FetchStates == {"PRIME_MM2S_DQH", "PRIME_WAIT0", "PRIME_MM2S_DTD"}
FillStates  == {"PRIME_FILL_FIFO", "PRIME_FILL_FIFO_1", "PRIME_FILL_FIFO_2"}
PrimeWaits  == {"PRIME_WAIT1", "PRIME_WAIT2"}
InStates    == {"START_IN_FRAMEWORK", "IN_HANDSHAKE", "IN_WAIT0", "IN_CHECK_COMPLETE",
                "IN_TRANSFER_MM2S", "IN_RELOAD_BUFFER", "IN_WAIT1", "IN_TRANSACTION_COMPLETE"}

\* A packet is loaded, or was.
Between     == {"PRIME_WAIT1", "PRIME_WAIT2", "IDLE", "START_IN_FRAMEWORK", "IN_WAIT1"}

\* A strobe on one bit; the bytes queued (S) and left in the dTD (T) of the IN
\* endpoint; the packet that comes next when m bytes are left.
Signal(kind, e) == [kind |-> kind, bit |-> e]
S == lists[X][1]
T == context[X].total
Least(m) == IF m < FifoSize THEN m ELSE FifoSize

\* The IN endpoint has a transfer, or a request for one; a transfer of no bytes.
Active    == X \in stat
Requested == prime = {X} \/ write = Signal("prime", X)
ZActive   == Active /\ S = 0

\* What each variable may hold: the registers, the DMA side, bus and driver.
TypesReg ==
  /\ state \in {"IDLE"} \cup SetupStates \cup FetchStates \cup FillStates \cup PrimeWaits \cup InStates
  /\ endpt \in {0, N, X} /\ arbEndpt \in {0, N, X}
  /\ primeSel \in {None, N, X} /\ setupSel \in {None, N} /\ tokenSel \in {None, X}
  /\ prime \in {{}, {N}, {X}}
  /\ stat \subseteq {N, X} /\ complete \in {{}, {X}} /\ flush \in {{}, {X}}
  /\ setupStat \in {{}, {N}} /\ setupStatQ \in {{}, {N}} /\ setupRec \in {{}, {N}}
  /\ inToken \in {{}, {X}} /\ inComplete \in {{}, {X}} /\ resend \in {{}, {X}}
  /\ flushClear \in BOOLEAN /\ setupAck \in BOOLEAN /\ zlpPush \in BOOLEAN /\ cntValid \in BOOLEAN
  /\ clearOff \in 0 .. 3
  /\ zlp \in {{}, {X}} /\ zlp_q \in {{}, {X}}
  /\ zlpMask \in {{}, {N}, {X}} /\ zlpCross \in {None, {}, {X}}
  /\ cntData \in Nat
  /\ cntLoc \in [Numbers -> (0 .. FifoSize) \cup {None}]
  /\ setupBuf \in Setups \cup {None}
  /\ lists \in [Endpoints -> DtdLists \cup {<<>>}]
  /\ pulse \in {None, Signal("token", X), Signal("complete", X), Signal("resend", X), Signal("setup", N)}
  /\ write \in {None, Signal("complete", X), Signal("setupStat", N), Signal("prime", N), Signal("prime", X)}
TypesDma ==
  /\ context \in [Endpoints -> [total : 0 .. 2 ^ 15 - 1, base : Nat, index : Nat, last : BOOLEAN]]
  /\ addr \in [Numbers -> Nat] /\ addr_q \in [Numbers -> Nat]
  /\ inLength \in 0 .. FifoSize
  /\ txFifo = None \/ (txFifo \in Packets /\ txFifo.len \in 1 .. FifoSize /\ txFifo.number = N)
  /\ dqhSetup \in Setups \cup {None} /\ memSetup \in Setups \cup {None}
TypesBus ==
  /\ uZlp \in {{}, {X}} /\ content \in [Numbers -> Nat]
  /\ ready \in [Numbers -> (1 .. FifoSize) \cup {None}]
  /\ acked \in [Endpoints -> Seq(Nat \X Nat)]
  /\ bus = None \/ (bus \in Sent /\ bus.number = N /\ bus.len <= FifoSize)
  /\ control \in {"idle", "setup", "answer", "data"} /\ timeouts \in Nat
Types == TypesReg /\ TypesDma /\ TypesBus

\* Which endpoint the manager works on.
Place ==
  /\ state \in SetupStates => endpt = N
  /\ state \in FetchStates => endpt \in Endpoints /\ lists[endpt] # <<>>
  /\ state \in FetchStates /\ endpt = X => prime = {X} /\ primeSel = X
  /\ state \in FillStates => endpt = X /\ prime = {X} /\ primeSel = X
  /\ state \in FillStates \cup {"PRIME_WAIT0", "PRIME_MM2S_DTD"} /\ endpt = X => arbEndpt = X
  /\ state \in PrimeWaits => endpt \in Endpoints /\ (endpt = X => Active)
  /\ state \in InStates => Active
  /\ N \in prime \/ write = Signal("prime", N) \/ primeSel = N => N \in Endpoints /\ lists[N] # <<>>
  /\ prime = {X} \/ write = Signal("prime", X) \/ primeSel = X => lists[X] # <<>>
  /\ primeSel = X => prime = {X} \/ (Active /\ state = "PRIME_WAIT1")

\* During a transfer the manager is in its IN states, or between them, and
\* nothing else is under way.
Calm ==
  Active =>
  /\ endpt = X /\ arbEndpt = X
  /\ state \in InStates \cup PrimeWaits \cup {"IDLE"}
  /\ prime = {} /\ (primeSel = None \/ (primeSel = X /\ state = "PRIME_WAIT1"))
  /\ write = None /\ complete = {} /\ flush = {} /\ setupSel = None
  /\ setupRec = {} /\ setupStat = {} /\ setupStatQ = {} /\ pulse # Signal("setup", N)
  /\ Control = None \/ control = "data"

\* Without a transfer no packet is loaded and no event of one is pending.
Unloaded  == txFifo = None /\ ready[N] = None /\ bus = None
NoReport  == pulse \in {None, Signal("setup", N)} /\ inToken = {} /\ inComplete = {} /\ resend = {}
Off ==
  ~Active => /\ Unloaded /\ NoReport /\ tokenSel = None /\ inLength = 0 /\ clearOff = 0

\* The driver's side of a transfer.
Driver ==
  /\ Requested => /\ ~Active /\ complete = {} /\ acked[X] = <<>>
                  /\ write \in {None, Signal("prime", X)}
  /\ prime = {X} => write = None
  /\ Active \/ complete = {X} => lists[X] # <<>>
  /\ write = Signal("complete", X) => complete = {X}
  /\ write = Signal("setupStat", N) => control = "answer"

\* What the host has acknowledged: the first packet, then the rest.
History ==
  /\ lists[X] = <<>> => acked[X] = <<>>
  /\ Len(acked[X]) <= 2
  /\ Len(acked[X]) >= 1 => acked[X][1] = IF S = 0 THEN <<0, 0>> ELSE <<BufferOf(X), Least(S)>>
  /\ Len(acked[X]) = 2 => S > FifoSize /\ acked[X][2] = <<BufferOf(X) + FifoSize, S - FifoSize>>
  /\ ~Requested /\ ~Active /\ lists[X] # <<>> =>
        acked[X] # <<>> /\ (S > FifoSize => Len(acked[X]) = 2)

\* The SETUP packet: where it is on its way to the driver while the control
\* transfer is at each of its stages.
NoSetup   == setupRec = {} /\ pulse # Signal("setup", N) 
TailOver  == setupSel = None /\ state \notin SetupStates
Trailing  == \/ setupSel = None /\ state \notin SetupStates \ {"SETUP_WAIT2"}
             \/ state = "SETUP_UPDATE_ENDPTSETUP_RECEIVED" /\ setupAck
SetupWay ==
  \/ /\ pulse = Signal("setup", N) /\ setupRec = {} /\ TailOver /\ setupStat = {} /\ setupStatQ = {}
  \/ /\ pulse = None /\ setupRec = {N} /\ setupStat = {} /\ setupStatQ = {} /\ ~setupAck
     /\ state \notin {"SETUP_UPDATE_ENDPTSETUP_RECEIVED", "SETUP_WAIT2"}
     /\ state \in {"SETUP_WAIT1", "SETUP_S2MM"} => dqhSetup = setupBuf
  \/ /\ pulse = None /\ setupRec = {N} /\ setupStat = {} /\ setupStatQ = {N} /\ ~setupAck
     /\ state = "SETUP_UPDATE_ENDPTSETUP_RECEIVED" /\ memSetup = setupBuf
  \/ /\ pulse = None /\ setupRec = {} /\ setupStat = {N} /\ setupStatQ = {} /\ Trailing
     /\ memSetup = setupBuf
Cleared == complete = {X} => write = Signal("complete", X)
SetupPath ==
  /\ Control = None => control = "idle"
  /\ control = "idle" => NoSetup /\ TailOver /\ setupStat = {} /\ setupStatQ = {}
  /\ control = "idle" /\ Control # None => ~Requested /\ ~Active /\ Cleared
  /\ control = "setup" => SetupWay /\ ~Requested /\ ~Active /\ zlpMask = {N} /\ Cleared
  /\ control = "answer" =>
       /\ NoSetup /\ Trailing /\ setupStatQ = {} /\ ~Requested /\ ~Active /\ zlpMask = {N} /\ Cleared
       /\ setupStat = {N} => write = Signal("setupStat", N) /\ memSetup = setupBuf
  /\ control = "data" => /\ NoSetup /\ Trailing /\ setupStatQ = {} /\ setupStat = {}
                         /\ (Requested \/ TailOver)
                         /\ (Requested => zlpMask = {N})
                         /\ write # Signal("complete", X)
  /\ flush # {} => state \in {"SETUP_UPDATE_SETUP_BYTES", "SETUP_WAIT1"}
  /\ state = "SETUP_WAIT1" /\ flush # {} => flushClear

\* The request of a zero-length packet and its crossing to the ULPI side.
ZeroOver == zlp = {} /\ zlp_q = {}
Zero ==
  /\ ~ZActive => ZeroOver
  /\ zlpMask # {X} /\ ~ZActive => uZlp = {} /\ zlpCross = None /\ ~zlpPush
  /\ zlpMask = {X} => /\ zlpCross # {X} /\ ~(zlpPush /\ zlp # {})
                      /\ (uZlp = {} \/ zlp = {X} \/ zlp_q = {X} \/ zlpPush \/ zlpCross = {})
                      /\ (zlp = {X} /\ zlp_q = {} => clearOff = 0)
  /\ ZActive /\ zlpMask # {X} => zlp = {X} /\ acked[X] = <<>>
  /\ bus # None => ZlpSettled

\* The bytes of the first k packets; the packets acknowledged; the packet the
\* descriptor says comes next, where it is, and where a reload takes it from.
Gone(k) == IF k = 0 THEN 0 ELSE IF k = 1 THEN Least(S) ELSE S
K == Len(acked[X])
Reloads == inLength = 0 \/ (inLength = Least(T) /\ addr_q[N] = BufferOf(X) + S - T)
Packet  == [from |-> BufferOf(X) + S - T, len |-> Least(T), number |-> N]
OnBus(c) == [number |-> N, from |-> Packet.from, len |-> Packet.len, counted |-> c]
Held ==
  \/ txFifo = Packet /\ ready[N] = None /\ bus = None
  \/ /\ txFifo = None /\ ready[N] = Packet.len /\ content[N] = Packet.from
     /\ bus \in {None, OnBus(FALSE)}
  \/ txFifo = None /\ ready[N] = None /\ bus = OnBus(TRUE)
  \/ Unloaded /\ (pulse = Signal("resend", X) \/ resend = {X} \/ MaxTimeouts > 1)
SecondAt == S > FifoSize => addr[N] = BufferOf(X) + FifoSize

\* The phases of a transfer with bytes to send.
\* Loaded: the next packet is on its way to the host.
Loaded ==
  /\ state \in Between /\ K <= 1 /\ T = S - Gone(K) /\ T > 0
  /\ pulse # Signal("complete", X) /\ inComplete = {}
  /\ Held /\ Reloads
  /\ resend = {X} => Unloaded /\ pulse = None
  /\ pulse = Signal("resend", X) => Unloaded
  /\ K = 0 => SecondAt

\* Owing: the host has acknowledged a packet the manager has not counted yet.
Owing ==
  /\ K \in {1, 2} /\ T = S - Gone(K - 1) /\ Unloaded /\ resend = {}
  /\ cntLoc[N] = acked[X][K][2]
  /\ \/ /\ pulse = Signal("complete", X) /\ inComplete = {} /\ state \in Between
     \/ /\ pulse = None /\ inComplete = {X} /\ state \in Between
        /\ clearOff <= 2 /\ cntValid /\ cntData = cntLoc[N]
     \/ /\ pulse = None /\ inComplete = {} /\ inToken = {} /\ state = "IN_HANDSHAKE"
        /\ clearOff <= 1 /\ cntValid /\ cntData = cntLoc[N]
  /\ K = 1 => SecondAt
Quietly == pulse = None /\ inToken = {} /\ inComplete = {} /\ bus = None

\* Resending: the handshake of the packet was lost, and it is loaded again.
Resending ==
  /\ state \in {"IN_HANDSHAKE", "IN_WAIT0", "IN_RELOAD_BUFFER"}
  /\ K <= 1 /\ T = S - Gone(K) /\ T > 0 /\ Unloaded /\ Quietly
  /\ resend = IF state = "IN_RELOAD_BUFFER" THEN {} ELSE {X}
  /\ state # "IN_HANDSHAKE" => tokenSel = None
  /\ Reloads
  /\ K = 0 => SecondAt

\* Counted: the packet is taken off the descriptor, and the next one follows.
Counted ==
  /\ state \in {"IN_WAIT0", "IN_CHECK_COMPLETE", "IN_TRANSFER_MM2S", "IN_TRANSACTION_COMPLETE"}
  /\ K \in {1, 2} /\ T = S - Gone(K) /\ Unloaded /\ Quietly /\ resend = {}
  /\ tokenSel = None /\ clearOff = 0
  /\ T > 0 => addr[N] = BufferOf(X) + S - T
  /\ state = "IN_TRANSFER_MM2S" => T > 0 /\ inLength = Least(T)
  /\ state = "IN_TRANSACTION_COMPLETE" => T = 0 /\ inLength = 0

\* The phases of a transfer of no bytes.  Fresh: the request stands.
Fresh ==
  /\ K = 0 /\ zlpMask # {X} /\ zlp = {X}
  /\ pulse # Signal("complete", X) /\ inComplete = {}
  /\ bus # None => bus.len = 0 /\ bus.from = 0
  /\ state \in PrimeWaits \cup {"IDLE", "START_IN_FRAMEWORK", "IN_HANDSHAKE", "IN_WAIT0", "IN_RELOAD_BUFFER"}
  /\ state \in {"IN_HANDSHAKE", "IN_WAIT0"} => resend = {X}

\* Blocked: the repeated clear of an earlier packet has withdrawn the request.
Blocked ==
  /\ K = 0 /\ zlpMask = {X} /\ Control = None
  /\ Quietly /\ resend = {} /\ tokenSel = None
  /\ state \in PrimeWaits \cup {"IDLE"}

\* Answered: the host has acknowledged the empty packet.
Answered ==
  /\ K = 1 /\ zlpMask = {X} /\ bus = None /\ cntLoc[N] = 0
  /\ \/ /\ state \in PrimeWaits \cup {"IDLE", "START_IN_FRAMEWORK"}
        /\ \/ pulse = Signal("complete", X) /\ inComplete = {}
           \/ /\ pulse = None /\ inComplete = {X}
              /\ clearOff <= 2 /\ cntValid /\ cntData = 0
     \/ /\ state = "IN_HANDSHAKE" /\ resend = {} /\ Quietly
        /\ clearOff <= 1 /\ cntValid /\ cntData = 0
     \/ /\ state \in {"IN_WAIT0", "IN_CHECK_COMPLETE", "IN_TRANSACTION_COMPLETE"}
        /\ resend = {} /\ Quietly /\ tokenSel = None /\ clearOff = 0
        /\ state \in {"IN_CHECK_COMPLETE", "IN_TRANSACTION_COMPLETE"} => zlp = {}
        /\ state = "IN_TRANSACTION_COMPLETE" => zlp_q = {}
     \/ /\ pulse \in {None, Signal("complete", X)}
        /\ \/ state \in {"IN_HANDSHAKE", "IN_WAIT0"} /\ resend = {X}
           \/ state = "IN_RELOAD_BUFFER"

\* A transfer is in one of its phases, whatever the manager is doing.
Transfer ==
  Active =>
  /\ context[X].base = BufferOf(X) /\ context[X].last /\ context[X].index = 1
  /\ state = "PRIME_WAIT1" => clearOff = 0
  /\ bus # None /\ bus.counted => cntLoc[N] = bus.len
  /\ S > 0 => Loaded \/ Owing \/ Resending \/ Counted
  /\ S = 0 => /\ T = 0 /\ txFifo = None /\ ready[N] = None /\ inLength = 0
              /\ Fresh \/ Blocked \/ Answered

\* While the first packet is loaded, the context is that of the new dTD.
Filling ==
  state \in FillStates =>
    /\ T = S /\ context[X].base = BufferOf(X) /\ context[X].last /\ context[X].index = 1
    /\ addr[N] = BufferOf(X)
    /\ state = "PRIME_FILL_FIFO_1" => T > 0 /\ T < FifoSize
    /\ state = "PRIME_FILL_FIFO_2" => T >= FifoSize

\* The inductive invariant.
UTInv ==
  /\ Types /\ Place /\ Calm /\ Off /\ Driver /\ SetupPath
  /\ Zero /\ History /\ Transfer /\ Filling
-----------------------------------------------------------------------------
(* Facts the steps share. *)

\* What the settings and the assumptions on the constants give the steps.
Facts ==
  /\ N \in 0 .. 11 /\ X = N + 16 /\ X \in Endpoints /\ Endpoints \subseteq {N, X}
  /\ Number(N) = N /\ Number(X) = N /\ Number(0) = 0
  /\ N \in Numbers /\ 0 \in Numbers /\ Numbers \subseteq {0, N}
  /\ IsIn(X) /\ ~IsIn(N) /\ In(N) = X
  /\ None \notin Int /\ None \notin Setups /\ None \notin Packets /\ None \notin Sent
  /\ None \notin Pulses /\ None \notin Writes /\ None # {} /\ None # {X}
  /\ (Control = None \/ Control = N)
  /\ FifoSize \in Nat /\ FifoSize > 0 /\ MaxTimeouts \in Nat
  /\ \A l \in DtdLists : l # <<>> /\ Len(l) = 1 /\ l[1] \in Nat /\ l[1] <= 2 * FifoSize /\ l[1] < 2 ^ 15
  /\ {"direction", "write", "ack"} \subseteq Discipline
  /\ Highest({}) = None /\ Highest({N}) = N /\ Highest({X}) = X

\* The strobes that can be, told apart.
Strobes ==
  /\ Signalled("token") = IF pulse = Signal("token", X) THEN {X} ELSE {}
  /\ Signalled("complete") = IF pulse = Signal("complete", X) THEN {X} ELSE {}
  /\ Signalled("resend") = IF pulse = Signal("resend", X) THEN {X} ELSE {}
  /\ Signalled("setup") = IF pulse = Signal("setup", N) THEN {N} ELSE {}
  /\ Written("complete") = IF write = Signal("complete", X) THEN {X} ELSE {}
  /\ Written("setupStat") = IF write = Signal("setupStat", N) THEN {N} ELSE {}
  /\ Written("prime") = IF write = Signal("prime", X) THEN {X}
                        ELSE IF write = Signal("prime", N) THEN {N} ELSE {}
  /\ Signal("token", X) # Signal("complete", X) /\ Signal("token", X) # Signal("resend", X)
  /\ Signal("token", X) # Signal("setup", N) /\ Signal("complete", X) # Signal("resend", X)
  /\ Signal("complete", X) # Signal("setup", N) /\ Signal("resend", X) # Signal("setup", N)
  /\ Signal("complete", X) # Signal("setupStat", N) /\ Signal("complete", X) # Signal("prime", N)
  /\ Signal("complete", X) # Signal("prime", X) /\ Signal("setupStat", N) # Signal("prime", N)
  /\ Signal("setupStat", N) # Signal("prime", X) /\ Signal("prime", N) # Signal("prime", X)
  /\ None \notin {Signal("token", X), Signal("complete", X), Signal("resend", X), Signal("setup", N),
                  Signal("setupStat", N), Signal("prime", N), Signal("prime", X)}

\* The last bit found set, of one bit.
LEMMA OneMax == ASSUME NEW a \in Int PROVE Highest({a}) = a
<1>1. Max({a}) = a BY SMT DEF Max
<1> QED BY <1>1 DEF Highest

\* The settings give the facts.
LEMMA Basics == ASSUME Settings PROVE Facts
<1>1. N \in 0 .. 11 /\ N + 16 \in Endpoints BY Zenon DEF Settings, N, In
<1>2. PICK n \in 0 .. 11 : In(n) \in Endpoints /\ Endpoints \subseteq {n, In(n)}
  BY Zenon DEF Settings
<1>3. n = N BY <1>1, <1>2 DEF In
<1>4. X = N + 16 /\ X \in Endpoints /\ Endpoints \subseteq {N, X} BY <1>1, <1>2, <1>3 DEF X, In
<1>5. Number(N) = N /\ Number(X) = N /\ Number(0) = 0 BY <1>1, <1>4 DEF Number
<1>6. N \in Numbers /\ 0 \in Numbers /\ Numbers \subseteq {0, N} BY <1>4, <1>5 DEF Numbers
<1>7. Control = None \/ Control = N
  <2>1. Control # None => Control \in Numbers /\ Control + 16 \in Endpoints BY UsbAssumption, Zenon
  <2>2. ASSUME Control # None PROVE Control = N
    <3>1. Control \in {0, N} BY <1>6, <2>1, <2>2, Zenon
    <3>2. Control + 16 \in {N, N + 16} BY <1>4, <2>1, <2>2, Zenon
    <3> QED BY <1>1, <3>1, <3>2
  <2> QED BY <2>2
<1>8. Highest({}) = None /\ Highest({N}) = N /\ Highest({X}) = X
  BY <1>1, <1>4, OneMax DEF Highest
<1>9. \A l \in DtdLists : l # <<>> /\ Len(l) = 1 /\ l[1] \in Nat /\ l[1] <= 2 * FifoSize /\ l[1] < 2 ^ 15
  <2> SUFFICES ASSUME NEW l \in DtdLists
               PROVE  l # <<>> /\ Len(l) = 1 /\ l[1] \in Nat /\ l[1] <= 2 * FifoSize /\ l[1] < 2 ^ 15
    OBVIOUS
  <2>1. l \in Seq(Nat) \ {<<>>} BY UsbAssumption, Zenon
  <2>2. Len(l) = 1 /\ l[1] <= 2 * FifoSize BY Zenon DEF Settings
  <2>3. \A i \in 1 .. Len(l) : l[i] < 2 ^ 15 BY UsbAssumption, Zenon
  <2>4. 1 \in 1 .. Len(l) BY <2>2
  <2>5. l[1] < 2 ^ 15 BY <2>3, <2>4, Zenon
  <2>6. l[1] \in Nat BY <2>1, <2>4
  <2> QED BY <2>1, <2>2, <2>5, <2>6
<1>10. IsIn(X) /\ ~IsIn(N) /\ In(N) = X BY <1>1, <1>4 DEF IsIn, In
<1>11. None # {} /\ None # {X} BY <1>4, TransferAssumption
<1>12. None \notin Sent /\ MaxTimeouts \in Nat BY UsbAssumption, Zenon
<1>13. /\ None \notin Int /\ None \notin Setups /\ None \notin Packets
       /\ None \notin Pulses /\ None \notin Writes /\ FifoSize \in Nat /\ FifoSize > 0
  BY TransferAssumption
<1>14. {"direction", "write", "ack"} \subseteq Discipline BY Zenon DEF Settings
<1> QED BY <1>1, <1>4, <1>5, <1>6, <1>7, <1>8, <1>9, <1>10, <1>11, <1>12, <1>13, <1>14
        DEF Facts

\* Each strobe register holds one of the strobes that can be, and shows it
\* alone.
LEMMA StrobesAre == ASSUME Facts, TypesReg PROVE Strobes
<1>1. N # X /\ N \in Nat /\ X \in Nat BY DEF Facts
<1>2. /\ Signal("token", X) # Signal("complete", X) /\ Signal("token", X) # Signal("resend", X)
      /\ Signal("token", X) # Signal("setup", N) /\ Signal("complete", X) # Signal("resend", X)
      /\ Signal("complete", X) # Signal("setup", N) /\ Signal("resend", X) # Signal("setup", N)
      /\ Signal("complete", X) # Signal("setupStat", N) /\ Signal("complete", X) # Signal("prime", N)
      /\ Signal("complete", X) # Signal("prime", X) /\ Signal("setupStat", N) # Signal("prime", N)
      /\ Signal("setupStat", N) # Signal("prime", X) /\ Signal("prime", N) # Signal("prime", X)
  BY <1>1 DEF Signal
<1>3. None \notin {Signal("token", X), Signal("complete", X), Signal("resend", X), Signal("setup", N),
                   Signal("setupStat", N), Signal("prime", N), Signal("prime", X)}
  BY <1>1 DEF Facts, Signal, Pulses, Writes
<1>4. /\ Signalled("token") = IF pulse = Signal("token", X) THEN {X} ELSE {}
      /\ Signalled("complete") = IF pulse = Signal("complete", X) THEN {X} ELSE {}
      /\ Signalled("resend") = IF pulse = Signal("resend", X) THEN {X} ELSE {}
      /\ Signalled("setup") = IF pulse = Signal("setup", N) THEN {N} ELSE {}
  <2>1. CASE pulse = None BY <1>3, <2>1 DEF Signalled
  <2>2. CASE pulse = Signal("token", X) BY <1>2, <1>3, <2>2 DEF Signalled, Signal
  <2>3. CASE pulse = Signal("complete", X) BY <1>2, <1>3, <2>3 DEF Signalled, Signal
  <2>4. CASE pulse = Signal("resend", X) BY <1>2, <1>3, <2>4 DEF Signalled, Signal
  <2>5. CASE pulse = Signal("setup", N) BY <1>2, <1>3, <2>5 DEF Signalled, Signal
  <2> QED BY <2>1, <2>2, <2>3, <2>4, <2>5 DEF TypesReg
<1>5. /\ Written("complete") = IF write = Signal("complete", X) THEN {X} ELSE {}
      /\ Written("setupStat") = IF write = Signal("setupStat", N) THEN {N} ELSE {}
      /\ Written("prime") = IF write = Signal("prime", X) THEN {X}
                            ELSE IF write = Signal("prime", N) THEN {N} ELSE {}
  <2>1. CASE write = None BY <1>3, <2>1 DEF Written
  <2>2. CASE write = Signal("complete", X) BY <1>2, <1>3, <2>2 DEF Written, Signal
  <2>3. CASE write = Signal("setupStat", N) BY <1>2, <1>3, <2>3 DEF Written, Signal
  <2>4. CASE write = Signal("prime", N) BY <1>2, <1>3, <2>4 DEF Written, Signal
  <2>5. CASE write = Signal("prime", X) BY <1>2, <1>3, <2>5 DEF Written, Signal
  <2> QED BY <2>1, <2>2, <2>3, <2>4, <2>5 DEF TypesReg
<1> QED BY <1>2, <1>3, <1>4, <1>5, Zenon DEF Strobes

\* What the manager may drive.
OutType(out) ==
  /\ out.select \in {None, N, X} /\ out.command \in BOOLEAN
  /\ out.primeClear \in {{}, {N}, {X}} /\ out.primeSet = {}
  /\ out.completeSet \in {{}, {X}} /\ out.statSet \in {{}, {N}, {X}} /\ out.statClear \in {{}, {X}}
  /\ out.flushSet \in {{}, {X}} /\ out.setupStatSet \in {{}, {N}} /\ out.setupRecClear \in {{}, {N}}
  /\ out.tokenClear \in {{}, {X}} /\ out.packetClear \in {{}, {X}} /\ out.resendClear \in {{}, {X}}
  /\ out.zlpSet \in {{}, {X}}

AllStates == {"IDLE"} \cup SetupStates \cup FetchStates \cup FillStates \cup PrimeWaits \cup InStates

\* A clock keeps the registers in their types, whatever state it leads to.
LEMMA StepTypes ==
  ASSUME Facts, TypesReg, NEW next \in AllStates, NEW out, OutType(out), Step(next, out)
  PROVE TypesReg'
<1>1. Strobes BY StrobesAre
<1>2. state' \in AllStates /\ endpt' \in {0, N, X} /\ arbEndpt' \in {0, N, X}
  BY DEF Step, Selection, TypesReg, OutType
<1>3. primeSel' \in {None, N, X} /\ setupSel' \in {None, N} /\ tokenSel' \in {None, X}
  BY Zenon DEF Step, Selection, TypesReg, Facts
<1>4. prime' \in {{}, {N}, {X}}
  <2>1. prime \cup out.primeSet = prime BY DEF OutType
  <2>2. prime \ out.primeClear \in {{}, {N}, {X}} BY DEF OutType, TypesReg
  <2> QED BY <1>1, <2>1, <2>2 DEF Step, EndpointRegisters, TypesReg, Strobes
<1>5. complete' \in {{}, {X}}
  <2>1. complete \ Written("complete") \in {{}, {X}} BY <1>1 DEF TypesReg, Strobes
  <2>2. complete \cup out.completeSet \in {{}, {X}} BY DEF OutType, TypesReg
  <2> QED BY <2>1, <2>2 DEF Step, EndpointRegisters, TypesReg
<1>6. stat' \subseteq {N, X} /\ flush' \in {{}, {X}} /\ flushClear' \in BOOLEAN
  <2>1. flush \cup out.flushSet \in {{}, {X}} BY DEF OutType, TypesReg
  <2> QED BY <2>1 DEF Step, StatusRegisters, TypesReg, OutType
<1>7. setupStat' \in {{}, {N}} /\ setupStatQ' \in {{}, {N}}
  <2>1. setupStat \cup setupStatQ \in {{}, {N}} /\ setupStat \ Written("setupStat") \in {{}, {N}}
    BY <1>1 DEF TypesReg, Strobes
  <2> QED BY <2>1 DEF Step, StatusRegisters, OutType
<1>8. setupRec' \in {{}, {N}} /\ setupAck' \in BOOLEAN
  <2>1. setupRec \ out.setupRecClear \in {{}, {N}} BY DEF TypesReg, OutType
  <2> QED BY <1>1, <2>1, Zenon DEF Step, EventRegisters, Strobes
<1>9. \A a, b, c \in {{}, {X}} : SetOrClear(a, b, c) \in {{}, {X}} BY DEF SetOrClear
<1>10. inToken' \in {{}, {X}} /\ inComplete' \in {{}, {X}} /\ resend' \in {{}, {X}}
  <2>1. Signalled("token") \in {{}, {X}} /\ Signalled("complete") \in {{}, {X}}
        /\ Signalled("resend") \in {{}, {X}}
    BY <1>1 DEF Strobes
  <2> QED BY <1>9, <2>1, Zenon DEF Step, EventRegisters, TypesReg, OutType
<1>11. zlp' \in {{}, {X}}
  BY DEF Step, ZeroLength, SetOrClear, TypesReg, OutType
<1>12. /\ zlp_q' \in {{}, {X}} /\ clearOff' \in 0 .. 3 /\ zlpPush' \in BOOLEAN
       /\ zlpCross' \in {None, {}, {X}} /\ zlpMask' \in {{}, {N}, {X}}
  BY DEF Step, ZeroLength, TypesReg
<1>13. cntValid' \in BOOLEAN /\ cntData' \in Nat
  <2>1. Number(arbEndpt) \in Numbers BY DEF TypesReg, Facts
  <2> QED BY <2>1 DEF Step, SentCount, TypesReg, Facts
<1>14. pulse' = None /\ write' = None /\ UNCHANGED <<cntLoc, setupBuf, lists>> BY DEF Step
<1> QED BY <1>2, <1>3, <1>4, <1>5, <1>6, <1>7, <1>8, <1>10, <1>11, <1>12, <1>13, <1>14
        DEF TypesReg, AllStates

-----------------------------------------------------------------------------
(* A clock of the manager during a transfer. *)

Serving(out) ==
  /\ out.select \in {None, X} /\ out.command = FALSE /\ out.primeClear = {} /\ out.primeSet = {}
  /\ out.completeSet = {} /\ out.statSet = {} /\ out.statClear = {} /\ out.flushSet = {}
  /\ out.setupStatSet = {} /\ out.setupRecClear = {} /\ out.zlpSet = {}
  /\ out.tokenClear \in {{}, {X}} /\ out.packetClear \in {{}, {X}} /\ out.resendClear \in {{}, {X}}

ServingStep(next, out) ==
  /\ state' = next /\ endpt' = X /\ arbEndpt' = X
  /\ primeSel' = None /\ setupSel' = None /\ tokenSel' = IF inToken = {} THEN None ELSE X
  /\ prime' = {} /\ complete' = {} /\ stat' = stat /\ flush' = {}
  /\ setupStat' = {} /\ setupStatQ' = {} /\ setupRec' = {}
  /\ inToken' = IF pulse = Signal("token", X) THEN {X} ELSE inToken \ out.tokenClear
  /\ inComplete' = IF pulse = Signal("complete", X) THEN {X} ELSE inComplete \ out.packetClear
  /\ resend' = IF pulse = Signal("resend", X) THEN {X} ELSE resend \ out.resendClear
  /\ zlp' = IF clearOff = 0 /\ zlpMask = {X} THEN {} ELSE zlp
  /\ clearOff' = IF pulse = Signal("token", X) THEN 3 ELSE IF clearOff = 0 THEN 0 ELSE clearOff - 1
  /\ zlp_q' = zlp /\ zlpPush' = (zlp_q # zlp /\ zlpCross = None)
  /\ zlpCross' = (IF zlpPush /\ zlpCross = None THEN zlp ELSE zlpCross) /\ zlpMask' = zlpMask
  /\ cntValid' = (cntLoc[N] # None)
  /\ cntData' = IF cntLoc[N] # None THEN cntLoc[N] ELSE cntData
  /\ pulse' = None /\ write' = None /\ cntLoc' = cntLoc /\ setupBuf' = setupBuf /\ lists' = lists

\* A clock that serves the transfer in the registers: nothing but the
\* transfer's own events moves.
LEMMA Serves ==
  ASSUME Facts, TypesReg, Calm, Active, NEW next, NEW out, Serving(out), Step(next, out)
  PROVE  ServingStep(next, out)
<1>1. Strobes BY StrobesAre
<1>2. state' = next /\ endpt' = X /\ arbEndpt' = X BY DEF Calm, Step, Selection, Serving
<1>3. primeSel' = None /\ setupSel' = None
  <2>1. Highest({}) = None BY Zenon DEF Facts
  <2>2. prime = {} /\ setupRec = {} BY DEF Calm
  <2> QED BY <2>1, <2>2 DEF Step, Selection
<1>4. tokenSel' = IF inToken = {} THEN None ELSE X
  <2>1. CASE inToken = {} BY <2>1 DEF Step, Selection
  <2>2. CASE inToken = {X}
    <3>1. X \in inToken \cap stat BY <2>2 DEF Active
    <3> QED BY <2>2, <3>1 DEF Step, Selection, Facts
  <2> QED BY <2>1, <2>2 DEF TypesReg
<1>5. Written("prime") = {} /\ Written("complete") = {} /\ Written("setupStat") = {} /\ write = None
  BY <1>1, Zenon DEF Calm, Strobes
<1>6. prime' = {} /\ complete' = {} BY <1>5 DEF Calm, Step, EndpointRegisters, Serving
<1>7. stat' = stat /\ flush' = {} /\ setupStat' = {} /\ setupStatQ' = {}
  BY <1>5 DEF Calm, Step, StatusRegisters, Serving
<1>8. setupRec' = {} BY <1>1 DEF Calm, Step, EventRegisters, Strobes, Serving
<1>9. \A b, k : SetOrClear(b, {}, k) = b \ k BY DEF SetOrClear
<1>10. inToken' = IF pulse = Signal("token", X) THEN {X} ELSE inToken \ out.tokenClear
  BY <1>1, Zenon DEF Step, EventRegisters, SetOrClear, Strobes, TypesReg
<1>11. inComplete' = IF pulse = Signal("complete", X) THEN {X} ELSE inComplete \ out.packetClear
  BY <1>1, Zenon DEF Step, EventRegisters, SetOrClear, Strobes, TypesReg
<1>12. resend' = IF pulse = Signal("resend", X) THEN {X} ELSE resend \ out.resendClear
  BY <1>1, Zenon DEF Step, EventRegisters, SetOrClear, Strobes, TypesReg
<1>13. zlp' = IF clearOff = 0 /\ zlpMask = {X} THEN {} ELSE zlp
  <2>1. zlp' = zlp \ (IF clearOff = 0 THEN zlpMask ELSE {}) BY DEF Step, ZeroLength, SetOrClear, Serving
  <2>2. N # X BY DEF Facts
  <2> QED BY <2>1, <2>2 DEF TypesReg
<1>14. clearOff' = IF pulse = Signal("token", X) THEN 3 ELSE IF clearOff = 0 THEN 0 ELSE clearOff - 1
  BY <1>1 DEF Step, ZeroLength, Strobes
<1>15. /\ zlp_q' = zlp /\ zlpPush' = (zlp_q # zlp /\ zlpCross = None)
       /\ zlpCross' = (IF zlpPush /\ zlpCross = None THEN zlp ELSE zlpCross) /\ zlpMask' = zlpMask
  BY DEF Step, ZeroLength
<1>16. cntValid' = (cntLoc[N] # None) /\ cntData' = IF cntLoc[N] # None THEN cntLoc[N] ELSE cntData
  <2>1. arbEndpt = X BY DEF Calm
  <2>2. Number(arbEndpt) = N BY <2>1, Zenon DEF Facts
  <2> QED BY <2>2, Zenon DEF Step, SentCount
<1>17. pulse' = None /\ write' = None /\ cntLoc' = cntLoc /\ setupBuf' = setupBuf /\ lists' = lists
  BY DEF Step
<1> QED BY <1>2, <1>3, <1>4, <1>6, <1>7, <1>8, <1>10, <1>11, <1>12, <1>13, <1>14, <1>15, <1>16, <1>17
        DEF ServingStep

\* Such a clock leaves everything but the transfer itself as it should be.
LEMMA ServesControl ==
  ASSUME Facts, TypesReg, TypesBus, Calm, Driver, SetupPath, Zero, Active,
         NEW next \in InStates \cup {"IDLE", "PRIME_WAIT2"}, NEW out, ServingStep(next, out), UNCHANGED busVars
  PROVE  Place' /\ Calm' /\ Off' /\ Driver' /\ SetupPath' /\ Zero'
<1>1. Active' BY DEF Active, ServingStep
<1>2. Strobes BY StrobesAre
<1>3. UNCHANGED <<control, uZlp, bus, acked>> BY DEF busVars
<1>4. Place'
  BY <1>1, <1>2 DEF Place, ServingStep, InStates, SetupStates, FetchStates, FillStates, PrimeWaits, Facts, Strobes
<1>5. Calm'
  BY <1>1, <1>2, <1>3 DEF Calm, ServingStep, InStates, PrimeWaits, Strobes
<1>6. Off' BY <1>1 DEF Off
<1>7. ~Requested'
  BY <1>2 DEF Requested, ServingStep, Strobes
<1>8. Driver'
  BY <1>1, <1>2, <1>7 DEF Driver, ServingStep, Strobes
<1>9. SetupPath'
  BY <1>1, <1>2, <1>3, <1>7 DEF SetupPath, Calm, ServingStep, Strobes, NoSetup, TailOver, Trailing, Cleared, InStates,
     SetupStates
<1>10. ZActive' = ZActive BY <1>1 DEF ZActive, S, ServingStep
<1>11. Zero'
  <2>1. ~ZActive' => ZeroOver' BY <1>10 DEF Zero, ZeroOver, ServingStep
  <2>2. zlpMask' # {X} /\ ~ZActive' => uZlp' = {} /\ zlpCross' = None /\ ~zlpPush'
    BY <1>3, <1>10, Zenon DEF Zero, ZeroOver, ServingStep
  <2>3. zlpMask' = {X} => zlpCross' # {X} /\ ~(zlpPush' /\ zlp' # {})
    BY Zenon DEF Zero, ServingStep, TypesReg
  <2>4. zlpMask' = {X} => (uZlp' = {} \/ zlp' = {X} \/ zlp_q' = {X} \/ zlpPush' \/ zlpCross' = {})
    BY <1>3, Zenon DEF Zero, ServingStep, TypesReg, TypesBus
  <2>5. zlpMask' = {X} => (zlp' = {X} /\ zlp_q' = {} => clearOff' = 0)
    BY Zenon DEF Zero, ServingStep, TypesReg
  <2>6. ZActive' /\ zlpMask' # {X} => zlp' = {X} /\ acked'[X] = <<>>
    BY <1>3, <1>10 DEF Zero, ServingStep
  <2>7. bus' # None => ZlpSettled'
    BY <1>3 DEF Zero, ZlpSettled, ServingStep, TypesReg
  <2> QED BY <2>1, <2>2, <2>3, <2>4, <2>5, <2>6, <2>7 DEF Zero
<1> QED BY <1>4, <1>5, <1>6, <1>8, <1>9, <1>11

\* The next three: nothing the transfer is counted by changes.
LEMMA KeepsPacket ==
  ASSUME UNCHANGED <<context, addr, addr_q, inLength, lists, acked>>
  PROVE  S' = S /\ T' = T /\ K' = K /\ Packet' = Packet /\ (Reloads' = Reloads) /\ (SecondAt' = SecondAt)
         /\ (\A c : OnBus(c)' = OnBus(c)) /\ Gone(K)' = Gone(K) /\ Gone(K - 1)' = Gone(K - 1)
<1>1. S' = S /\ T' = T /\ K' = K BY DEF S, T, K
<1>2. Packet' = Packet BY <1>1 DEF Packet
<1>3. Reloads' = Reloads /\ SecondAt' = SecondAt BY <1>1 DEF Reloads, SecondAt
<1>4. \A c : OnBus(c)' = OnBus(c) BY <1>2 DEF OnBus
<1>5. Gone(K)' = Gone(K) /\ Gone(K - 1)' = Gone(K - 1) BY <1>1 DEF Gone, Least
<1> QED BY <1>1, <1>2, <1>3, <1>4, <1>5, Zenon

\* A packet of the history is an address and a length.
LEMMA AckIs ==
  ASSUME NEW s \in Seq(Nat \X Nat), NEW i \in 1 .. Len(s)
  PROVE  s[i] \in Nat \X Nat /\ s[i][1] \in Nat /\ s[i][2] \in Nat
<1>1. s[i] \in Nat \X Nat OBVIOUS
<1>2. PICK a \in Nat, b \in Nat : s[i] = <<a, b>> BY <1>1
<1>3. s[i][1] = a /\ s[i][2] = b BY <1>2
<1> QED BY <1>1, <1>3

\* So is the last of the two there can be.
LEMMA LastAck ==
  ASSUME Facts, TypesBus, K \in {1, 2}
  PROVE  acked[X] \in Seq(Nat \X Nat) /\ acked[X][K] \in Nat \X Nat /\ acked[X][K][2] \in Nat
<1>1. acked[X] \in Seq(Nat \X Nat) BY DEF TypesBus, Facts
<1>2. K = Len(acked[X]) BY DEF K
<1>3. \A k \in {1, 2} : k \in 1 .. k OBVIOUS
<1>4. K \in 1 .. Len(acked[X]) BY <1>2, <1>3, Zenon
<1> QED BY <1>1, <1>4, AckIs

Passing == {"PRIME_WAIT2", "IDLE", "START_IN_FRAMEWORK"}

\* The manager waits for the host's token, or goes to serve it.
LEMMA TransferPasses ==
  ASSUME Facts, TypesReg, TypesBus, Transfer, Active, state \in Between,
         NEW next \in Passing, next = "START_IN_FRAMEWORK" => state = next \/ tokenSel # None,
         NEW out, out.packetClear = {}, out.resendClear = {}, ServingStep(next, out),
         UNCHANGED <<dmaVars, busVars>>
  PROVE  Transfer'
<1> USE DEF Passing
<1>1. /\ UNCHANGED <<context, addr, addr_q, inLength, lists, acked>> 
      /\ UNCHANGED <<txFifo, content, ready, bus, cntLoc>>
  BY DEF dmaVars, busVars, ServingStep
<1>2. S' = S /\ T' = T /\ K' = K /\ Packet' = Packet /\ (Reloads' = Reloads) /\ (SecondAt' = SecondAt)
         /\ (\A c : OnBus(c)' = OnBus(c)) /\ Gone(K)' = Gone(K) /\ Gone(K - 1)' = Gone(K - 1)
  BY <1>1, KeepsPacket
<1>3. Strobes BY StrobesAre
<1>4. Unloaded' = Unloaded BY <1>1 DEF Unloaded
<1>5. /\ context'[X].base = BufferOf(X) /\ context'[X].last /\ context'[X].index = 1
      /\ state' # "PRIME_WAIT1" /\ (bus' # None /\ bus'.counted => cntLoc'[N] = bus'.len)
  BY <1>1 DEF Transfer, ServingStep
<1>6. ASSUME Loaded PROVE Loaded'
  <2>1. Held' BY <1>1, <1>2, <1>3, <1>4, <1>6, Zenon DEF Loaded, Held, ServingStep, Strobes, TypesReg
  <2>2. state' \in Between /\ inComplete' = {} /\ pulse' = None
    BY <1>6 DEF Loaded, ServingStep, Between
  <2>3. resend' = {X} => Unloaded'
    BY <1>3, <1>4, <1>6 DEF Loaded, ServingStep, Strobes, TypesReg
  <2> QED BY <1>2, <1>3, <1>6, <2>1, <2>2, <2>3 DEF Loaded, Strobes
<1>7. ASSUME Owing, S > 0 PROVE Owing'
  <2>1. state' \in Between /\ pulse' = None /\ state # "IN_HANDSHAKE" BY DEF ServingStep, Between
  <2>2. acked'[X][K'][2] = cntLoc'[N] /\ cntLoc[N] # None
    <3>1. K \in {1, 2} BY <1>7 DEF Owing
    <3>2. acked[X][K][2] \in Nat BY <3>1, LastAck
    <3> QED BY <1>1, <1>2, <1>7, <3>2 DEF Owing, Facts
  <2>3. cntValid' /\ cntData' = cntLoc'[N] BY <1>1, <2>2, Zenon DEF ServingStep
  <2>4. inComplete' = {X} /\ resend' = {} /\ clearOff' <= 2
    BY <1>3, <1>7, <2>1 DEF Owing, ServingStep, Strobes, TypesReg
  <2>5. K' \in {1, 2} /\ (T = S - Gone(K - 1))' BY <1>2, <1>7 DEF Owing
  <2>6. Unloaded' /\ (K' = 1 => SecondAt') BY <1>2, <1>4, <1>7 DEF Owing
  <2> QED BY <2>1, <2>2, <2>3, <2>4, <2>5, <2>6 DEF Owing
<1>8. ~Resending /\ ~Counted BY DEF Resending, Counted, Between
<1>9. ASSUME S = 0, Fresh PROVE Fresh'
  BY <1>1, <1>2, <1>3, <1>9, Transfer, Active DEF Fresh, ServingStep, Strobes, PrimeWaits, TypesReg, Between
<1>10. ASSUME S = 0, Blocked PROVE Blocked'
  BY <1>1, <1>2, <1>3, <1>10 DEF Blocked, Quietly, ServingStep, Strobes, PrimeWaits, TypesReg, Between
<1>11. ASSUME S = 0, Answered PROVE Answered'
  <2>1. cntLoc[N] = 0 /\ cntLoc[N] # None BY <1>11 DEF Answered, Facts
  <2>2. K' = 1 /\ zlpMask' = {X} /\ bus' = None /\ cntLoc'[N] = 0 BY <1>1, <1>2, <1>11 DEF Answered, ServingStep
  <2>3. cntValid' /\ cntData' = 0 BY <2>1, Zenon DEF ServingStep
  <2>4. (pulse = Signal("complete", X) /\ inComplete = {}) \/ (pulse = None /\ inComplete = {X} /\ clearOff <= 2)
    BY <1>11 DEF Answered, Between
  <2>5. inComplete' = {X} /\ clearOff' <= 2 BY <1>3, <2>4 DEF ServingStep, Strobes, TypesReg
  <2>6. state' \in PrimeWaits \cup {"IDLE", "START_IN_FRAMEWORK"} /\ pulse' = None BY DEF ServingStep, PrimeWaits
  <2> QED BY <2>2, <2>3, <2>5, <2>6 DEF Answered
<1>12. T' = T /\ txFifo' = txFifo /\ ready' = ready /\ inLength' = inLength BY <1>1, <1>2
<1> QED BY <1>2, <1>5, <1>6, <1>7, <1>8, <1>9, <1>10, <1>11, <1>12 DEF Transfer

\* Of the transfer, a step of the manager changes the descriptor, the addresses, the
\* length and the FIFO only.
LEMMA TransferFrame ==
  ASSUME Facts, Transfer, Active, NEW next, NEW out, ServingStep(next, out), next # "PRIME_WAIT1",
         UNCHANGED busVars
  PROVE  /\ S' = S /\ K' = K
         /\ state' # "PRIME_WAIT1" /\ (bus' # None /\ bus'.counted => cntLoc'[N] = bus'.len)
         /\ UNCHANGED <<content, ready, bus, cntLoc, lists, acked, zlpMask>> /\ pulse' = None /\ state' = next
         /\ Gone(K)' = Gone(K) /\ Gone(K - 1)' = Gone(K - 1)
<1>1. UNCHANGED <<content, ready, bus, cntLoc, lists, acked, zlpMask>> /\ state' = next /\ pulse' = None
  BY DEF busVars, ServingStep
<1>2. S' = S /\ K' = K BY <1>1 DEF S, K
<1>3. bus' # None /\ bus'.counted => cntLoc'[N] = bus'.len BY <1>1 DEF Transfer
<1>4. Gone(K)' = Gone(K) /\ Gone(K - 1)' = Gone(K - 1) BY <1>2 DEF Gone, Least
<1> QED BY <1>1, <1>2, <1>3, <1>4

\* It takes the report: an acknowledgement, or the want of one.
LEMMA TransferStartIn ==
  ASSUME Facts, TypesReg, TypesBus, Transfer, Active, state = "START_IN_FRAMEWORK",
         NEW out, out.tokenClear = {X}, out.resendClear = {},
         ServingStep("IN_HANDSHAKE", out), UNCHANGED busVars,
         UNCHANGED <<context, addr, addr_q, inLength>>,
         \/ inComplete = {X} /\ out.packetClear = {X} /\ txFifo' = txFifo
         \/ inComplete = {} /\ out.packetClear = {} /\ resend = {X} /\ txFifo' = None
  PROVE  Transfer'
<1>1. /\ S' = S /\ K' = K
      /\ state' # "PRIME_WAIT1" /\ (bus' # None /\ bus'.counted => cntLoc'[N] = bus'.len)
      /\ UNCHANGED <<content, ready, bus, cntLoc, lists, acked, zlpMask>> /\ pulse' = None /\ state' = "IN_HANDSHAKE"
      /\ Gone(K)' = Gone(K) /\ Gone(K - 1)' = Gone(K - 1)
  BY TransferFrame
<1>2. S' = S /\ T' = T /\ K' = K /\ Packet' = Packet /\ (Reloads' = Reloads) /\ (SecondAt' = SecondAt)
  BY <1>1, KeepsPacket
<1>3. Strobes BY StrobesAre
<1>4. context'[X].base = BufferOf(X) /\ context'[X].last /\ context'[X].index = 1 /\ T' = T
  BY <1>2 DEF Transfer
<1>5. inToken' = {} \/ pulse = Signal("token", X) BY DEF ServingStep, TypesReg
<1>6. ASSUME S > 0, Loaded PROVE Resending'
  <2>1. inComplete = {} /\ resend = {X} BY <1>6 DEF Loaded
  <2>2. Unloaded /\ pulse = None BY <2>1, <1>6 DEF Loaded
  <2>3. Unloaded' /\ bus' = None BY <1>1, <2>1, <2>2 DEF Unloaded
  <2>4. inToken' = {} /\ inComplete' = {} /\ resend' = {X}
    BY <1>3, <1>5, <2>1, <2>2 DEF ServingStep, Strobes, TypesReg
  <2>5. K' <= 1 /\ T' = S' - Gone(K)' /\ T' > 0 /\ Reloads' /\ (K' = 0 => SecondAt') BY <1>1, <1>2, <1>6 DEF Loaded
  <2> QED BY <1>1, <2>3, <2>4, <2>5 DEF Resending, Quietly
<1>7. ASSUME S > 0, Owing PROVE Owing'
  <2>1. inComplete = {X} /\ pulse = None /\ resend = {} BY <1>7, <1>3 DEF Owing
  <2>2. Unloaded' BY <1>1, <1>7, <2>1 DEF Owing, Unloaded
  <2>3. clearOff <= 2 /\ cntValid /\ cntData = cntLoc[N] BY <1>3, <1>7, <2>1 DEF Owing
  <2>4. inToken' = {} /\ inComplete' = {} /\ resend' = {} /\ clearOff' <= 1
    BY <1>3, <1>5, <2>1, <2>3 DEF ServingStep, Strobes, TypesReg
  <2>5. acked[X][K][2] = cntLoc[N] /\ K \in {1, 2} /\ T = S - Gone(K - 1) BY <1>7 DEF Owing
  <2>6. cntLoc[N] # None BY <2>5, LastAck DEF Facts
  <2>7. cntValid' /\ cntData' = cntLoc'[N] BY <1>1, <2>6, Zenon DEF ServingStep
  <2>8. K' \in {1, 2} /\ (T = S - Gone(K - 1))' /\ acked'[X][K'][2] = cntLoc'[N] /\ (K' = 1 => SecondAt')
    BY <1>1, <1>2, <1>7, <2>5 DEF Owing
  <2> QED BY <1>1, <2>2, <2>4, <2>7, <2>8 DEF Owing
<1>8. ~Resending /\ ~Counted /\ ~Blocked BY DEF Resending, Counted, Blocked, PrimeWaits
<1>9. ASSUME S = 0, Fresh PROVE Fresh'
  <2>1. inComplete = {} /\ resend = {X} /\ pulse # Signal("complete", X) /\ zlpMask # {X} /\ zlp = {X} /\ K = 0
    BY <1>9 DEF Fresh
  <2>2. inComplete' = {} /\ resend' = {X} /\ zlp' = {X}
    BY <1>3, <2>1 DEF ServingStep, Strobes, TypesReg
  <2>3. bus' # None => bus'.len = 0 /\ bus'.from = 0 BY <1>1, <1>9 DEF Fresh
  <2> QED BY <1>1, <1>3, <2>1, <2>2, <2>3 DEF Fresh, Strobes
<1>10. ASSUME S = 0, Answered PROVE Answered'
  <2>1. cntLoc[N] = 0 /\ cntLoc[N] # None /\ bus = None BY <1>10 DEF Answered, Facts
  <2>2. K' = 1 /\ zlpMask' = {X} /\ bus' = None /\ cntLoc'[N] = 0 BY <1>1, <1>10 DEF Answered, ServingStep
  <2>3. cntValid' /\ cntData' = 0 BY <2>1, Zenon DEF ServingStep
  <2>4. CASE resend = {X}
    <3>1. pulse # Signal("token", X) /\ pulse # Signal("resend", X) BY <1>3, <1>10 DEF Answered, Strobes
    <3>2. resend' = {X} BY <2>4, <3>1 DEF ServingStep
    <3> QED BY <1>1, <2>2, <3>2 DEF Answered
  <2>5. CASE resend = {}
    <3>1. inComplete = {X} /\ out.packetClear = {X} /\ pulse = None /\ clearOff <= 2
      BY <1>3, <1>10, <2>5 DEF Answered
    <3>2. inToken' = {} /\ inComplete' = {} /\ resend' = {} /\ clearOff' <= 1
      BY <1>3, <1>5, <2>5, <3>1 DEF ServingStep, Strobes, TypesReg
    <3> QED BY <1>1, <2>2, <2>3, <3>2 DEF Answered, Quietly
  <2> QED BY <2>4, <2>5 DEF TypesReg
<1>11. S = 0 => T' = 0 /\ txFifo' = None /\ ready'[N] = None /\ inLength' = 0 BY <1>1, <1>2 DEF Transfer
<1> QED BY <1>1, <1>4, <1>6, <1>7, <1>8, <1>9, <1>10, <1>11 DEF Transfer

\* It waits for a DMA transfer, or for the count.
LEMMA TransferWaits ==
  ASSUME Facts, TypesReg, TypesBus, Transfer, Active, state \in InStates \ Between,
         state = "IN_HANDSHAKE" => ~cntValid,
         NEW out, out.tokenClear = {}, out.packetClear = {}, out.resendClear = {},
         ServingStep(state, out), UNCHANGED busVars, UNCHANGED dmaVars
  PROVE  Transfer'
<1>1. state # "PRIME_WAIT1" BY DEF InStates
<1>2. /\ S' = S /\ K' = K
      /\ state' # "PRIME_WAIT1" /\ (bus' # None /\ bus'.counted => cntLoc'[N] = bus'.len)
      /\ UNCHANGED <<content, ready, bus, cntLoc, lists, acked, zlpMask>> /\ pulse' = None /\ state' = state
      /\ Gone(K)' = Gone(K) /\ Gone(K - 1)' = Gone(K - 1)
  BY <1>1, TransferFrame
<1>3. UNCHANGED <<context, addr, addr_q, inLength, txFifo>> BY DEF dmaVars
<1>4. S' = S /\ T' = T /\ K' = K /\ Packet' = Packet /\ (Reloads' = Reloads) /\ (SecondAt' = SecondAt)
  BY <1>2, <1>3, KeepsPacket
<1>5. Strobes BY StrobesAre
<1>6. context'[X].base = BufferOf(X) /\ context'[X].last /\ context'[X].index = 1 /\ T' = T
  BY <1>3, <1>4 DEF Transfer
<1>7. Unloaded' = Unloaded BY <1>2, <1>3 DEF Unloaded
<1>8. ~Loaded /\ ~Owing BY <1>5 DEF Loaded, Owing, Between
<1>9. pulse = None /\ inToken = {} /\ inComplete = {} => Quietly' = Quietly /\ inToken' = {}
                                                         /\ resend' = resend /\ tokenSel' = None
  BY <1>2, <1>5 DEF Quietly, ServingStep, Strobes, TypesReg
<1>10. ASSUME Resending PROVE Resending'
  <2>1. Quietly' = Quietly /\ resend' = resend /\ tokenSel' = None BY <1>9, <1>10 DEF Resending, Quietly
  <2> QED BY <1>2, <1>4, <1>7, <1>10, <2>1 DEF Resending
<1>11. ASSUME Counted PROVE Counted'
  <2>1. Quietly' = Quietly /\ resend' = resend /\ tokenSel' = None BY <1>9, <1>11 DEF Counted, Quietly
  <2>2. clearOff' = 0 BY <1>5, <1>11 DEF Counted, Quietly, ServingStep, Strobes
  <2> QED BY <1>2, <1>3, <1>4, <1>7, <1>11, <2>1, <2>2 DEF Counted, Least
<1>12. ASSUME Fresh PROVE Fresh'
  <2>1. inComplete' = {} /\ zlp' = {X} BY <1>5, <1>12 DEF Fresh, ServingStep, Strobes, TypesReg
  <2>2. resend = {X} => resend' = {X} BY <1>5 DEF ServingStep, Strobes
  <2>3. bus' # None => bus'.len = 0 /\ bus'.from = 0 BY <1>2, <1>12 DEF Fresh
  <2> QED BY <1>2, <1>5, <1>12, <2>1, <2>2, <2>3 DEF Fresh, Strobes
<1>13. ~Blocked BY DEF Blocked, InStates, PrimeWaits, Between
<1>14. ASSUME Answered PROVE Answered'
  <2>1. K' = 1 /\ zlpMask' = {X} /\ bus' = None /\ cntLoc'[N] = 0 BY <1>2, <1>14 DEF Answered
  <2>2. CASE state = "IN_RELOAD_BUFFER" BY <1>2, <2>1, <2>2 DEF Answered
  <2>3. CASE state \in {"IN_HANDSHAKE", "IN_WAIT0"} /\ resend = {X}
    <3>1. resend' = {X} BY <1>5, <2>3 DEF ServingStep, Strobes
    <3> QED BY <1>2, <2>1, <2>3, <3>1 DEF Answered
  <2>4. CASE state \in {"IN_WAIT0", "IN_CHECK_COMPLETE", "IN_TRANSACTION_COMPLETE"} /\ resend = {}
    <3>1. Quietly /\ tokenSel = None /\ clearOff = 0
          /\ (state \in {"IN_CHECK_COMPLETE", "IN_TRANSACTION_COMPLETE"} => zlp = {})
          /\ (state = "IN_TRANSACTION_COMPLETE" => zlp_q = {})
      BY <1>14, <2>4 DEF Answered, PrimeWaits
    <3>2. Quietly' /\ resend' = {} /\ tokenSel' = None BY <1>9, <2>4, <3>1 DEF Quietly
    <3>3. clearOff' = 0 BY <1>5, <3>1 DEF Quietly, ServingStep, Strobes
    <3>4. /\ (state \in {"IN_CHECK_COMPLETE", "IN_TRANSACTION_COMPLETE"} => zlp' = {})
          /\ (state = "IN_TRANSACTION_COMPLETE" => zlp_q' = {})
      BY <3>1 DEF ServingStep
    <3> QED BY <1>2, <2>1, <2>4, <3>2, <3>3, <3>4 DEF Answered
  <2> QED BY <1>14, <2>2, <2>3, <2>4 DEF Answered, InStates, Between, PrimeWaits
<1>15. S = 0 => T' = 0 /\ txFifo' = None /\ ready'[N] = None /\ inLength' = 0 BY <1>2, <1>3, <1>4 DEF Transfer
<1> QED BY <1>2, <1>6, <1>8, <1>10, <1>11, <1>12, <1>13, <1>14, <1>15 DEF Transfer

\* The width of the dTD's count loses nothing of a value that fits.
LEMMA Modulo == ASSUME NEW a \in 0 .. 2 ^ 15 - 1 PROVE a % 2 ^ 15 = a
<1>1. 2 ^ 15 \in Nat /\ 2 ^ 15 > 0 BY SMT
<1> DEFINE w == 2 ^ 15
<1>2. w \in Nat /\ w > 0 /\ a \in 0 .. w - 1 BY <1>1
<1> HIDE DEF w
<1>3. a % w = a BY <1>2
<1> QED BY <1>3 DEF w

\* What is queued, and what is left, fits the dTD's count.
LEMMA Sizes ==
  ASSUME Facts, TypesReg, TypesDma, Driver, Active
  PROVE  S \in 0 .. 2 ^ 15 - 1 /\ S \in Nat /\ S <= 2 * FifoSize /\ T \in Nat
<1>1. lists[X] \in DtdLists BY DEF Driver, TypesReg, Facts
<1>2. S \in Nat /\ S < 2 ^ 15 /\ S <= 2 * FifoSize BY <1>1 DEF S, Facts
<1>3. 2 ^ 15 \in Nat BY SMT
<1>4. context[X].total \in 0 .. 2 ^ 15 - 1 BY Zenon DEF TypesDma, Facts
<1> QED BY <1>2, <1>3, <1>4 DEF T

\* A packet that is acknowledged is taken from what the descriptor has to send.
LEMMA TransferCounts ==
  ASSUME Facts, TypesReg, TypesDma, TypesBus, Transfer, History, Driver, Active, state = "IN_HANDSHAKE", cntValid,
         NEW out, out.tokenClear = {}, out.packetClear = {}, out.resendClear = {},
         ServingStep("IN_WAIT0", out), UNCHANGED busVars, UNCHANGED <<addr, addr_q, inLength, txFifo>>,
         context' = IF X \in resend THEN context
                    ELSE [context EXCEPT ![X].total = (@ - cntData) % 2 ^ 15]
  PROVE  Transfer'
<1>1. /\ S' = S /\ K' = K
      /\ state' # "PRIME_WAIT1" /\ (bus' # None /\ bus'.counted => cntLoc'[N] = bus'.len)
      /\ UNCHANGED <<content, ready, bus, cntLoc, lists, acked, zlpMask>> /\ pulse' = None /\ state' = "IN_WAIT0"
      /\ Gone(K)' = Gone(K) /\ Gone(K - 1)' = Gone(K - 1)
  BY TransferFrame
<1>2. /\ context'[X].base = BufferOf(X) /\ context'[X].last /\ context'[X].index = 1
      /\ T' = (IF X \in resend THEN T ELSE (T - cntData) % 2 ^ 15)
  <2>1. X \in Endpoints /\ context \in [Endpoints -> [total : 0 .. 2 ^ 15 - 1, base : Nat, index : Nat, last : BOOLEAN]]
    BY Zenon DEF TypesDma, Facts
  <2>2. context[X].base = BufferOf(X) /\ context[X].last /\ context[X].index = 1 BY DEF Transfer
  <2>3. CASE X \in resend BY <2>2, <2>3 DEF T
  <2>4. CASE X \notin resend
    <3> DEFINE t == (context[X].total - cntData) % 2 ^ 15
    <3>1. context' = [context EXCEPT ![X].total = t] BY <2>4
    <3> HIDE DEF t
    <3>2. context'[X].total = t /\ context'[X].base = context[X].base /\ context'[X].last = context[X].last
          /\ context'[X].index = context[X].index
      <4> DEFINE w == 0 .. 2 ^ 15 - 1
      <4>1. X \in Endpoints /\ context \in [Endpoints -> [total : w, base : Nat, index : Nat, last : BOOLEAN]] BY <2>1
      <4> HIDE DEF w
      <4>2. context'[X] = [context[X] EXCEPT !.total = t] BY <3>1, <4>1
      <4>3. context[X] \in [total : w, base : Nat, index : Nat, last : BOOLEAN] BY <4>1
      <4> QED BY <4>2, <4>3
    <3>3. t = (T - cntData) % 2 ^ 15 BY DEF t, T
    <3> QED BY <2>2, <2>4, <3>2, <3>3 DEF T
  <2> QED BY <2>3, <2>4
<1>3. Strobes BY StrobesAre
<1>4. Unloaded' = Unloaded BY <1>1 DEF Unloaded
<1>5. S \in 0 .. 2 ^ 15 - 1 /\ S <= 2 * FifoSize /\ T \in Nat BY Sizes
<1>6. ASSUME S > 0, Loaded PROVE FALSE BY <1>6 DEF Loaded, Between
<1>7. ASSUME S > 0, Resending PROVE Resending'
  <2>1. resend = {X} /\ inToken = {} /\ inComplete = {} /\ pulse = None /\ T > 0 /\ T = S - Gone(K)
    BY <1>7 DEF Resending, Quietly
  <2>2. T' = T /\ context' = context BY <1>2, <2>1
  <2>3. S' = S /\ T' = T /\ K' = K /\ Packet' = Packet /\ (Reloads' = Reloads) /\ (SecondAt' = SecondAt)
    BY <1>1, <2>2, KeepsPacket
  <2>4. inToken' = {} /\ inComplete' = {} /\ tokenSel' = None /\ resend' = {X}
    BY <1>3, <2>1 DEF ServingStep, Strobes
  <2> QED BY <1>1, <1>4, <1>7, <2>1, <2>3, <2>4 DEF Resending, Quietly
<1>8. ASSUME S > 0, Owing PROVE Counted'
  <2>1. /\ resend = {} /\ pulse = None /\ inComplete = {} /\ inToken = {} /\ clearOff <= 1 /\ cntData = cntLoc[N]
        /\ K \in {1, 2} /\ T = S - Gone(K - 1) /\ cntLoc[N] = acked[X][K][2] /\ Unloaded
        /\ (K = 1 => SecondAt)
    BY <1>3, <1>8 DEF Owing, Between
  <2>2. cntData = (IF K = 1 THEN Least(S) ELSE S - FifoSize) /\ (K = 2 => S > FifoSize)
    <3>1. K = Len(acked[X]) BY DEF K
    <3>2. CASE K = 1
      <4>1. acked[X][1] = <<BufferOf(X), Least(S)>> BY <1>8, <3>1, <3>2 DEF History
      <4> QED BY <2>1, <3>2, <4>1
    <3>3. CASE K = 2
      <4>1. S > FifoSize /\ acked[X][2] = <<BufferOf(X) + FifoSize, S - FifoSize>>
        BY <3>1, <3>3 DEF History
      <4> QED BY <2>1, <3>3, <4>1
    <3> QED BY <2>1, <3>2, <3>3
  <2>3. T - cntData = S - Gone(K) /\ T - cntData \in 0 .. 2 ^ 15 - 1
    <3>1. FifoSize \in Nat /\ FifoSize > 0 BY DEF Facts
    <3>2. 2 ^ 15 \in Nat BY SMT
    <3> QED BY <1>5, <2>1, <2>2, <3>1, <3>2 DEF Gone, Least
  <2>4. T' = S - Gone(K) BY <1>2, <2>1, <2>3, Modulo, Zenon
  <2>5. inToken' = {} /\ inComplete' = {} /\ resend' = {} /\ tokenSel' = None /\ clearOff' = 0 /\ zlp_q' = zlp
    BY <1>3, <2>1 DEF ServingStep, Strobes, TypesReg
  <2>6. T' > 0 => addr'[N] = BufferOf(X) + S' - T'
    <3>1. FifoSize \in Nat /\ FifoSize > 0 BY DEF Facts
    <3>2. ASSUME T' > 0 PROVE addr[N] = BufferOf(X) + FifoSize /\ T' = S - FifoSize
      BY <1>5, <2>1, <2>4, <3>1, <3>2 DEF Gone, Least, SecondAt
    <3>3. BufferOf(X) \in Int BY DEF BufferOf, Facts
    <3> QED BY <1>1, <1>5, <3>1, <3>2, <3>3
  <2>7. Unloaded' /\ bus' = None BY <1>1, <1>4, <2>1 DEF Unloaded
  <2>8. K' \in {1, 2} /\ T' = S' - Gone(K)' BY <1>1, <2>1, <2>4
  <2> QED BY <1>1, <2>5, <2>6, <2>7, <2>8 DEF Counted, Quietly
<1>9. ASSUME Counted PROVE FALSE BY <1>9 DEF Counted
<1>10. ASSUME S = 0, Fresh PROVE Fresh' /\ T' = T
  <2>1. resend = {X} BY <1>10 DEF Fresh
  <2>2. inComplete' = {} /\ resend' = {X} /\ zlp' = {X}
    BY <1>3, <1>10, <2>1 DEF Fresh, ServingStep, Strobes, TypesReg
  <2>3. bus' # None => bus'.len = 0 /\ bus'.from = 0 BY <1>1, <1>10 DEF Fresh
  <2> QED BY <1>1, <1>2, <1>3, <1>10, <2>1, <2>2, <2>3 DEF Fresh, Strobes
<1>11. ASSUME Blocked PROVE FALSE BY <1>11 DEF Blocked, PrimeWaits
<1>12. ASSUME S = 0, Answered, T = 0 PROVE Answered' /\ T' = 0
  <2>1. K' = 1 /\ zlpMask' = {X} /\ bus' = None /\ cntLoc'[N] = 0 BY <1>1, <1>12 DEF Answered
  <2>2. CASE resend = {X}
    <3>1. resend' = {X} BY <1>3, <2>2 DEF ServingStep
    <3> QED BY <1>1, <1>2, <1>12, <2>1, <2>2, <3>1 DEF Answered
  <2>3. CASE resend = {}
    <3>1. Quietly /\ clearOff <= 1 /\ cntData = 0 BY <1>12, <2>3 DEF Answered, PrimeWaits
    <3>2. Quietly' /\ tokenSel' = None /\ clearOff' = 0 /\ resend' = {}
      BY <1>1, <1>3, <2>3, <3>1 DEF Quietly, ServingStep, Strobes, TypesReg
    <3>3. 0 % 2 ^ 15 = 0
      <4>1. 2 ^ 15 \in Nat /\ 2 ^ 15 > 0 BY SMT
      <4> DEFINE w == 2 ^ 15
      <4>2. w \in Nat /\ w > 0 BY <4>1
      <4> HIDE DEF w
      <4>3. 0 % w = 0 BY <4>2
      <4> QED BY <4>3 DEF w
    <3>4. T' = 0 BY <1>2, <1>12, <2>3, <3>1, <3>3
    <3> QED BY <1>1, <2>1, <3>2, <3>4 DEF Answered
  <2> QED BY <2>2, <2>3 DEF TypesReg
<1>13. S = 0 => T = 0 /\ txFifo' = None /\ ready'[N] = None /\ inLength' = 0 BY <1>1 DEF Transfer
<1> QED BY <1>1, <1>2, <1>5, <1>6, <1>7, <1>8, <1>9, <1>10, <1>11, <1>12, <1>13 DEF Transfer

\* It turns to a reload, or to the next packet.
LEMMA TransferWait0 ==
  ASSUME Facts, TypesReg, TypesBus, Transfer, Active, state = "IN_WAIT0", NEW next, NEW out,
         out.tokenClear = {}, out.packetClear = {}, ServingStep(next, out), UNCHANGED <<dmaVars, busVars>>,
         IF X \in resend THEN next = "IN_RELOAD_BUFFER" /\ out.resendClear = {X}
         ELSE next = "IN_CHECK_COMPLETE" /\ out.resendClear = {}
  PROVE  Transfer'
<1>1. next # "PRIME_WAIT1" /\ next \in {"IN_RELOAD_BUFFER", "IN_CHECK_COMPLETE"} OBVIOUS
<1>2. /\ S' = S /\ K' = K
      /\ state' # "PRIME_WAIT1" /\ (bus' # None /\ bus'.counted => cntLoc'[N] = bus'.len)
      /\ UNCHANGED <<content, ready, bus, cntLoc, lists, acked, zlpMask>> /\ pulse' = None /\ state' = next
      /\ Gone(K)' = Gone(K) /\ Gone(K - 1)' = Gone(K - 1)
  BY <1>1, TransferFrame
<1>3. UNCHANGED <<context, addr, addr_q, inLength, txFifo>> BY DEF dmaVars
<1>4. S' = S /\ T' = T /\ K' = K /\ Packet' = Packet /\ (Reloads' = Reloads) /\ (SecondAt' = SecondAt)
  BY <1>2, <1>3, KeepsPacket
<1>5. Strobes BY StrobesAre
<1>6. context'[X].base = BufferOf(X) /\ context'[X].last /\ context'[X].index = 1 /\ T' = T
  BY <1>3, <1>4 DEF Transfer
<1>7. Unloaded' = Unloaded BY <1>2, <1>3 DEF Unloaded
<1>8. ~Loaded /\ ~Owing /\ ~Blocked BY DEF Loaded, Owing, Blocked, PrimeWaits, Between
<1>9. ASSUME Resending PROVE Resending'
  <2>1. resend = {X} /\ pulse = None /\ inToken = {} /\ inComplete = {} BY <1>9 DEF Resending, Quietly
  <2>2. resend' = {} /\ inToken' = {} /\ inComplete' = {} /\ tokenSel' = None /\ next = "IN_RELOAD_BUFFER"
    BY <1>5, <2>1 DEF ServingStep, Strobes
  <2> QED BY <1>2, <1>4, <1>7, <1>9, <2>2 DEF Resending, Quietly
<1>10. ASSUME Counted PROVE Counted'
  <2>1. resend = {} /\ pulse = None /\ inToken = {} /\ inComplete = {} /\ clearOff = 0
    BY <1>10 DEF Counted, Quietly
  <2>2. resend' = {} /\ inToken' = {} /\ inComplete' = {} /\ tokenSel' = None /\ next = "IN_CHECK_COMPLETE"
        /\ clearOff' = 0
    BY <1>5, <2>1 DEF ServingStep, Strobes
  <2> QED BY <1>2, <1>3, <1>4, <1>7, <1>10, <2>2 DEF Counted, Quietly
<1>11. ASSUME Fresh PROVE Fresh'
  <2>1. inComplete' = {} /\ zlp' = {X} /\ next = "IN_RELOAD_BUFFER"
    BY <1>5, <1>11 DEF Fresh, ServingStep, Strobes, TypesReg
  <2>2. bus' # None => bus'.len = 0 /\ bus'.from = 0 BY <1>2, <1>11 DEF Fresh
  <2> QED BY <1>2, <1>5, <1>11, <2>1, <2>2 DEF Fresh, Strobes
<1>12. ASSUME Answered PROVE Answered'
  <2>1. K' = 1 /\ zlpMask' = {X} /\ bus' = None /\ cntLoc'[N] = 0 BY <1>2, <1>12 DEF Answered
  <2>2. CASE resend = {X} BY <1>2, <2>1, <2>2 DEF Answered
  <2>3. CASE resend = {}
    <3>1. Quietly /\ clearOff = 0 /\ zlpMask = {X} BY <1>12, <2>3 DEF Answered, PrimeWaits
    <3>2. Quietly' /\ tokenSel' = None /\ clearOff' = 0 /\ resend' = {} /\ zlp' = {}
      BY <1>2, <1>5, <2>3, <3>1 DEF Quietly, ServingStep, Strobes, TypesReg
    <3> QED BY <1>2, <2>1, <2>3, <3>2 DEF Answered
  <2> QED BY <2>2, <2>3 DEF TypesReg
<1>13. S = 0 => T' = 0 /\ txFifo' = None /\ ready'[N] = None /\ inLength' = 0 BY <1>2, <1>3, <1>4 DEF Transfer
<1> QED BY <1>2, <1>6, <1>8, <1>9, <1>10, <1>11, <1>12, <1>13 DEF Transfer

\* It sets the length of the next packet, or ends the transfer.
LEMMA TransferChecks ==
  ASSUME Facts, TypesReg, TypesBus, TypesDma, Transfer, Active, state = "IN_CHECK_COMPLETE", NEW next, NEW out,
         out.tokenClear = {}, out.packetClear = {}, out.resendClear = {}, ServingStep(next, out),
         next = (IF T = 0 THEN "IN_TRANSACTION_COMPLETE" ELSE "IN_TRANSFER_MM2S"),
         inLength' = Least(T), UNCHANGED <<context, addr, addr_q, txFifo>>, UNCHANGED busVars
  PROVE  Transfer'
<1>1. next # "PRIME_WAIT1" /\ next \in {"IN_TRANSACTION_COMPLETE", "IN_TRANSFER_MM2S"} OBVIOUS
<1>2. /\ S' = S /\ K' = K
      /\ state' # "PRIME_WAIT1" /\ (bus' # None /\ bus'.counted => cntLoc'[N] = bus'.len)
      /\ UNCHANGED <<content, ready, bus, cntLoc, lists, acked, zlpMask>> /\ pulse' = None /\ state' = next
      /\ Gone(K)' = Gone(K) /\ Gone(K - 1)' = Gone(K - 1)
  BY <1>1, TransferFrame
<1>3. T' = T BY DEF T
<1>4. Strobes BY StrobesAre
<1>5. context'[X].base = BufferOf(X) /\ context'[X].last /\ context'[X].index = 1
  BY DEF Transfer
<1>6. Unloaded' = Unloaded BY <1>2 DEF Unloaded
<1>7. ~Loaded /\ ~Owing /\ ~Blocked /\ ~Resending /\ ~Fresh
  BY <1>4 DEF Loaded, Owing, Blocked, PrimeWaits, Between, Resending, Fresh
<1>8. T \in Nat /\ FifoSize \in Nat /\ FifoSize > 0
  <2>1. 2 ^ 15 \in Nat BY SMT
  <2>2. context[X].total \in 0 .. 2 ^ 15 - 1 BY Zenon DEF TypesDma, Facts
  <2>3. T \in Nat BY <2>1, <2>2 DEF T
  <2> QED BY <2>3 DEF Facts
<1>9. T = 0 => Least(T) = 0 BY <1>8 DEF Least
<1>10. ASSUME Counted PROVE Counted'
  <2>1. resend = {} /\ pulse = None /\ inToken = {} /\ inComplete = {} /\ clearOff = 0
    BY <1>10 DEF Counted, Quietly
  <2>2. resend' = {} /\ inToken' = {} /\ inComplete' = {} /\ tokenSel' = None /\ clearOff' = 0
    BY <1>4, <2>1 DEF ServingStep, Strobes
  <2>3. (next = "IN_TRANSFER_MM2S" => T > 0) /\ (next = "IN_TRANSACTION_COMPLETE" => T = 0) BY <1>8
  <2>4. inLength' = Least(T)' BY <1>3 DEF Least
  <2> QED BY <1>2, <1>3, <1>6, <1>9, <1>10, <2>2, <2>3, <2>4 DEF Counted, Quietly
<1>11. ASSUME Answered, T = 0 PROVE Answered'
  <2>1. K' = 1 /\ zlpMask' = {X} /\ bus' = None /\ cntLoc'[N] = 0 BY <1>2, <1>11 DEF Answered
  <2>2. Quietly /\ clearOff = 0 /\ zlpMask = {X} /\ zlp = {} /\ resend = {} BY <1>11 DEF Answered, PrimeWaits
  <2>3. Quietly' /\ tokenSel' = None /\ clearOff' = 0 /\ resend' = {} /\ zlp' = {} /\ zlp_q' = {}
      BY <1>2, <1>4, <2>2 DEF Quietly, ServingStep, Strobes, TypesReg
  <2> QED BY <1>2, <1>11, <2>1, <2>3 DEF Answered
<1>12. S = 0 => T = 0 /\ T' = 0 /\ txFifo' = None /\ ready'[N] = None /\ inLength' = 0
  BY <1>2, <1>3, <1>9 DEF Transfer
<1> QED BY <1>2, <1>5, <1>7, <1>10, <1>11, <1>12 DEF Transfer

\* The FIFO is loaded with the packet that comes next.
LEMMA TransferLoads ==
  ASSUME Facts, TypesReg, TypesBus, TypesDma, Driver, Transfer, Active, NEW out, NEW from, NEW len,
         out.tokenClear = {}, out.packetClear = {}, out.resendClear = {}, ServingStep("IN_WAIT1", out),
         txFifo' = [from |-> from, len |-> len, number |-> N],
         len > 0, len = inLength, UNCHANGED <<context, inLength>>, UNCHANGED busVars,
         \/ state = "IN_TRANSFER_MM2S" /\ from = addr[N] /\ addr_q' = [addr_q EXCEPT ![N] = addr[N]]
         \/ state = "IN_RELOAD_BUFFER" /\ from = addr_q[N] /\ UNCHANGED <<addr, addr_q>>
  PROVE  Transfer'
<1>1. /\ S' = S /\ K' = K
      /\ state' # "PRIME_WAIT1" /\ (bus' # None /\ bus'.counted => cntLoc'[N] = bus'.len)
      /\ UNCHANGED <<content, ready, bus, cntLoc, lists, acked, zlpMask>> /\ pulse' = None /\ state' = "IN_WAIT1"
      /\ Gone(K)' = Gone(K) /\ Gone(K - 1)' = Gone(K - 1)
  BY TransferFrame
<1>2. T' = T /\ Least(T)' = Least(T) BY DEF T, Least
<1>3. Strobes BY StrobesAre
<1>4. context'[X].base = BufferOf(X) /\ context'[X].last /\ context'[X].index = 1
  BY DEF Transfer
<1>5. ~Loaded /\ ~Owing BY <1>3 DEF Loaded, Owing, Between
<1>6. S \in Nat BY Sizes
<1>7. inLength \in Nat
  <2>1. FifoSize \in Nat BY DEF Facts
  <2>2. inLength \in 0 .. FifoSize BY Zenon DEF TypesDma
  <2> QED BY <2>1, <2>2
<1>8. ASSUME S > 0 PROVE Loaded'
  <2>1. Resending \/ Counted BY <1>5, <1>8 DEF Transfer
  <2>2. /\ T > 0 /\ T = S - Gone(K) /\ len = Least(T) /\ from = BufferOf(X) + S - T
        /\ ready[N] = None /\ bus = None /\ pulse = None /\ resend = {} /\ inComplete = {}
    <3>1. CASE Resending BY <1>7, <2>1, <3>1 DEF Resending, Reloads, Quietly, Unloaded
    <3>2. CASE Counted BY <2>1, <3>2 DEF Counted, Quietly, Unloaded
    <3> QED BY <2>1, <3>1, <3>2
  <2>3. K' <= 1 /\ (K' = 0 => SecondAt')
    <3>1. CASE Resending
      <4>1. UNCHANGED <<addr>> BY <3>1 DEF Resending
      <4>2. SecondAt' = SecondAt BY <1>1, <4>1 DEF SecondAt
      <4> QED BY <1>1, <3>1, <4>2 DEF Resending
    <3>2. CASE Counted
      <4>1. K \in {1, 2} /\ K # 2 BY <1>6, <2>2, <3>2 DEF Counted, Gone
      <4> QED BY <1>1, <4>1
    <3> QED BY <2>1, <3>1, <3>2
  <2>4. Packet' = [from |-> from, len |-> len, number |-> N] BY <1>1, <1>2, <2>2 DEF Packet
  <2>5. Held' BY <1>1, <2>2, <2>4 DEF Held
  <2>6. addr_q'[N] = BufferOf(X) + S - T
    <3>1. CASE state = "IN_TRANSFER_MM2S" BY <2>2, <3>1, Zenon DEF TypesDma, Facts
    <3>2. CASE state = "IN_RELOAD_BUFFER" BY <2>2, <3>2
    <3> QED BY <3>1, <3>2
  <2>7. Reloads' BY <1>1, <1>2, <2>2, <2>6 DEF Reloads
  <2>8. resend' = {} /\ inComplete' = {} BY <1>3, <2>2 DEF ServingStep, Strobes
  <2>9. T' > 0 /\ T' = S' - Gone(K)' BY <1>1, <1>2, <2>2
  <2>10. {} # {X} OBVIOUS
  <2> QED BY <1>1, <1>3, <2>3, <2>5, <2>7, <2>8, <2>9, <2>10 DEF Loaded, Between, Strobes
<1>9. S > 0
  <2>1. S # 0 BY <1>7 DEF Transfer
  <2> QED BY <1>6, <2>1
<1> QED BY <1>1, <1>4, <1>8, <1>9 DEF Transfer

\* A clock that serves the transfer keeps the invariant if it keeps the
\* transfer in a phase.
LEMMA ServesAll ==
  ASSUME Facts, UTInv, Active, NEW next \in InStates \cup {"IDLE", "PRIME_WAIT2"}, NEW out, Serving(out),
         Step(next, out), UNCHANGED busVars, TypesDma', ServingStep(next, out) => Transfer'
  PROVE  UTInv'
<1> USE DEF UTInv, Types
<1>1. ServingStep(next, out) BY Serves
<1>2. Place' /\ Calm' /\ Off' /\ Driver' /\ SetupPath' /\ Zero' BY <1>1, ServesControl
<1>3. next \in AllStates /\ OutType(out) BY Zenon DEF AllStates, PrimeWaits, Serving, OutType
<1>4. TypesReg' BY <1>3, StepTypes
<1>5. TypesBus' BY DEF TypesBus, busVars
<1>6. Active' /\ state' = next BY <1>1 DEF Active, ServingStep
<1>7. UNCHANGED <<lists, acked>> BY <1>1 DEF ServingStep, busVars
<1>8. History' BY <1>6, <1>7 DEF History, S, Least
<1>9. Filling' BY <1>6 DEF Filling, FillStates, InStates
<1> QED BY <1>1, <1>2, <1>4, <1>5, <1>8, <1>9

\* A clock that drives nothing serves the transfer.
LEMMA QuietServes ==
  /\ Serving(Quiet)
  /\ Quiet.tokenClear = {} /\ Quiet.packetClear = {} /\ Quiet.resendClear = {} /\ Quiet.select = None
BY DEF Serving, Quiet

\* During a transfer, IDLE keeps the invariant.
LEMMA ActiveIdle ==
  ASSUME Facts, UTInv, Active, NEW done, Idle(done), UNCHANGED busVars PROVE UTInv'
<1> USE DEF UTInv, Types
<1>1. primeSel = None /\ setupSel = None /\ state = "IDLE" /\ state \in Between BY DEF Calm, Idle, Between
<1>2. CASE tokenSel = None
  <2>1. Step("IDLE", Quiet) /\ UNCHANGED dmaVars BY <1>1, <1>2 DEF Idle, Wait, Drive
  <2>2. TypesDma' BY <2>1, Zenon DEF TypesDma, dmaVars
  <2>3. ServingStep("IDLE", Quiet) => Transfer'
    BY <1>1, <2>1, QuietServes, TransferPasses DEF Passing
  <2> QED BY <2>1, <2>2, <2>3, QuietServes, ServesAll
<1>3. CASE tokenSel = X
  <2> DEFINE out == [Quiet EXCEPT !.select = tokenSel]
  <2>1. tokenSel # None BY <1>3 DEF Facts
  <2>2. Step("START_IN_FRAMEWORK", out) /\ UNCHANGED dmaVars BY <1>1, <2>1 DEF Idle, Drive
  <2>3. Serving(out) /\ out.packetClear = {} /\ out.resendClear = {} BY <1>3 DEF Serving, Quiet
  <2> HIDE DEF out
  <2>4. TypesDma' BY <2>2, Zenon DEF TypesDma, dmaVars
  <2>5. ServingStep("START_IN_FRAMEWORK", out) => Transfer'
    BY <1>1, <2>1, <2>2, <2>3, TransferPasses DEF Passing
  <2>6. "START_IN_FRAMEWORK" \in InStates BY DEF InStates
  <2> QED BY <2>2, <2>3, <2>4, <2>5, <2>6, ServesAll
<1> QED BY <1>2, <1>3 DEF TypesReg

\* So do the states that only pass a clock.
LEMMA ActivePasses ==
  ASSUME Facts, UTInv, Active, NEW done, UNCHANGED busVars,
         PrimeWait1(done) \/ PrimeWait2(done) \/ InWait1(done)
  PROVE  UTInv'
<1> USE DEF UTInv, Types
<1>1. PICK next \in {"PRIME_WAIT2", "IDLE"} : Step(next, Quiet) /\ UNCHANGED dmaVars
  BY DEF PrimeWait1, PrimeWait2, InWait1, Drive
<1>2. state \in Between /\ state # "START_IN_FRAMEWORK" BY DEF PrimeWait1, PrimeWait2, InWait1, Between
<1>3. TypesDma' BY <1>1, Zenon DEF TypesDma, dmaVars
<1>4. ServingStep(next, Quiet) => Transfer'
  BY <1>1, <1>2, QuietServes, TransferPasses DEF Passing
<1> QED BY <1>1, <1>3, <1>4, QuietServes, ServesAll

\* So does START_IN_FRAMEWORK.
LEMMA ActiveStartIn ==
  ASSUME Facts, UTInv, Active, NEW done, StartIn(done), UNCHANGED busVars PROVE UTInv'
<1> USE DEF UTInv, Types
<1>1. state = "START_IN_FRAMEWORK" /\ state \in Between /\ endpt = X BY DEF StartIn, Calm, Between
<1>2. "START_IN_FRAMEWORK" \in InStates /\ "IN_HANDSHAKE" \in InStates BY DEF InStates
<1>3. CASE X \in inComplete
  <2> DEFINE out == [Quiet EXCEPT !.tokenClear = {endpt}, !.packetClear = {endpt}]
  <2>1. Step("IN_HANDSHAKE", out) /\ UNCHANGED dmaVars BY <1>1, <1>3 DEF StartIn, Drive
  <2>2. Serving(out) /\ out.tokenClear = {X} /\ out.packetClear = {X} /\ out.resendClear = {}
    BY <1>1 DEF Serving, Quiet
  <2> HIDE DEF out
  <2>3. TypesDma' BY <2>1, Zenon DEF TypesDma, dmaVars
  <2>4. inComplete = {X} BY <1>3 DEF TypesReg
  <2>5. UNCHANGED <<context, addr, addr_q, inLength>> /\ txFifo' = txFifo BY <2>1 DEF dmaVars
  <2>6. ServingStep("IN_HANDSHAKE", out) => Transfer'
    BY <1>1, <2>2, <2>4, <2>5, TransferStartIn
  <2> QED BY <1>2, <2>1, <2>2, <2>3, <2>6, ServesAll
<1>4. CASE X \notin inComplete /\ X \in resend
  <2> DEFINE out == [Quiet EXCEPT !.tokenClear = {endpt}]
  <2>1. Step("IN_HANDSHAKE", out) /\ txFifo' = None
        /\ UNCHANGED <<context, addr, addr_q, inLength, dqhSetup, memSetup>>
    BY <1>1, <1>4 DEF StartIn, Drive
  <2>2. Serving(out) /\ out.tokenClear = {X} /\ out.packetClear = {} /\ out.resendClear = {}
    BY <1>1 DEF Serving, Quiet
  <2> HIDE DEF out
  <2>3. TypesDma' BY <2>1, Zenon DEF TypesDma
  <2>4. inComplete = {} /\ resend = {X} BY <1>4 DEF TypesReg
  <2>5. ServingStep("IN_HANDSHAKE", out) => Transfer'
    BY <1>1, <2>1, <2>2, <2>4, TransferStartIn
  <2> QED BY <1>2, <2>1, <2>2, <2>3, <2>5, ServesAll
<1>5. CASE X \notin inComplete /\ X \notin resend
  <2> DEFINE out == [Quiet EXCEPT !.tokenClear = {endpt}]
  <2>1. Step("START_IN_FRAMEWORK", out) /\ UNCHANGED dmaVars BY <1>1, <1>5 DEF StartIn, Drive
  <2>2. Serving(out) /\ out.packetClear = {} /\ out.resendClear = {} BY <1>1 DEF Serving, Quiet
  <2> HIDE DEF out
  <2>3. TypesDma' BY <2>1, Zenon DEF TypesDma, dmaVars
  <2>4. ServingStep("START_IN_FRAMEWORK", out) => Transfer'
    BY <1>1, <2>1, <2>2, TransferPasses DEF Passing
  <2> QED BY <1>2, <2>1, <2>2, <2>3, <2>4, ServesAll
<1> QED BY <1>3, <1>4, <1>5

\* So does every wait of the IN framework.
LEMMA ActiveWaits ==
  ASSUME Facts, UTInv, Active, state \in InStates \ Between, Wait, UNCHANGED busVars,
         state = "IN_HANDSHAKE" => ~cntValid
  PROVE  UTInv'
<1> USE DEF UTInv, Types
<1>1. Step(state, Quiet) /\ UNCHANGED dmaVars BY DEF Wait, Drive
<1>2. TypesDma' BY <1>1, Zenon DEF TypesDma, dmaVars
<1>3. ServingStep(state, Quiet) => Transfer' BY <1>1, QuietServes, TransferWaits
<1> QED BY <1>1, <1>2, <1>3, QuietServes, ServesAll

\* So does IN_HANDSHAKE, which counts the packet.
LEMMA ActiveHandshake ==
  ASSUME Facts, UTInv, Active, NEW done, InHandshake(done), UNCHANGED busVars PROVE UTInv'
<1> USE DEF UTInv, Types
<1>1. state = "IN_HANDSHAKE" /\ state \in InStates \ Between /\ endpt = X
  BY DEF InHandshake, Calm, Between, InStates
<1>2. CASE ~cntValid BY <1>1, <1>2, ActiveWaits DEF InHandshake
<1>3. CASE cntValid
  <2>1. /\ Step("IN_WAIT0", Quiet) /\ UNCHANGED <<addr, addr_q, inLength, txFifo, dqhSetup, memSetup>>
        /\ context' = IF X \in resend THEN context
                      ELSE [context EXCEPT ![X].total = (@ - cntData) % 2 ^ 15]
    BY <1>1, <1>3 DEF InHandshake
  <2>2. context' \in [Endpoints -> [total : 0 .. 2 ^ 15 - 1, base : Nat, index : Nat, last : BOOLEAN]]
    <3>1. X \in Endpoints /\ context \in [Endpoints -> [total : 0 .. 2 ^ 15 - 1, base : Nat, index : Nat, last : BOOLEAN]]
      BY Zenon DEF TypesDma, Facts
    <3> DEFINE t == (context[X].total - cntData) % 2 ^ 15
    <3>2. t \in 0 .. 2 ^ 15 - 1
      <4>1. 2 ^ 15 \in Nat /\ 2 ^ 15 > 0 BY SMT
      <4>2. context[X].total \in 0 .. 2 ^ 15 - 1 BY <3>1, Zenon
      <4>3. context[X].total \in Int BY <4>1, <4>2
      <4>4. cntData \in Int BY DEF TypesReg
      <4> QED BY <4>1, <4>3, <4>4
    <3>3. CASE X \in resend BY <2>1, <3>1, <3>3, Zenon
    <3>4. CASE X \notin resend
      <4>1. context' = [context EXCEPT ![X].total = t] BY <2>1, <3>4
      <4> HIDE DEF t
      <4> QED BY <3>1, <3>2, <4>1, Zenon
    <3> QED BY <3>3, <3>4, Zenon
  <2>3. TypesDma' BY <2>1, <2>2, Zenon DEF TypesDma
  <2>4. ServingStep("IN_WAIT0", Quiet) => Transfer' BY <1>1, <1>3, <2>1, QuietServes, TransferCounts
  <2>5. "IN_WAIT0" \in InStates BY DEF InStates
  <2> QED BY <2>1, <2>3, <2>4, <2>5, QuietServes, ServesAll
<1> QED BY <1>2, <1>3

\* So does IN_WAIT0.
LEMMA ActiveWait0 ==
  ASSUME Facts, UTInv, Active, NEW done, InWait0(done), UNCHANGED busVars PROVE UTInv'
<1> USE DEF UTInv, Types
<1>1. state = "IN_WAIT0" /\ endpt = X BY DEF InWait0, Calm
<1>2. "IN_RELOAD_BUFFER" \in InStates /\ "IN_CHECK_COMPLETE" \in InStates BY DEF InStates
<1>3. CASE X \in resend
  <2> DEFINE out == [Quiet EXCEPT !.resendClear = {endpt}]
  <2>1. Step("IN_RELOAD_BUFFER", out) /\ UNCHANGED dmaVars BY <1>1, <1>3 DEF InWait0, Drive
  <2>2. Serving(out) /\ out.tokenClear = {} /\ out.packetClear = {} /\ out.resendClear = {X}
    BY <1>1 DEF Serving, Quiet
  <2> HIDE DEF out
  <2>3. TypesDma' BY <2>1, Zenon DEF TypesDma, dmaVars
  <2>4. ServingStep("IN_RELOAD_BUFFER", out) => Transfer'
    BY <1>1, <1>3, <2>1, <2>2, TransferWait0
  <2> QED BY <1>2, <2>1, <2>2, <2>3, <2>4, ServesAll
<1>4. CASE X \notin resend
  <2>1. Step("IN_CHECK_COMPLETE", Quiet) /\ UNCHANGED dmaVars BY <1>1, <1>4 DEF InWait0, Drive
  <2>2. TypesDma' BY <2>1, Zenon DEF TypesDma, dmaVars
  <2>3. ServingStep("IN_CHECK_COMPLETE", Quiet) => Transfer'
    BY <1>1, <1>4, <2>1, QuietServes, TransferWait0
  <2> QED BY <1>2, <2>1, <2>2, <2>3, QuietServes, ServesAll
<1> QED BY <1>3, <1>4

\* So does IN_CHECK_COMPLETE.
LEMMA ActiveCheck ==
  ASSUME Facts, UTInv, Active, NEW done, InCheckComplete(done), UNCHANGED busVars PROVE UTInv'
<1> USE DEF UTInv, Types
<1>1. state = "IN_CHECK_COMPLETE" /\ endpt = X /\ Total = T BY DEF InCheckComplete, Calm, Total, T
<1> DEFINE next == IF T = 0 THEN "IN_TRANSACTION_COMPLETE" ELSE "IN_TRANSFER_MM2S"
<1>2. next \in InStates BY DEF InStates
<1>3. Step(next, Quiet) /\ inLength' = Least(T) /\ UNCHANGED <<context, addr, addr_q, txFifo, dqhSetup, memSetup>>
  BY <1>1 DEF InCheckComplete, Least
<1>4. Least(T) \in 0 .. FifoSize
  <2>1. T \in Nat BY Sizes
  <2>2. FifoSize \in Nat BY DEF Facts
  <2> QED BY <2>1, <2>2 DEF Least
<1>5. TypesDma' BY <1>3, <1>4, Zenon DEF TypesDma
<1>6. ServingStep(next, Quiet) => Transfer' BY <1>1, <1>3, QuietServes, TransferChecks
<1> HIDE DEF next
<1> QED BY <1>2, <1>3, <1>5, <1>6, QuietServes, ServesAll

\* The buffers are at addresses.
LEMMA BufferIs == ASSUME Facts PROVE BufferOf(X) \in Nat /\ (N \in Endpoints => BufferOf(N) \in Nat)
BY DEF Facts, BufferOf

\* So does IN_TRANSFER_MM2S, which loads the next packet.
LEMMA ActiveTransfer ==
  ASSUME Facts, UTInv, Active, NEW done, InTransfer(done), UNCHANGED busVars PROVE UTInv'
<1> USE DEF UTInv, Types
<1>1. state = "IN_TRANSFER_MM2S" /\ state \in InStates \ Between /\ endpt = X /\ Number(endpt) = N
  BY DEF InTransfer, Calm, Between, InStates, Facts
<1>2. CASE ~done BY <1>1, <1>2, ActiveWaits DEF InTransfer
<1>3. CASE done
  <2>1. /\ txFifo' = [from |-> addr[N], len |-> inLength, number |-> N] /\ inLength > 0
        /\ addr' = [addr EXCEPT ![N] = context[X].base + cntData]
        /\ addr_q' = [addr_q EXCEPT ![N] = addr[N]]
        /\ Step("IN_WAIT1", Quiet) /\ UNCHANGED <<context, inLength, dqhSetup, memSetup>>
    BY <1>1, <1>3 DEF InTransfer, Load
  <2>2. context[X].base \in Nat /\ cntData \in Nat /\ addr[N] \in Nat /\ N \in Numbers /\ N \in Nat
    <3>1. X \in Endpoints /\ N \in Numbers /\ N \in Nat BY DEF Facts
    <3> QED BY <3>1, Zenon DEF TypesDma, TypesReg
  <2>3. addr' \in [Numbers -> Nat] /\ addr_q' \in [Numbers -> Nat]
    <3>1. context[X].base + cntData \in Nat BY <2>2
    <3> QED BY <2>1, <2>2, <3>1, Zenon DEF TypesDma
  <2>4. txFifo' \in Packets /\ txFifo'.len \in 1 .. FifoSize /\ txFifo'.number = N
    <3>1. FifoSize \in Nat /\ inLength \in 0 .. FifoSize BY Zenon DEF TypesDma, Facts
    <3> QED BY <2>1, <2>2, <3>1 DEF Packets
  <2>5. TypesDma' BY <2>1, <2>3, <2>4, Zenon DEF TypesDma
  <2>6. ServingStep("IN_WAIT1", Quiet) => Transfer' BY <1>1, <2>1, QuietServes, TransferLoads
  <2>7. "IN_WAIT1" \in InStates BY DEF InStates
  <2> QED BY <2>1, <2>5, <2>6, <2>7, QuietServes, ServesAll
<1> QED BY <1>2, <1>3

\* So does IN_RELOAD_BUFFER, which loads the same packet again.
LEMMA ActiveReload ==
  ASSUME Facts, UTInv, Active, NEW done, InReloadBuffer(done), UNCHANGED busVars PROVE UTInv'
<1> USE DEF UTInv, Types
<1>1. state = "IN_RELOAD_BUFFER" /\ state \in InStates \ Between /\ endpt = X /\ Number(endpt) = N
  BY DEF InReloadBuffer, Calm, Between, InStates, Facts
<1>2. CASE ~done BY <1>1, <1>2, ActiveWaits DEF InReloadBuffer
<1>3. CASE done
  <2>1. /\ txFifo' = [from |-> addr_q[N], len |-> inLength, number |-> N] /\ inLength > 0
        /\ Step("IN_WAIT1", Quiet) /\ UNCHANGED <<context, addr, addr_q, inLength, dqhSetup, memSetup>>
    BY <1>1, <1>3 DEF InReloadBuffer, Load
  <2>2. addr_q[N] \in Nat /\ N \in Nat
    <3>1. N \in Numbers /\ N \in Nat BY DEF Facts
    <3> QED BY <3>1, Zenon DEF TypesDma
  <2>3. txFifo' \in Packets /\ txFifo'.len \in 1 .. FifoSize /\ txFifo'.number = N
    <3>1. FifoSize \in Nat /\ inLength \in 0 .. FifoSize BY Zenon DEF TypesDma, Facts
    <3> QED BY <2>1, <2>2, <3>1 DEF Packets
  <2>4. TypesDma' BY <2>1, <2>3, Zenon DEF TypesDma
  <2>5. ServingStep("IN_WAIT1", Quiet) => Transfer' BY <1>1, <2>1, QuietServes, TransferLoads
  <2>6. "IN_WAIT1" \in InStates BY DEF InStates
  <2> QED BY <2>1, <2>4, <2>5, <2>6, QuietServes, ServesAll
<1> QED BY <1>2, <1>3

\* The last packet counted, the descriptor goes back to memory and the transfer is over.
LEMMA ActiveComplete ==
  ASSUME Facts, UTInv, Active, NEW done, InTransactionComplete(done), UNCHANGED busVars PROVE UTInv'
<1> USE DEF UTInv, Types
<1>1. state = "IN_TRANSACTION_COMPLETE" /\ state \in InStates \ Between /\ endpt = X
  BY DEF InTransactionComplete, Calm, Between, InStates
<1>2. CASE ~done BY <1>1, <1>2, ActiveWaits DEF InTransactionComplete
<1>3. CASE done
  <2> DEFINE out == [Quiet EXCEPT !.completeSet = {endpt}, !.statClear = {endpt}]
  <2>1. context[X].last BY DEF Transfer
  <2>2. Step("IDLE", out) /\ UNCHANGED dmaVars BY <1>1, <1>3, <2>1 DEF InTransactionComplete, Drive
  <2>3. /\ OutType(out) /\ out.select = None /\ out.command = FALSE /\ out.primeClear = {} /\ out.primeSet = {}
        /\ out.completeSet = {X} /\ out.statClear = {X} /\ out.statSet = {} /\ out.flushSet = {}
        /\ out.setupStatSet = {} /\ out.setupRecClear = {} /\ out.zlpSet = {}
        /\ out.tokenClear = {} /\ out.packetClear = {} /\ out.resendClear = {}
    BY <1>1 DEF OutType, Quiet
  <2> HIDE DEF out
  <2>4. "IDLE" \in AllStates BY DEF AllStates
  <2>5. TypesReg' BY <2>2, <2>3, <2>4, StepTypes
  <2>6. Strobes BY StrobesAre
  <2>7. UNCHANGED <<content, ready, uZlp, bus, control, acked, timeouts>> BY DEF busVars
  <2>8. UNCHANGED <<context, addr, addr_q, inLength, txFifo, dqhSetup, memSetup, lists>> /\ setupBuf' = setupBuf
    BY <2>2 DEF dmaVars, Step
  <2>9. TypesDma' /\ TypesBus' BY <2>7, <2>8, Zenon DEF TypesDma, TypesBus
  <2>10. /\ prime = {} /\ write = None /\ complete = {} /\ flush = {} /\ setupSel = None /\ setupRec = {}
         /\ setupStat = {} /\ setupStatQ = {} /\ pulse # Signal("setup", N) /\ primeSel = None
         /\ (Control = None \/ control = "data")
    BY <1>1 DEF Calm
  <2>11. /\ Unloaded /\ pulse = None /\ inToken = {} /\ inComplete = {} /\ resend = {} /\ tokenSel = None
         /\ clearOff = 0 /\ inLength = 0 /\ bus = None
    <3>1. CASE S > 0
      <4>1. Counted BY <1>1, <2>6, <3>1 DEF Transfer, Loaded, Owing, Resending, Between
      <4> QED BY <1>1, <4>1 DEF Counted, Quietly
    <3>2. CASE S = 0
      <4>1. Answered /\ txFifo = None /\ ready[N] = None /\ inLength = 0
        BY <1>1, <3>2 DEF Transfer, Fresh, Blocked, PrimeWaits
      <4> QED BY <1>1, <4>1 DEF Answered, Quietly, Unloaded, PrimeWaits
    <3>3. S \in Nat BY Sizes
    <3> QED BY <3>1, <3>2, <3>3
  <2>12. K \in {1, 2} /\ (S > FifoSize => K = 2) /\ lists[X] # <<>>
    <3>1. S \in Nat /\ FifoSize \in Nat /\ FifoSize > 0 BY Sizes DEF Facts
    <3>2. CASE S > 0
      <4>1. Counted /\ T = 0 /\ T = S - Gone(K) /\ K \in {1, 2}
        BY <1>1, <2>6, <3>2 DEF Transfer, Loaded, Owing, Resending, Between, Counted
      <4> QED BY <3>1, <4>1 DEF Gone, Least, Driver
    <3>3. CASE S = 0
      <4>1. K = 1
        BY <1>1, <3>3 DEF Transfer, Fresh, Blocked, PrimeWaits, Answered
      <4> QED BY <3>1, <3>3, <4>1 DEF Driver
    <3> QED BY <3>1, <3>2, <3>3
  <2>13. /\ state' = "IDLE" /\ prime' = {} /\ complete' = {X} /\ X \notin stat' /\ flush' = {}
         /\ setupStat' = {} /\ setupStatQ' = {} /\ setupRec' = {} /\ pulse' = None /\ write' = None
         /\ primeSel' = None /\ setupSel' = None /\ tokenSel' = None
         /\ inToken' = {} /\ inComplete' = {} /\ resend' = {} /\ clearOff' = 0
    <3>1. Written("prime") = {} /\ Written("complete") = {} /\ Written("setupStat") = {}
      BY <2>6, <2>10, Zenon DEF Strobes
    <3>2. Signalled("token") = {} /\ Signalled("complete") = {} /\ Signalled("resend") = {} /\ Signalled("setup") = {}
      BY <2>6, <2>11, Zenon DEF Strobes
    <3>3. prime' = {} /\ complete' = {X} BY <2>2, <2>3, <2>10, <3>1 DEF Step, EndpointRegisters
    <3>4. X \notin stat' /\ flush' = {} /\ setupStat' = {} /\ setupStatQ' = {}
      BY <2>2, <2>3, <2>10, <3>1 DEF Step, StatusRegisters
    <3>5. setupRec' = {} /\ inToken' = {} /\ inComplete' = {} /\ resend' = {}
      BY <2>2, <2>3, <2>10, <2>11, <3>2 DEF Step, EventRegisters, SetOrClear
    <3>6. Highest({}) = None BY Zenon DEF Facts
    <3>7. primeSel' = None /\ setupSel' = None /\ tokenSel' = None
      BY <2>2, <2>10, <2>11, <3>6 DEF Step, Selection
    <3>8. clearOff' = 0 BY <2>2, <2>11, <3>2 DEF Step, ZeroLength
    <3> QED BY <2>2, <3>3, <3>4, <3>5, <3>7, <3>8 DEF Step
  <2>14. ~Active' /\ ~Requested' BY <2>6, <2>13 DEF Active, Requested, Strobes
  <2>15. Place'
    BY <2>6, <2>10, <2>13, <2>14 DEF Place, InStates, SetupStates, FetchStates, FillStates, PrimeWaits, Facts, Strobes
  <2>16. Calm' /\ Transfer' BY <2>14 DEF Calm, Transfer
  <2>17. Off' BY <2>7, <2>8, <2>11, <2>13 DEF Off, Unloaded, NoReport
  <2>18. Driver' BY <2>6, <2>8, <2>12, <2>13, <2>14 DEF Driver, Strobes
  <2>19. History'
    <3>1. S' = S /\ Least(S)' = Least(S) BY <2>8 DEF S, Least
    <3>2. acked[X] # <<>> /\ (S > FifoSize => Len(acked[X]) = 2) BY <2>12 DEF K
    <3> QED BY <2>7, <2>8, <3>1, <3>2 DEF History
  <2>20. SetupPath'
    BY <2>6, <2>7, <2>10, <2>13, <2>14 DEF SetupPath, NoSetup, TailOver, Trailing, Cleared, SetupStates, Strobes
  <2>21. zlp' = {} /\ zlp_q' = {} /\ (zlpMask # {X} => uZlp = {} /\ zlpCross' = None /\ ~zlpPush')
         /\ (zlpMask = {X} => zlpCross' # {X} /\ (uZlp = {} \/ zlpPush' \/ zlpCross' = {}))
    <3>1. zlp' = SetOrClear(zlp, {}, zlpMask) /\ zlp_q' = zlp
          /\ zlpPush' = (zlp_q # zlp /\ zlpCross = None)
          /\ zlpCross' = (IF zlpPush /\ zlpCross = None THEN zlp ELSE zlpCross) /\ zlpMask' = zlpMask
      BY <2>2, <2>3, <2>11 DEF Step, ZeroLength
    <3>2. CASE S > 0
      <4>1. zlp = {} /\ zlp_q = {} BY <3>2 DEF Zero, ZeroOver, ZActive
      <4>2. zlp' = {} BY <3>1, <4>1 DEF SetOrClear
      <4> QED BY <3>1, <3>2, <4>1, <4>2 DEF Zero, ZActive, TypesReg
    <3>3. CASE S = 0
      <4>1. zlp = {} /\ zlp_q = {} /\ zlpMask = {X}
        BY <1>1, <3>3 DEF Transfer, Fresh, Blocked, PrimeWaits, Answered
      <4>2. zlp' = {} BY <3>1, <4>1 DEF SetOrClear
      <4> QED BY <3>1, <3>3, <4>1, <4>2, Zenon DEF Zero, TypesReg
    <3>4. S \in Nat BY Sizes
    <3> QED BY <3>2, <3>3, <3>4
  <2>22. Zero'
    <3>1. ~ZActive' BY <2>14 DEF ZActive
    <3>2. zlpMask' = zlpMask BY <2>2 DEF Step, ZeroLength
    <3> QED BY <2>7, <2>11, <2>13, <2>21, <3>1, <3>2 DEF Zero, ZeroOver
  <2>23. Filling' BY <2>13 DEF Filling, FillStates
  <2> QED BY <2>5, <2>9, <2>15, <2>16, <2>17, <2>18, <2>19, <2>20, <2>22, <2>23
<1> QED BY <1>2, <1>3

\* During a transfer every clock of the manager keeps the invariant.
LEMMA ActiveClock ==
  ASSUME Facts, UTInv, Active, NEW done, Clock(done), UNCHANGED busVars PROVE UTInv'
<1>1. state \in InStates \cup PrimeWaits \cup {"IDLE"} BY DEF UTInv, Calm
<1>2. Idle(done) \/ PrimeWait1(done) \/ PrimeWait2(done) \/ StartIn(done) \/ InHandshake(done) \/ InWait0(done)
      \/ InCheckComplete(done) \/ InTransfer(done) \/ InReloadBuffer(done) \/ InWait1(done)
      \/ InTransactionComplete(done)
  BY <1>1 DEF Clock, InStates, PrimeWaits, SetupLockout, SetupBytes, SetupWait1, SetupS2MM, SetupUpdateReceived,
     SetupWait2, PrimeDqh, PrimeWait0, PrimeDtd, PrimeFillFifo, PrimeFillFifo1, PrimeFillFifo2, InFetchNextDtd,
     InWait2
<1> QED BY <1>2, ActiveIdle, ActivePasses, ActiveStartIn, ActiveHandshake, ActiveWait0, ActiveCheck, ActiveTransfer,
           ActiveReload, ActiveComplete

-----------------------------------------------------------------------------
(* A clock of the manager with no transfer. *)

\* What the manager drives while no transfer is on, and none begins.
Resting(out) ==
  /\ OutType(out) /\ out.primeClear \in {{}, {N}} /\ out.statSet \in {{}, {N}}
  /\ out.completeSet = {} /\ out.statClear = {} /\ out.zlpSet = {}

RestingStep(next, out) ==
  /\ state' = next /\ endpt' = (IF out.select = None THEN endpt ELSE out.select) /\ arbEndpt' = endpt
  /\ primeSel' = (IF prime = {} THEN None ELSE IF prime = {N} THEN N ELSE X)
  /\ setupSel' = (IF setupRec = {} THEN None ELSE N) /\ tokenSel' = None
  /\ prime' = IF write = Signal("prime", X) THEN {X} ELSE IF write = Signal("prime", N) THEN {N}
              ELSE IF write # None \/ out.command THEN prime ELSE prime \ out.primeClear
  /\ complete' = (IF write = Signal("complete", X) THEN {} ELSE complete)
  /\ X \notin stat' \/ out.statSet = {X}
  /\ flush' = (IF flushClear THEN {} ELSE flush \cup out.flushSet) /\ flushClear' = (flush # {})
  /\ setupStat' = IF write = Signal("setupStat", N) THEN {} ELSE setupStat \cup setupStatQ
  /\ setupStatQ' = out.setupStatSet
  /\ setupRec' = IF pulse = Signal("setup", N) THEN {N} ELSE setupRec \ out.setupRecClear
  /\ setupAck' = (pulse # Signal("setup", N) /\ out.setupRecClear # {})
  /\ inToken' = {} /\ inComplete' = {} /\ resend' = {} /\ clearOff' = 0
  /\ zlp' = out.zlpSet /\ zlp_q' = {} /\ zlpPush' = FALSE
  /\ zlpCross' = (IF zlpPush /\ zlpCross = None THEN {} ELSE zlpCross) /\ zlpMask' = zlpMask
  /\ pulse' = None /\ write' = None /\ cntLoc' = cntLoc /\ setupBuf' = setupBuf /\ lists' = lists

\* A clock with no transfer, in the registers.
LEMMA Rests ==
  ASSUME Facts, TypesReg, Off, Zero, ~Active, NEW next, NEW out, OutType(out),
         out.completeSet = {}, out.statClear = {}, Step(next, out)
  PROVE  RestingStep(next, out)
<1>1. Strobes BY StrobesAre
<1>2. inToken = {} /\ inComplete = {} /\ resend = {} /\ pulse \in {None, Signal("setup", N)} /\ clearOff = 0
  BY DEF Off, NoReport
<1>3. zlp = {} /\ zlp_q = {} BY DEF Zero, ZeroOver, ZActive
<1>4. Signalled("token") = {} /\ Signalled("complete") = {} /\ Signalled("resend") = {}
  BY <1>1, <1>2, Zenon DEF Strobes
<1>5. state' = next /\ endpt' = (IF out.select = None THEN endpt ELSE out.select) /\ arbEndpt' = endpt
  BY DEF Step, Selection
<1>6. Highest({}) = None /\ Highest({N}) = N /\ Highest({X}) = X BY Zenon DEF Facts
<1>7. /\ primeSel' = (IF prime = {} THEN None ELSE IF prime = {N} THEN N ELSE X)
      /\ setupSel' = (IF setupRec = {} THEN None ELSE N) /\ tokenSel' = None
  BY <1>2, <1>6, Zenon DEF Step, Selection, TypesReg
<1>8. prime' = IF write = Signal("prime", X) THEN {X} ELSE IF write = Signal("prime", N) THEN {N}
               ELSE IF write # None \/ out.command THEN prime ELSE prime \ out.primeClear
  BY <1>1, Zenon DEF Step, EndpointRegisters, OutType, Strobes
<1>9. complete' = (IF write = Signal("complete", X) THEN {} ELSE complete)
  BY <1>1, Zenon DEF Step, EndpointRegisters, OutType, Strobes, TypesReg
<1>10. X \notin stat' \/ out.statSet = {X}
  <2>1. X \notin stat BY DEF Active
  <2>2. X # N BY DEF Facts
  <2> QED BY <2>1, <2>2 DEF Step, StatusRegisters, OutType
<1>11. flush' = (IF flushClear THEN {} ELSE flush \cup out.flushSet) /\ flushClear' = (flush # {})
  BY DEF Step, StatusRegisters
<1>12. setupStat' = (IF write = Signal("setupStat", N) THEN {} ELSE setupStat \cup setupStatQ)
       /\ setupStatQ' = out.setupStatSet
  BY <1>1, Zenon DEF Step, StatusRegisters, Strobes, TypesReg
<1>13. /\ setupRec' = (IF pulse = Signal("setup", N) THEN {N} ELSE setupRec \ out.setupRecClear)
       /\ setupAck' = (pulse # Signal("setup", N) /\ out.setupRecClear # {})
  BY <1>1, Zenon DEF Step, EventRegisters, Strobes
<1>14. inToken' = {} /\ inComplete' = {} /\ resend' = {}
  BY <1>2, <1>4 DEF Step, EventRegisters, SetOrClear
<1>15. zlp' = out.zlpSet /\ clearOff' = 0
  BY <1>2, <1>3, <1>4, Zenon DEF Step, ZeroLength, SetOrClear
<1>16. /\ zlp_q' = {} /\ zlpPush' = FALSE /\ zlpMask' = zlpMask
       /\ zlpCross' = (IF zlpPush /\ zlpCross = None THEN {} ELSE zlpCross)
  BY <1>3, Zenon DEF Step, ZeroLength
<1>17. pulse' = None /\ write' = None /\ cntLoc' = cntLoc /\ setupBuf' = setupBuf /\ lists' = lists
  BY DEF Step
<1> QED BY <1>5, <1>7, <1>8, <1>9, <1>10, <1>11, <1>12, <1>13, <1>14, <1>15, <1>16, <1>17 DEF RestingStep

\* Where a SETUP packet takes the manager.
Onward(next, out) ==
  /\ TailOver => next \notin SetupStates
  /\ Trailing => next \notin SetupStates \ {"SETUP_WAIT2"} /\ out.setupStatSet = {}
  /\ out.flushSet # {} => next = "SETUP_UPDATE_SETUP_BYTES"
  /\ state = "SETUP_UPDATE_SETUP_BYTES" => next = "SETUP_WAIT1"

\* The request for a transfer stays until the transfer begins.
LEMMA RequestStays ==
  ASSUME Facts, TypesReg, Driver, NEW next, NEW out, RestingStep(next, out),
         out.primeClear \in {{}, {N}}
  PROVE  Requested' = Requested
<1>1. Strobes BY StrobesAre
<1>2. X # N BY DEF Facts
<1>3. {N} # {X} /\ {} # {X} /\ {X} \ out.primeClear = {X} BY <1>2
<1>4. prime \ out.primeClear = {X} => prime = {X} BY DEF TypesReg
<1>5. ASSUME Requested PROVE Requested'
  <2>1. CASE prime = {X}
    <3>1. write = None BY <2>1 DEF Driver
    <3>2. prime' = {X} BY <1>1, <1>3, <2>1, <3>1 DEF RestingStep, Strobes
    <3> QED BY <3>2 DEF Requested
  <2>2. CASE write = Signal("prime", X) BY <2>2 DEF RestingStep, Requested
  <2> QED BY <1>5, <2>1, <2>2 DEF Requested
<1>6. ASSUME Requested' PROVE Requested
  <2>1. prime' = {X} BY <1>1, <1>6 DEF RestingStep, Requested, Strobes
  <2> QED BY <1>3, <1>4, <2>1 DEF RestingStep, Requested
<1> QED BY <1>5, <1>6 DEF Requested

\* Such a clock keeps the SETUP packet on its way.
LEMMA RestSetup ==
  ASSUME Facts, TypesReg, Driver, SetupPath, ~Active, NEW next, NEW out, RestingStep(next, out),
         Requested' = Requested, X \notin stat', Onward(next, out), control = "setup" /\ SetupWay => SetupWay', UNCHANGED busVars
  PROVE  SetupPath'
<1>1. Strobes BY StrobesAre
<1>2. control' = control BY DEF busVars
<1>3. ~Active' BY DEF Active
<1>4. pulse' = None /\ NoSetup = (setupRec = {} /\ pulse # Signal("setup", N)) BY DEF RestingStep, NoSetup
<1>5. NoSetup => NoSetup' /\ setupSel' = None BY <1>1 DEF NoSetup, RestingStep, Strobes
<1>6. NoSetup /\ TailOver => TailOver' BY <1>5 DEF Onward, TailOver, RestingStep
<1>7. NoSetup /\ Trailing => Trailing' /\ setupStatQ' = {} BY <1>5 DEF Onward, Trailing, RestingStep
<1>8. TailOver => Trailing BY DEF TailOver, Trailing
<1>9. Cleared => Cleared' BY <1>1 DEF Cleared, RestingStep
<1>10. setupStatQ = {} /\ setupStat = {} => setupStat' = {} BY DEF RestingStep
<1>11. setupStatQ = {} /\ (setupStat = {N} => write = Signal("setupStat", N)) => setupStat' = {}
  BY DEF RestingStep, TypesReg
<1>12. zlpMask' = zlpMask /\ write' = None BY DEF RestingStep
<1>13. control = "idle" => NoSetup' /\ TailOver' /\ setupStat' = {} /\ setupStatQ' = {}
  BY <1>5, <1>6, <1>7, <1>8, <1>10 DEF SetupPath
<1>14. control = "idle" /\ Control # None => ~Requested' /\ ~Active' /\ Cleared'
  BY <1>3, <1>9 DEF SetupPath
<1>15. control = "setup" => SetupWay' /\ ~Requested' /\ ~Active' /\ zlpMask' = {N} /\ Cleared'
  BY <1>3, <1>9, <1>12 DEF SetupPath
<1>16. control = "answer" =>
       /\ NoSetup' /\ Trailing' /\ setupStatQ' = {} /\ ~Requested' /\ ~Active' /\ zlpMask' = {N} /\ Cleared'
       /\ setupStat' = {}
  BY <1>3, <1>5, <1>7, <1>9, <1>11, <1>12 DEF SetupPath
<1>17. control = "data" => /\ NoSetup' /\ Trailing' /\ setupStatQ' = {} /\ setupStat' = {}
                           /\ (Requested' \/ TailOver')
                           /\ (Requested' => zlpMask' = {N})
                           /\ write' # Signal("complete", X)
  BY <1>1, <1>5, <1>6, <1>7, <1>10, <1>12 DEF SetupPath, Strobes
<1>18. flush' # {} => state' \in {"SETUP_UPDATE_SETUP_BYTES", "SETUP_WAIT1"}
  BY DEF SetupPath, Onward, RestingStep, TypesReg
<1>19. state' = "SETUP_WAIT1" /\ flush' # {} => flushClear'
  BY Zenon DEF SetupPath, Onward, RestingStep, TypesReg
<1>20. {} # {N} OBVIOUS
<1> QED BY <1>2, <1>13, <1>14, <1>15, <1>16, <1>17, <1>18, <1>19, <1>20 DEF SetupPath

\* The registers of a step with no transfer.
LEMMA RestFrame ==
  ASSUME Facts, TypesReg, TypesBus, Off, Driver, Zero, History, ~Active, NEW next, NEW out, RestingStep(next, out),
         Requested' = Requested, X \notin stat', out.zlpSet = {}, txFifo' = None, inLength' = inLength,
         UNCHANGED busVars
  PROVE  Calm' /\ Off' /\ Driver' /\ Zero' /\ History' /\ Transfer'
<1>1. Strobes BY StrobesAre
<1>2. UNCHANGED <<content, ready, uZlp, bus, control, acked, timeouts>> BY DEF busVars
<1>3. ~Active' BY DEF Active
<1>4. Off' BY <1>2, <1>3 DEF Off, Unloaded, NoReport, RestingStep
<1>5. Driver' BY <1>1, <1>2, <1>3 DEF Driver, RestingStep, Requested, Strobes
<1>6. History'
  <2>1. S' = S /\ Least(S)' = Least(S) BY DEF S, Least, RestingStep
  <2> QED BY <1>2, <1>3, <2>1 DEF History, RestingStep
<1>7. Zero'
  <2>1. ~ZActive /\ ~ZActive' BY <1>3 DEF ZActive
  <2>2. bus = None BY DEF Off, Unloaded
  <2>3. ZeroOver' BY DEF ZeroOver, RestingStep
  <2>4. zlpMask' # {X} => uZlp' = {} /\ zlpCross' = None /\ ~zlpPush' BY <1>2, <2>1 DEF Zero, RestingStep
  <2>5. zlpMask' = {X} => /\ zlpCross' # {X} /\ ~(zlpPush' /\ zlp' # {})
                          /\ (uZlp' = {} \/ zlp' = {X} \/ zlp_q' = {X} \/ zlpPush' \/ zlpCross' = {})
                          /\ (zlp' = {X} /\ zlp_q' = {} => clearOff' = 0)
    <3>1. zlp = {} /\ zlp_q = {} BY <2>1 DEF Zero, ZeroOver
    <3> QED BY <1>2, <3>1 DEF Zero, RestingStep, TypesReg
  <2> QED BY <1>2, <2>1, <2>2, <2>3, <2>4, <2>5 DEF Zero
<1> QED BY <1>3, <1>4, <1>5, <1>6, <1>7 DEF Calm, Transfer

\* A clock that starts no transfer keeps the invariant if it keeps the place
\* and the SETUP packet's way.
LEMMA RestsAll ==
  ASSUME Facts, UTInv, ~Active, NEW next \in AllStates, NEW out, Resting(out), Step(next, out),
         txFifo' = None, inLength' = inLength, TypesDma', UNCHANGED busVars,
         Onward(next, out),
         RestingStep(next, out) => Place' /\ Filling' /\ (control = "setup" /\ SetupWay => SetupWay')
  PROVE  UTInv'
<1> USE DEF UTInv, Types
<1>1. OutType(out) /\ out.completeSet = {} /\ out.statClear = {} /\ out.zlpSet = {}
      /\ out.primeClear \in {{}, {N}} /\ out.statSet \in {{}, {N}}
  BY DEF Resting
<1>2. TypesReg' BY <1>1, StepTypes
<1>3. RestingStep(next, out) BY <1>1, Rests
<1>4. Requested' = Requested BY <1>1, <1>3, RequestStays
<1>5. X \notin stat'
  <2>1. X # N BY DEF Facts
  <2> QED BY <1>1, <1>3, <2>1 DEF RestingStep
<1>6. SetupPath' BY <1>3, <1>4, <1>5, RestSetup
<1>7. Calm' /\ Off' /\ Driver' /\ Zero' /\ History' /\ Transfer' BY <1>1, <1>3, <1>4, <1>5, RestFrame
<1>8. TypesBus' BY DEF TypesBus, busVars
<1> QED BY <1>2, <1>3, <1>6, <1>7, <1>8

\* The endpoint e a step without a transfer leads to, with the state.
Heads(next, e) ==
  /\ next \in SetupStates => e = N
  /\ next \in FetchStates => e \in Endpoints /\ lists[e] # <<>>
  /\ next \in FetchStates \cup FillStates /\ e = X => prime = {X}
  /\ next \in FillStates => e = X
  /\ next \in FillStates \cup {"PRIME_WAIT0", "PRIME_MM2S_DTD"} /\ e = X => endpt = X
  /\ next \in PrimeWaits => e \in Endpoints /\ e # X
  /\ next \notin InStates

\* It keeps the place if it leads to an endpoint the next state may work on.
LEMMA RestPlace ==
  ASSUME Facts, TypesReg, Place, Driver, ~Active, NEW next, NEW out, RestingStep(next, out),
         out.primeClear \in {{}, {N}}, Heads(next, endpt')
  PROVE  Place'
<1>1. Strobes BY StrobesAre
<1>2. N # X BY DEF Facts
<1>3. state' = next /\ arbEndpt' = endpt /\ lists' = lists /\ write' = None BY DEF RestingStep
<1>4. prime = {X} => prime' = {X} /\ primeSel' = X
  <2>1. prime = {X} => write = None BY DEF Driver
  <2>2. {X} \ out.primeClear = {X} /\ {X} # {} /\ {X} # {N} BY <1>2
  <2> QED BY <1>1, <2>1, <2>2 DEF RestingStep, Strobes
<1>5. state' \in SetupStates => endpt' = N BY <1>3 DEF Heads
<1>6. state' \in FetchStates => endpt' \in Endpoints /\ lists'[endpt'] # <<>> BY <1>3 DEF Heads
<1>7. state' \in FetchStates /\ endpt' = X => prime' = {X} /\ primeSel' = X BY <1>3, <1>4 DEF Heads
<1>8. state' \in FillStates => endpt' = X /\ prime' = {X} /\ primeSel' = X BY <1>3, <1>4 DEF Heads
<1>9. state' \in FillStates \cup {"PRIME_WAIT0", "PRIME_MM2S_DTD"} /\ endpt' = X => arbEndpt' = X
  BY <1>3 DEF Heads
<1>10. state' \in PrimeWaits => endpt' \in Endpoints /\ (endpt' = X => Active') BY <1>3 DEF Heads
<1>11. state' \in InStates => Active' BY <1>3 DEF Heads
<1>12. N \in prime' \/ write' = Signal("prime", N) \/ primeSel' = N => N \in Endpoints /\ lists'[N] # <<>>
  <2>1. write' # Signal("prime", N) BY <1>1, <1>3 DEF Strobes
  <2>2. N \in prime' => N \in prime \/ write = Signal("prime", N)
    BY <1>2 DEF RestingStep
  <2>3. primeSel' = N => N \in prime
    <3>1. None # N BY DEF Facts
    <3> QED BY <1>2, <3>1 DEF RestingStep
  <2> QED BY <1>3, <2>1, <2>2, <2>3 DEF Place
<1>13. prime' = {X} \/ write' = Signal("prime", X) \/ primeSel' = X => lists'[X] # <<>>
  <2>1. write' # Signal("prime", X) BY <1>1, <1>3 DEF Strobes
  <2>2. prime' = {X} => prime = {X} \/ write = Signal("prime", X)
    <3>1. prime \ out.primeClear = {X} => prime = {X} BY <1>2 DEF TypesReg
    <3>2. {N} # {X} BY <1>2
    <3> QED BY <3>1, <3>2 DEF RestingStep
  <2>3. primeSel' = X => prime = {X}
    <3>1. None # X BY DEF Facts
    <3> QED BY <1>2, <3>1 DEF RestingStep, TypesReg
  <2> QED BY <1>3, <2>1, <2>2, <2>3 DEF Place
<1>14. primeSel' = X => prime' = {X}
  <2>1. primeSel' = X => prime = {X}
    <3>1. None # X BY DEF Facts
    <3> QED BY <1>2, <3>1 DEF RestingStep, TypesReg
  <2> QED BY <1>4, <2>1
<1> QED BY <1>5, <1>6, <1>7, <1>8, <1>9, <1>10, <1>11, <1>12, <1>13, <1>14 DEF Place

\* A SETUP packet's way while the manager is elsewhere.
LEMMA SetupAside ==
  ASSUME Facts, TypesReg, Driver, SetupPath, NEW next, NEW out, RestingStep(next, out), SetupWay, control = "setup",
         out.setupStatSet = {}, out.setupRecClear = {}, memSetup' = memSetup,
         state # "SETUP_UPDATE_ENDPTSETUP_RECEIVED", Onward(next, out),
         next \notin {"SETUP_UPDATE_ENDPTSETUP_RECEIVED", "SETUP_WAIT2"},
         next \in {"SETUP_WAIT1", "SETUP_S2MM"} =>
             state \in SetupStates \ {"SETUP_WAIT2"} /\ dqhSetup' = setupBuf
  PROVE  SetupWay'
<1>1. Strobes BY StrobesAre
<1>2. {N} # {} OBVIOUS
<1>3. CASE pulse = Signal("setup", N) /\ setupRec = {} /\ TailOver /\ setupStat = {} /\ setupStatQ = {}
  <2>1. /\ pulse' = None /\ setupRec' = {N} /\ setupStat' = {} /\ setupStatQ' = {} /\ ~setupAck' /\ state' = next
    BY <1>3, Zenon DEF RestingStep
  <2>2. next \notin {"SETUP_WAIT1", "SETUP_S2MM"} BY <1>3 DEF TailOver
  <2> QED BY <2>1, <2>2 DEF SetupWay
<1>4. CASE /\ pulse = None /\ setupRec = {N} /\ setupStat = {} /\ setupStatQ = {} /\ ~setupAck
  <2>1. /\ pulse' = None /\ setupRec' = {N} /\ setupStat' = {} /\ setupStatQ' = {} /\ ~setupAck' /\ state' = next
        /\ setupBuf' = setupBuf
    BY <1>1, <1>4, Zenon DEF RestingStep
  <2> QED BY <2>1 DEF SetupWay
<1>5. CASE /\ pulse = None /\ setupRec = {} /\ setupStat = {N} /\ setupStatQ = {} /\ Trailing
           /\ memSetup = setupBuf
  <2>1. write # Signal("setupStat", N) BY DEF Driver
  <2>2. /\ pulse' = None /\ setupRec' = {} /\ setupStat' = {N} /\ setupStatQ' = {} /\ state' = next
        /\ setupBuf' = setupBuf /\ setupSel' = None
    BY <1>1, <1>5, <2>1 DEF RestingStep, Strobes
  <2>3. next \notin SetupStates \ {"SETUP_WAIT2"} BY <1>5 DEF Onward
  <2> QED BY <1>5, <2>2, <2>3 DEF SetupWay, Trailing
<1> QED BY <1>3, <1>4, <1>5 DEF SetupWay

\* A clock that drives nothing starts no transfer.
LEMMA QuietRests == Resting(Quiet) /\ Quiet.select = None /\ Quiet.setupStatSet = {} /\ Quiet.flushSet = {}
                    /\ Quiet.primeClear = {} /\ Quiet.setupRecClear = {}
BY DEF Resting, OutType, Quiet

\* To select no endpoint is to drive nothing.
LEMMA QuietSelects == [Quiet EXCEPT !.select = None] = Quiet
<1> DEFINE q == Quiet
<1>1. q.select = None /\ "select" \in DOMAIN q /\ q = [f \in DOMAIN q |-> q[f]] BY Zenon DEF Quiet
<1> HIDE DEF q
<1>2. [q EXCEPT !.select = None] = q BY <1>1
<1> QED BY <1>2 DEF q

\* With no transfer, IDLE keeps the invariant.
LEMMA RestIdle ==
  ASSUME Facts, UTInv, ~Active, NEW done, Idle(done), UNCHANGED busVars PROVE UTInv'
<1> USE DEF UTInv, Types
<1>1. state = "IDLE" /\ tokenSel = None /\ primeSel \in {None, N, X} /\ setupSel \in {None, N} /\ txFifo = None
  BY DEF Idle, Off, Unloaded, TypesReg
<1>2. None # N /\ None # X /\ N # X BY DEF Facts
<1>3. PICK sel \in {None, N, X}, next \in {"IDLE", "PRIME_MM2S_DQH", "SETUP_LOCKOUT_TRIPWIRE"} :
           /\ Drive(next, [Quiet EXCEPT !.select = sel])
           /\ next = "IDLE" => sel = None
           /\ next = "PRIME_MM2S_DQH" => sel = primeSel /\ sel # None
           /\ next = "SETUP_LOCKOUT_TRIPWIRE" => sel = N /\ setupSel = N
  <2>1. CASE primeSel # None BY <1>1, <2>1 DEF Idle
  <2>2. CASE primeSel = None /\ setupSel # None BY <1>1, <2>2 DEF Idle
  <2>3. CASE primeSel = None /\ setupSel = None
    <3>1. Drive("IDLE", Quiet) BY <1>1, <2>3 DEF Idle, Wait
    <3> QED BY <3>1, QuietSelects
  <2> QED BY <2>1, <2>2, <2>3
<1> DEFINE out == [Quiet EXCEPT !.select = sel]
<1>4. Step(next, out) /\ UNCHANGED dmaVars BY <1>3 DEF Drive
<1>5. Resting(out) /\ out.select = sel /\ out.setupStatSet = {} /\ out.flushSet = {} /\ out.primeClear = {}
      /\ out.setupRecClear = {}
  BY DEF Resting, OutType, Quiet
<1> HIDE DEF out
<1>6. txFifo' = None /\ inLength' = inLength /\ TypesDma' /\ memSetup' = memSetup BY <1>1, <1>4, Zenon DEF dmaVars, TypesDma
<1>7. Onward(next, out) BY <1>1, <1>2, <1>3, <1>5 DEF Onward, TailOver, Trailing, SetupStates
<1>8. next \in AllStates BY DEF AllStates, SetupStates, FetchStates
<1>9. ASSUME RestingStep(next, out) PROVE Place' /\ Filling' /\ (control = "setup" /\ SetupWay => SetupWay')
  <2>1. endpt' = IF sel = None THEN endpt ELSE sel BY <1>5, <1>9 DEF RestingStep
  <2>2. Heads(next, endpt')
    <3>1. next = "IDLE" => next \notin SetupStates \cup FetchStates \cup FillStates \cup PrimeWaits \cup InStates
      BY DEF SetupStates, FetchStates, FillStates, PrimeWaits, InStates
    <3>2. next = "PRIME_MM2S_DQH" =>
            /\ next \notin SetupStates \cup FillStates \cup PrimeWaits \cup InStates
            /\ next \in FetchStates /\ next \notin {"PRIME_WAIT0", "PRIME_MM2S_DTD"}
      BY DEF SetupStates, FetchStates, FillStates, PrimeWaits, InStates
    <3>3. next = "SETUP_LOCKOUT_TRIPWIRE" =>
            /\ next \notin FetchStates \cup FillStates \cup PrimeWaits \cup InStates
            /\ next \notin {"PRIME_WAIT0", "PRIME_MM2S_DTD"}
      BY DEF SetupStates, FetchStates, FillStates, PrimeWaits, InStates
    <3>4. CASE next = "IDLE" BY <3>1, <3>4 DEF Heads
    <3>5. CASE next = "PRIME_MM2S_DQH"
      <4>1. endpt' = primeSel /\ primeSel \in {N, X} BY <1>1, <1>3, <2>1, <3>5
      <4>2. primeSel = N => N \in Endpoints /\ lists[N] # <<>> BY DEF Place
      <4>3. primeSel = X => prime = {X} /\ X \in Endpoints /\ lists[X] # <<>>
        BY <1>1 DEF Place, Facts
      <4> QED BY <3>2, <3>5, <4>1, <4>2, <4>3, <1>2 DEF Heads
    <3>6. CASE next = "SETUP_LOCKOUT_TRIPWIRE"
      <4>1. endpt' = N BY <1>2, <1>3, <2>1, <3>6
      <4> QED BY <3>3, <3>6, <4>1, <1>2 DEF Heads
    <3> QED BY <1>3, <3>4, <3>5, <3>6
  <2>3. Place' BY <1>5, <1>9, <2>2, RestPlace
  <2>4. Filling' BY <1>9 DEF Filling, FillStates, RestingStep
  <2>5. next \notin {"SETUP_UPDATE_ENDPTSETUP_RECEIVED", "SETUP_WAIT2", "SETUP_WAIT1", "SETUP_S2MM"} OBVIOUS
  <2>6. control = "setup" /\ SetupWay => SetupWay'
    BY <1>1, <1>5, <1>6, <1>7, <1>9, <2>5, SetupAside
  <2> QED BY <2>3, <2>4, <2>6
<1> QED BY <1>4, <1>5, <1>6, <1>7, <1>8, <1>9, RestsAll

\* A step that serves a SETUP packet.
LEMMA SetupMoves ==
  ASSUME Facts, UTInv, ~Active, state \in SetupStates, NEW next \in SetupStates \cup {"IDLE"}, NEW out,
         Resting(out), out.select = None, out.primeClear = {}, Step(next, out), UNCHANGED busVars,
         UNCHANGED <<context, addr, addr_q, inLength, txFifo>>,
         dqhSetup' \in {dqhSetup, setupBuf}, memSetup' \in {memSetup, dqhSetup},
         Onward(next, out), RestingStep(next, out) => (control = "setup" /\ SetupWay => SetupWay')
  PROVE  UTInv'
<1> USE DEF UTInv, Types
<1>1. txFifo' = None /\ inLength' = inLength BY DEF Off, Unloaded
<1>2. TypesDma' BY Zenon DEF TypesDma, TypesReg
<1>3. next \in AllStates BY DEF AllStates
<1>4. ASSUME RestingStep(next, out) PROVE Place' /\ Filling'
  <2>1. endpt' = N BY <1>4 DEF RestingStep, Place
  <2>2. N # X BY DEF Facts
  <2>3. next \notin FetchStates \cup FillStates \cup PrimeWaits \cup InStates \cup {"PRIME_WAIT0", "PRIME_MM2S_DTD"}
    BY DEF SetupStates, FetchStates, FillStates, PrimeWaits, InStates
  <2>4. Heads(next, endpt') BY <2>1, <2>2, <2>3 DEF Heads
  <2>5. Place' BY <1>4, <2>4, RestPlace
  <2> QED BY <1>4, <2>3, <2>5 DEF Filling, RestingStep
<1> QED BY <1>1, <1>2, <1>3, <1>4, RestsAll

\* So does SETUP_LOCKOUT_TRIPWIRE, which asks for the flush.
LEMMA SetupLockoutStep ==
  ASSUME Facts, UTInv, ~Active, NEW done, SetupLockout(done), UNCHANGED busVars PROVE UTInv'
<1> USE DEF UTInv, Types
<1>1. state = "SETUP_LOCKOUT_TRIPWIRE" /\ state \in SetupStates /\ endpt = N
  BY DEF SetupLockout, SetupStates, Place
<1>2. ~Trailing /\ ~TailOver BY <1>1 DEF Trailing, TailOver, SetupStates
<1>3. CASE SLOM
  <2> DEFINE out == [Quiet EXCEPT !.command = TRUE, !.tokenClear = {endpt + 16}, !.flushSet = {endpt + 16}]
             next == "SETUP_UPDATE_SETUP_BYTES"
  <2>1. endpt + 16 = X BY <1>1 DEF Facts
  <2>2. Step(next, out) /\ UNCHANGED dmaVars BY <1>3 DEF SetupLockout, Drive
  <2>3. Resting(out) /\ out.select = None /\ out.primeClear = {} /\ out.setupStatSet = {} /\ out.setupRecClear = {}
    BY <2>1 DEF Resting, OutType, Quiet
  <2> HIDE DEF out
  <2>4. next \in SetupStates BY DEF SetupStates
  <2>5. Onward(next, out) BY <1>1, <1>2 DEF Onward
  <2>6. UNCHANGED <<context, addr, addr_q, inLength, txFifo, dqhSetup, memSetup>> BY <2>2 DEF dmaVars
  <2>7. RestingStep(next, out) => (control = "setup" /\ SetupWay => SetupWay')
    BY <1>1, <2>3, <2>5, <2>6, SetupAside
  <2> QED BY <1>1, <2>2, <2>3, <2>4, <2>5, <2>6, <2>7, SetupMoves
<1>4. CASE ~SLOM
  <2>1. Step("IDLE", Quiet) /\ UNCHANGED dmaVars BY <1>4 DEF SetupLockout, Drive
  <2>2. Onward("IDLE", Quiet) BY <1>1, <1>2, QuietRests DEF Onward
  <2>3. UNCHANGED <<context, addr, addr_q, inLength, txFifo, dqhSetup, memSetup>> BY <2>1 DEF dmaVars
  <2>4. RestingStep("IDLE", Quiet) => (control = "setup" /\ SetupWay => SetupWay')
    BY <1>1, <2>2, <2>3, QuietRests, SetupAside
  <2> QED BY <1>1, <2>1, <2>2, <2>3, <2>4, QuietRests, SetupMoves
<1> QED BY <1>3, <1>4

\* So does SETUP_UPDATE_SETUP_BYTES, which takes the bytes into the context.
LEMMA SetupBytesStep ==
  ASSUME Facts, UTInv, ~Active, NEW done, SetupBytes(done) \/ SetupWait1(done), UNCHANGED busVars PROVE UTInv'
<1> USE DEF UTInv, Types
<1>1. state \in {"SETUP_UPDATE_SETUP_BYTES", "SETUP_WAIT1"} /\ state \in SetupStates /\ endpt = N
  BY DEF SetupBytes, SetupWait1, SetupStates, Place
<1>2. ~Trailing /\ ~TailOver BY <1>1 DEF Trailing, TailOver, SetupStates
<1> DEFINE out == [Quiet EXCEPT !.command = TRUE]
           next == IF state = "SETUP_UPDATE_SETUP_BYTES" THEN "SETUP_WAIT1" ELSE "SETUP_S2MM"
<1>3. /\ Step(next, out) /\ UNCHANGED <<context, addr, addr_q, inLength, txFifo, memSetup>>
      /\ dqhSetup' = IF state = "SETUP_UPDATE_SETUP_BYTES" THEN setupBuf ELSE dqhSetup
  BY <1>1 DEF SetupBytes, SetupWait1, Drive, dmaVars
<1>4. Resting(out) /\ out.select = None /\ out.primeClear = {} /\ out.setupStatSet = {} /\ out.setupRecClear = {}
      /\ out.flushSet = {}
  BY DEF Resting, OutType, Quiet
<1> HIDE DEF out
<1>5. next \in SetupStates BY DEF SetupStates
<1>6. Onward(next, out) BY <1>1, <1>2, <1>4 DEF Onward
<1>7. ASSUME RestingStep(next, out), control = "setup", SetupWay PROVE SetupWay'
  <2>1. dqhSetup' = setupBuf
    <3>1. CASE state = "SETUP_UPDATE_SETUP_BYTES" BY <1>3, <3>1
    <3>2. CASE state = "SETUP_WAIT1"
      <4>1. dqhSetup = setupBuf BY <1>2, <1>7, <3>2 DEF SetupWay
      <4> QED BY <1>3, <3>2, <4>1
    <3> QED BY <1>1, <3>1, <3>2
  <2>2. next \notin {"SETUP_UPDATE_ENDPTSETUP_RECEIVED", "SETUP_WAIT2"} /\ state \in SetupStates \ {"SETUP_WAIT2"}
        /\ state # "SETUP_UPDATE_ENDPTSETUP_RECEIVED"
    BY <1>1
  <2> HIDE DEF next
  <2> QED BY <1>3, <1>4, <1>6, <1>7, <2>1, <2>2, SetupAside
<1> HIDE DEF next
<1> QED BY <1>1, <1>3, <1>4, <1>5, <1>6, <1>7, SetupMoves

\* So do the states that copy them to memory and report them.
LEMMA SetupCopyStep ==
  ASSUME Facts, UTInv, ~Active, NEW done, SetupS2MM(done), UNCHANGED busVars PROVE UTInv'
<1> USE DEF UTInv, Types
<1>1. state = "SETUP_S2MM" /\ state \in SetupStates /\ endpt = N
  BY DEF SetupS2MM, SetupStates, Place
<1>2. ~Trailing /\ ~TailOver BY <1>1 DEF Trailing, TailOver, SetupStates
<1>3. CASE done
  <2> DEFINE out == [Quiet EXCEPT !.command = TRUE, !.setupStatSet = {endpt}]
             next == "SETUP_UPDATE_ENDPTSETUP_RECEIVED"
  <2>1. /\ Step(next, out) /\ UNCHANGED <<context, addr, addr_q, inLength, txFifo, dqhSetup>>
        /\ memSetup' = dqhSetup
    BY <1>3 DEF SetupS2MM
  <2>2. Resting(out) /\ out.select = None /\ out.primeClear = {} /\ out.setupStatSet = {N} /\ out.setupRecClear = {}
        /\ out.flushSet = {}
    BY <1>1 DEF Resting, OutType, Quiet
  <2> HIDE DEF out
  <2>3. next \in SetupStates BY DEF SetupStates
  <2>4. Onward(next, out) BY <1>1, <1>2, <2>2 DEF Onward
  <2>5. ASSUME RestingStep(next, out), control = "setup", SetupWay PROVE SetupWay'
    <3>1. pulse = None /\ setupRec = {N} /\ setupStat = {} /\ setupStatQ = {} /\ ~setupAck /\ dqhSetup = setupBuf
      BY <1>1, <1>2, <2>5 DEF SetupWay
    <3>2. Strobes BY StrobesAre
    <3>3. /\ pulse' = None /\ setupRec' = {N} /\ setupStat' = {} /\ setupStatQ' = {N} /\ ~setupAck'
          /\ state' = next /\ setupBuf' = setupBuf
      BY <2>2, <2>5, <3>1, <3>2, Zenon DEF RestingStep, Strobes
    <3> QED BY <2>1, <3>1, <3>3 DEF SetupWay
  <2> QED BY <1>1, <2>1, <2>2, <2>3, <2>4, <2>5, SetupMoves
<1>4. CASE ~done
  <2> DEFINE out == [Quiet EXCEPT !.command = TRUE]
  <2>1. Step("SETUP_S2MM", out) /\ UNCHANGED dmaVars BY <1>1, <1>4 DEF SetupS2MM, Drive
  <2>2. Resting(out) /\ out.select = None /\ out.primeClear = {} /\ out.setupStatSet = {} /\ out.setupRecClear = {}
        /\ out.flushSet = {}
    BY <1>1 DEF Resting, OutType, Quiet
  <2> HIDE DEF out
  <2>3. "SETUP_S2MM" \in SetupStates /\ "SETUP_S2MM" \in SetupStates \ {"SETUP_WAIT2"} BY DEF SetupStates
  <2>4. Onward("SETUP_S2MM", out) BY <1>1, <1>2, <2>2 DEF Onward
  <2>5. UNCHANGED <<context, addr, addr_q, inLength, txFifo, dqhSetup, memSetup>> BY <2>1 DEF dmaVars
  <2>6. ASSUME RestingStep("SETUP_S2MM", out), control = "setup", SetupWay PROVE SetupWay'
    <3>1. dqhSetup' = setupBuf BY <1>1, <1>2, <2>5, <2>6 DEF SetupWay
    <3> QED BY <1>1, <2>2, <2>3, <2>4, <2>5, <2>6, <3>1, SetupAside
  <2> QED BY <1>1, <2>1, <2>2, <2>3, <2>4, <2>5, <2>6, SetupMoves
<1> QED BY <1>3, <1>4

\* So does SETUP_UPDATE_ENDPTSETUP_RECEIVED, which takes the packet off the
\* register.
LEMMA SetupReceivedStep ==
  ASSUME Facts, UTInv, ~Active, NEW done, SetupUpdateReceived(done), UNCHANGED busVars PROVE UTInv'
<1> USE DEF UTInv, Types
<1>1. state = "SETUP_UPDATE_ENDPTSETUP_RECEIVED" /\ state \in SetupStates /\ endpt = N
  BY DEF SetupUpdateReceived, SetupStates, Place
<1>2. ~TailOver BY <1>1 DEF TailOver
<1> DEFINE out == [Quiet EXCEPT !.setupRecClear = {endpt}]
           next == IF setupAck THEN "SETUP_WAIT2" ELSE "SETUP_UPDATE_ENDPTSETUP_RECEIVED"
<1>3. Step(next, out) /\ UNCHANGED dmaVars BY <1>1 DEF SetupUpdateReceived, Drive
<1>4. Resting(out) /\ out.select = None /\ out.primeClear = {} /\ out.setupStatSet = {} /\ out.setupRecClear = {N}
      /\ out.flushSet = {}
  BY <1>1 DEF Resting, OutType, Quiet
<1> HIDE DEF out
<1>5. next \in SetupStates BY DEF SetupStates
<1>6. Trailing => setupAck BY <1>1 DEF Trailing, SetupStates
<1>7. Onward(next, out) BY <1>1, <1>2, <1>4, <1>6 DEF Onward
<1>8. UNCHANGED <<context, addr, addr_q, inLength, txFifo, dqhSetup, memSetup>> BY <1>3 DEF dmaVars
<1>9. ASSUME RestingStep(next, out), control = "setup", SetupWay PROVE SetupWay'
  <2>1. Strobes BY StrobesAre
  <2>2. write # Signal("setupStat", N) BY <1>9 DEF Driver
  <2>3. memSetup = setupBuf /\ pulse = None /\ setupRec \in {{}, {N}} /\ setupStat \cup setupStatQ = {N}
        /\ (setupRec = {} <=> setupAck)
    BY <1>1, <1>2, <1>6, <1>9, Zenon DEF SetupWay, TypesReg
  <2>4. /\ pulse' = None /\ setupRec' = {} /\ setupStat' = {N} /\ setupStatQ' = {} /\ setupAck'
        /\ state' = next /\ setupBuf' = setupBuf /\ setupSel' = (IF setupRec = {} THEN None ELSE N)
    BY <1>4, <1>9, <2>1, <2>2, <2>3, Zenon DEF RestingStep, Strobes
  <2>5. Trailing' BY <2>3, <2>4 DEF Trailing
  <2> QED BY <1>8, <2>3, <2>4, <2>5 DEF SetupWay
<1> HIDE DEF next
<1> QED BY <1>1, <1>3, <1>4, <1>5, <1>7, <1>8, <1>9, SetupMoves

\* So does SETUP_WAIT2.
LEMMA SetupWait2Step ==
  ASSUME Facts, UTInv, ~Active, NEW done, SetupWait2(done), UNCHANGED busVars PROVE UTInv'
<1> USE DEF UTInv, Types
<1>1. state = "SETUP_WAIT2" /\ state \in SetupStates BY DEF SetupWait2, SetupStates
<1>2. Step("IDLE", Quiet) /\ UNCHANGED dmaVars BY DEF SetupWait2, Drive
<1>3. "IDLE" \notin SetupStates BY DEF SetupStates
<1>4. Onward("IDLE", Quiet) BY <1>1, <1>3, QuietRests DEF Onward
<1>5. UNCHANGED <<context, addr, addr_q, inLength, txFifo, dqhSetup, memSetup>> BY <1>2 DEF dmaVars
<1>6. RestingStep("IDLE", Quiet) => (control = "setup" /\ SetupWay => SetupWay')
  BY <1>1, <1>4, <1>5, QuietRests, SetupAside
<1> QED BY <1>1, <1>2, <1>4, <1>5, <1>6, QuietRests, SetupMoves

PrimeStates == FetchStates \cup FillStates \cup PrimeWaits

\* A step that serves a request to prime, and starts no transfer.
LEMMA PrimeMoves ==
  ASSUME Facts, UTInv, ~Active, state \in PrimeStates, NEW next \in PrimeStates \cup {"IDLE"}, NEW out,
         Resting(out), out.select = None, out.setupStatSet = {}, out.flushSet = {}, out.setupRecClear = {},
         Step(next, out), UNCHANGED busVars, txFifo' = None, inLength' = inLength, memSetup' = memSetup, TypesDma',
         Heads(next, endpt), RestingStep(next, out) => Filling'
  PROVE  UTInv'
<1> USE DEF UTInv, Types
<1>1. next \in AllStates BY DEF AllStates, PrimeStates
<1>2. next \notin SetupStates /\ state \notin SetupStates
  BY DEF PrimeStates, SetupStates, FetchStates, FillStates, PrimeWaits
<1>3. state # "SETUP_UPDATE_SETUP_BYTES" /\ state # "SETUP_UPDATE_ENDPTSETUP_RECEIVED"
      /\ next \notin {"SETUP_UPDATE_ENDPTSETUP_RECEIVED", "SETUP_WAIT2", "SETUP_WAIT1", "SETUP_S2MM"}
  BY <1>2 DEF SetupStates
<1>4. Onward(next, out) BY <1>2, <1>3 DEF Onward
<1>5. ASSUME RestingStep(next, out) PROVE Place'
  <2>1. endpt' = endpt BY <1>5 DEF RestingStep
  <2>2. out.primeClear \in {{}, {N}} BY DEF Resting
  <2> QED BY <1>5, <2>1, <2>2, RestPlace
<1>6. RestingStep(next, out) => (control = "setup" /\ SetupWay => SetupWay')
  BY <1>3, <1>4, SetupAside
<1> QED BY <1>1, <1>4, <1>5, <1>6, RestsAll

\* To stay in a state of the PRIME framework leads to the endpoint already
\* worked on.
LEMMA HeadsOf ==
  ASSUME Place, ~Active, state \in PrimeStates PROVE Heads(state, endpt)
<1>1. state \notin SetupStates \cup InStates
  BY DEF PrimeStates, SetupStates, FetchStates, FillStates, PrimeWaits, InStates
<1> QED BY <1>1 DEF Heads, Place

\* Of these, the ones that only move on, or wait.
LEMMA PrimeWaiting ==
  ASSUME Facts, UTInv, ~Active, state \in PrimeStates, NEW next \in PrimeStates \cup {"IDLE"}, Drive(next, Quiet),
         UNCHANGED busVars, Heads(next, endpt), next \in FillStates /\ next # state => Filling'
  PROVE  UTInv'
<1> USE DEF UTInv, Types
<1>1. Step(next, Quiet) /\ UNCHANGED dmaVars BY DEF Drive
<1>2. txFifo' = None /\ inLength' = inLength /\ memSetup' = memSetup /\ TypesDma' BY <1>1, Zenon DEF dmaVars, TypesDma, Off, Unloaded
<1>3. ASSUME RestingStep(next, Quiet) PROVE Filling'
  <2>1. state' = next /\ UNCHANGED <<context, addr, lists>> BY <1>1, <1>3 DEF RestingStep, dmaVars
  <2>2. CASE next = state BY <2>1, <2>2 DEF Filling, S, T
  <2>3. CASE next \notin FillStates BY <2>1, <2>3 DEF Filling
  <2> QED BY <2>2, <2>3
<1> QED BY <1>1, <1>2, <1>3, QuietRests, PrimeMoves

\* So do the states that fetch the dQH.
LEMMA PrimeFetchStep ==
  ASSUME Facts, UTInv, ~Active, NEW done, PrimeDqh(done) \/ PrimeWait0(done), UNCHANGED busVars PROVE UTInv'
<1> USE DEF UTInv, Types
<1>1. state \in {"PRIME_MM2S_DQH", "PRIME_WAIT0"} /\ state \in FetchStates /\ state \in PrimeStates
  BY DEF PrimeDqh, PrimeWait0, FetchStates, PrimeStates
<1>2. PICK next \in {state, "PRIME_WAIT0", "PRIME_MM2S_DTD"} : Drive(next, Quiet)
  BY DEF PrimeDqh, PrimeWait0, Wait
<1>3. next \in FetchStates /\ next \in PrimeStates BY <1>1 DEF FetchStates, PrimeStates
<1>4. next \notin FillStates \cup PrimeWaits \cup InStates \cup SetupStates
  BY <1>3 DEF FetchStates, SetupStates, FillStates, PrimeWaits, InStates
<1>5. Heads(next, endpt) BY <1>1, <1>3, <1>4 DEF Heads, Place
<1> QED BY <1>1, <1>2, <1>3, <1>4, <1>5, PrimeWaiting

\* So do the states after the priming.
LEMMA PrimeWaitsStep ==
  ASSUME Facts, UTInv, ~Active, NEW done, PrimeWait1(done) \/ PrimeWait2(done), UNCHANGED busVars PROVE UTInv'
<1> USE DEF UTInv, Types
<1>1. state \in PrimeWaits /\ state \in PrimeStates
  BY DEF PrimeWait1, PrimeWait2, PrimeWaits, PrimeStates
<1>2. PICK next \in {"PRIME_WAIT2", "IDLE"} : Drive(next, Quiet)
  BY DEF PrimeWait1, PrimeWait2
<1>3. next \in PrimeStates \cup {"IDLE"} BY DEF PrimeWaits, PrimeStates
<1>4. next \notin FetchStates \cup FillStates \cup InStates \cup SetupStates \cup {"PRIME_WAIT0", "PRIME_MM2S_DTD"}
  BY DEF FetchStates, SetupStates, FillStates, PrimeWaits, InStates
<1>5. Heads(next, endpt) BY <1>1, <1>4 DEF Heads, Place
<1> QED BY <1>1, <1>2, <1>3, <1>4, <1>5, PrimeWaiting

\* No dTD is no bytes.
LEMMA BytesNone == ASSUME NEW l PROVE Bytes(l, 0) = 0
<1> DEFINE sum[i \in 0 .. 0] == IF i = 0 THEN 0 ELSE sum[i - 1] + l[i]
<1>1. Bytes(l, 0) = sum[0] BY DEF Bytes
<1> DEFINE F == [i \in 0 .. 0 |-> 0]
<1>2. F = [i \in 0 .. 0 |-> IF i = 0 THEN 0 ELSE F[i - 1] + l[i]] OBVIOUS
<1> HIDE DEF F
<1>3. sum = [i \in 0 .. 0 |-> IF i = 0 THEN 0 ELSE sum[i - 1] + l[i]] BY <1>2
<1> HIDE DEF sum
<1>4. sum[0] = 0 BY <1>3
<1> QED BY <1>1, <1>4

\* The first descriptor of a transfer.
LEMMA FirstDtd ==
  ASSUME Facts, NEW e, e \in {N, X}, lists[e] \in DtdLists
  PROVE  /\ Dtd(e, 1).total = lists[e][1] /\ Dtd(e, 1).base = BufferOf(e) /\ Dtd(e, 1).index = 1
         /\ Dtd(e, 1).last
         /\ Dtd(e, 1) \in [total : 0 .. 2 ^ 15 - 1, base : Nat, index : Nat, last : BOOLEAN]
<1>1. Len(lists[e]) = 1 /\ lists[e][1] \in Nat /\ lists[e][1] < 2 ^ 15 BY DEF Facts
<1>2. Bytes(lists[e], 1 - 1) = 0
  <2>1. 1 - 1 = 0 OBVIOUS
  <2> QED BY <2>1, BytesNone
<1>3. BufferOf(e) \in Nat BY DEF Facts, BufferOf
<1>4. /\ Dtd(e, 1).total = lists[e][1] /\ Dtd(e, 1).index = 1
      /\ Dtd(e, 1).base = BufferOf(e) + Bytes(lists[e], 1 - 1)
      /\ Dtd(e, 1).last = (1 = Len(lists[e]))
  BY DEF Dtd
<1>5. Dtd(e, 1).base = BufferOf(e) BY <1>2, <1>3, <1>4
<1>6. Dtd(e, 1).last BY <1>1, <1>4, Zenon
<1>7. Dtd(e, 1) \in [total : 0 .. 2 ^ 15 - 1, base : Nat, index : Nat, last : BOOLEAN]
  <2> DEFINE t == lists[e][1]  b == BufferOf(e) + Bytes(lists[e], 1 - 1)  f == (1 = Len(lists[e]))
  <2>1. t \in 0 .. 2 ^ 15 - 1
    <3>1. 2 ^ 15 \in Nat BY SMT
    <3> QED BY <1>1, <3>1
  <2>2. b \in Nat BY <1>2, <1>3
  <2>3. f \in BOOLEAN OBVIOUS
  <2>4. Dtd(e, 1) = [total |-> t, base |-> b, index |-> 1, last |-> f] BY DEF Dtd
  <2> DEFINE w == 0 .. 2 ^ 15 - 1
  <2>5. t \in w BY <2>1
  <2> HIDE DEF t, b, f, w
  <2>6. 1 \in Nat OBVIOUS
  <2>7. [total |-> t, base |-> b, index |-> 1, last |-> f] \in [total : w, base : Nat, index : Nat, last : BOOLEAN]
    BY <2>2, <2>3, <2>5, <2>6
  <2> QED BY <2>4, <2>7, Zenon DEF w
<1> QED BY <1>4, <1>5, <1>7, <1>6, Zenon

\* So does PRIME_MM2S_DTD, which fetches the dTD and turns to the FIFO or, for
\* an OUT endpoint, ends the priming.
LEMMA PrimeDtdStep ==
  ASSUME Facts, UTInv, ~Active, NEW done, PrimeDtd(done), UNCHANGED busVars PROVE UTInv'
<1> USE DEF UTInv, Types
<1>1. state = "PRIME_MM2S_DTD" /\ state \in FetchStates /\ state \in PrimeStates
  BY DEF PrimeDtd, FetchStates, PrimeStates
<1>2. CASE ~done
  <2>1. Drive(state, Quiet) BY <1>2 DEF PrimeDtd, Wait
  <2>2. Heads(state, endpt) BY <1>1, HeadsOf
  <2> QED BY <1>1, <2>1, <2>2, PrimeWaiting
<1>3. CASE done
  <2>1. endpt \in Endpoints /\ endpt \in {N, X} /\ lists[endpt] \in DtdLists /\ Number(endpt) = N
    <3>1. endpt \in Endpoints /\ lists[endpt] # <<>> BY <1>1 DEF Place
    <3>2. endpt \in {N, X} BY <3>1 DEF Facts
    <3>3. Number(endpt) = N BY <3>2 DEF Facts
    <3> QED BY <3>1, <3>2, <3>3 DEF TypesReg
  <2> DEFINE d == Dtd(endpt, 1)
  <2>2. /\ d.total = lists[endpt][1] /\ d.base = BufferOf(endpt) /\ d.index = 1 /\ d.last
        /\ d \in [total : 0 .. 2 ^ 15 - 1, base : Nat, index : Nat, last : BOOLEAN]
    BY <2>1, FirstDtd, Zenon
  <2>3. /\ context' = [context EXCEPT ![endpt] = d]
        /\ addr' = [addr EXCEPT ![N] = d.base] /\ addr_q' = [addr_q EXCEPT ![N] = addr[N]]
        /\ UNCHANGED <<inLength, dqhSetup, memSetup>>
        /\ txFifo' = IF IsIn(endpt) THEN None ELSE txFifo
        /\ IF IsIn(endpt) THEN Step("PRIME_FILL_FIFO", Quiet) ELSE Step("PRIME_WAIT1", Primed)
    BY <1>3, <2>1 DEF PrimeDtd
  <2> HIDE DEF d
  <2>4. txFifo' = None BY <2>3 DEF Off, Unloaded
  <2>5. TypesDma'
    <3>1. BufferOf(endpt) \in Nat
      <4>1. N \in Nat /\ X \in Nat BY DEF Facts
      <4>2. endpt \in Nat BY <2>1, <4>1
      <4> QED BY <4>2 DEF BufferOf
    <3>2. N \in Numbers BY DEF Facts
    <3>3. addr \in [Numbers -> Nat] /\ addr_q \in [Numbers -> Nat] BY Zenon DEF TypesDma
    <3>4. addr' \in [Numbers -> Nat] /\ addr_q' \in [Numbers -> Nat] BY <2>2, <2>3, <3>1, <3>2, <3>3, Zenon
    <3>5. context' \in [Endpoints -> [total : 0 .. 2 ^ 15 - 1, base : Nat, index : Nat, last : BOOLEAN]]
      BY <2>1, <2>2, <2>3, Zenon DEF TypesDma
    <3> QED BY <2>3, <2>4, <3>4, <3>5, Zenon DEF TypesDma
  <2>6. CASE endpt = X
    <3> DEFINE next == "PRIME_FILL_FIFO"
    <3>1. Step(next, Quiet) BY <2>3, <2>6 DEF Facts
    <3>2. next \in PrimeStates /\ next \in FillStates BY DEF PrimeStates, FillStates
    <3>3. next \notin FetchStates \cup InStates \cup SetupStates \cup PrimeWaits
      BY DEF FetchStates, SetupStates, FillStates, PrimeWaits, InStates
    <3>4. Heads(next, endpt) BY <1>1, <2>6, <3>2, <3>3 DEF Heads, Place
    <3>5. ASSUME RestingStep(next, Quiet) PROVE Filling'
      <4>1. context'[X] = d /\ addr'[N] = d.base
        <5>1. X \in Endpoints /\ N \in Numbers BY DEF Facts
        <5> QED BY <2>3, <2>6, <5>1, Zenon DEF TypesDma
      <4>2. state' = next /\ lists' = lists BY <3>5 DEF RestingStep
      <4> QED BY <2>2, <2>6, <4>1, <4>2, Zenon DEF Filling, S, T
    <3> QED BY <1>1, <2>3, <2>4, <2>5, <3>1, <3>2, <3>4, <3>5, QuietRests, PrimeMoves
  <2>7. CASE endpt = N
    <3> DEFINE next == "PRIME_WAIT1"
    <3>1. Step(next, Primed) BY <2>3, <2>7 DEF Facts
    <3>2. next \in PrimeStates /\ next \in PrimeWaits BY DEF PrimeStates, PrimeWaits
    <3>3. next \notin FetchStates \cup InStates \cup SetupStates \cup FillStates \cup {"PRIME_WAIT0", "PRIME_MM2S_DTD"}
      BY DEF FetchStates, SetupStates, FillStates, PrimeWaits, InStates
    <3>4. N # X BY DEF Facts
    <3>5. Heads(next, endpt) BY <2>1, <2>7, <3>2, <3>3, <3>4 DEF Heads
    <3>6. RestingStep(next, Primed) => Filling' BY DEF Filling, RestingStep, FillStates
    <3>7. Resting(Primed) /\ Primed.select = None /\ Primed.setupStatSet = {} /\ Primed.flushSet = {}
          /\ Primed.setupRecClear = {}
      BY <2>7 DEF Resting, OutType, Primed, Quiet
    <3> QED BY <1>1, <2>3, <2>4, <2>5, <3>1, <3>2, <3>5, <3>6, <3>7, PrimeMoves
  <2> QED BY <2>1, <2>6, <2>7
<1> QED BY <1>2, <1>3

\* The transfer begins: its first packet is loaded, or a zero-length one asked for.
LEMMA Begins ==
  ASSUME Facts, UTInv, ~Active, state \in FillStates, NEW out, OutType(out),
         out.select = None, out.command = FALSE, out.primeClear = {X}, out.primeSet = {}, out.completeSet = {},
         out.statSet = {X}, out.statClear = {}, out.flushSet = {}, out.setupStatSet = {}, out.setupRecClear = {},
         out.zlpSet = (IF T = 0 THEN {X} ELSE {}),
         Step("PRIME_WAIT1", out), UNCHANGED busVars, UNCHANGED <<context, inLength>>, TypesDma',
         \/ T = 0 /\ UNCHANGED txFifo
         \/ /\ T > 0 /\ txFifo' = [from |-> BufferOf(X), len |-> Least(T), number |-> N]
            /\ (T > FifoSize => addr'[N] = BufferOf(X) + FifoSize)
  PROVE  UTInv'
<1> USE DEF UTInv, Types
<1>1. TypesReg' BY StepTypes DEF AllStates, PrimeWaits
<1>2. TypesBus' BY DEF TypesBus, busVars
<1>3. RestingStep("PRIME_WAIT1", out) BY Rests
<1>4. Strobes BY StrobesAre
<1>5. N # X /\ None # X /\ None # N BY DEF Facts
<1>6. prime = {X} /\ endpt = X /\ arbEndpt = X /\ write = None /\ lists[X] # <<>> /\ Requested /\ complete = {}
      /\ acked[X] = <<>>
  <2>1. prime = {X} /\ endpt = X /\ arbEndpt = X /\ lists[X] # <<>> BY DEF Place
  <2> QED BY <2>1 DEF Driver, Requested
<1>7. UNCHANGED <<content, ready, uZlp, bus, control, acked, timeouts>> BY DEF busVars
<1>8. state \notin SetupStates /\ flush = {}
  <2>1. state \notin SetupStates BY DEF FillStates, SetupStates
  <2> QED BY <2>1 DEF SetupPath, FillStates
<1>9. /\ (Control = None /\ control = "idle") \/ (control = "data" /\ zlpMask = {N})
      /\ NoSetup /\ setupStat = {} /\ setupStatQ = {}
  BY <1>6 DEF SetupPath, TypesBus
<1>10. pulse = None /\ setupRec = {} BY <1>9 DEF Off, NoReport, NoSetup
<1>11. /\ state' = "PRIME_WAIT1" /\ endpt' = X /\ arbEndpt' = X /\ primeSel' = X /\ setupSel' = None /\ tokenSel' = None
       /\ prime' = {} /\ complete' = {} /\ flush' = {} /\ setupStat' = {} /\ setupStatQ' = {} /\ setupRec' = {}
       /\ inToken' = {} /\ inComplete' = {} /\ resend' = {} /\ clearOff' = 0 /\ pulse' = None /\ write' = None
       /\ lists' = lists /\ zlpMask' = zlpMask /\ cntLoc' = cntLoc
  <2>1. {X} # {} /\ {X} # {N} BY <1>5
  <2>2. prime' = {} /\ primeSel' = X BY <1>3, <1>4, <1>6, <2>1 DEF RestingStep, Strobes
  <2> QED BY <1>3, <1>4, <1>6, <1>8, <1>9, <1>10, <2>2 DEF RestingStep, Strobes
<1>12. Active' BY DEF Step, StatusRegisters, Active
<1>13. ~Requested' BY <1>4, <1>11 DEF Requested, Strobes
<1>14. "PRIME_WAIT1" \in PrimeWaits /\ "PRIME_WAIT1" \notin InStates \cup FillStates \cup FetchStates \cup SetupStates
  BY DEF PrimeWaits, InStates, FillStates, FetchStates, SetupStates
<1>15. Place'
  <2>1. X \in Endpoints BY DEF Facts
  <2>2. write' # Signal("prime", N) /\ write' # Signal("prime", X) BY <1>4, <1>11 DEF Strobes
  <2> QED BY <1>5, <1>6, <1>11, <1>12, <1>14, <2>1, <2>2 DEF Place
<1>16. Calm'
  <2>1. pulse' # Signal("setup", N) BY <1>4, <1>11 DEF Strobes
  <2> QED BY <1>7, <1>9, <1>11, <1>14, <2>1 DEF Calm
<1>17. Off' BY <1>12 DEF Off
<1>18. Driver' BY <1>4, <1>6, <1>11, <1>13 DEF Driver, Strobes
<1>19. S' = S /\ T' = T /\ T = S /\ K' = 0 /\ S \in Nat
  <2>1. lists[X] \in DtdLists BY <1>6 DEF TypesReg, Facts
  <2>2. S \in Nat BY <2>1 DEF S, Facts
  <2>3. T = S BY DEF Filling
  <2> QED BY <1>6, <1>7, <1>11, <2>2, <2>3 DEF S, T, K
<1>20. History'
  <2>1. acked'[X] = <<>> /\ lists'[X] # <<>> BY <1>6, <1>7, <1>11
  <2> QED BY <1>12, <2>1 DEF History
<1>21. SetupPath'
  <2>1. NoSetup' /\ TailOver' /\ Trailing' BY <1>4, <1>11, <1>14 DEF NoSetup, TailOver, Trailing, Strobes
  <2>2. write' # Signal("complete", X) BY <1>4, <1>11 DEF Strobes
  <2> QED BY <1>7, <1>9, <1>11, <1>13, <2>1, <2>2 DEF SetupPath
<1>22. zlp_q' = {} /\ zlpPush' = FALSE /\ zlp' = (IF S = 0 THEN {X} ELSE {})
       /\ zlpCross' = (IF zlpPush /\ zlpCross = None THEN {} ELSE zlpCross)
  BY <1>3, <1>19 DEF RestingStep
<1>23. bus = None /\ ready[N] = None /\ txFifo = None /\ inLength = 0 BY DEF Off, Unloaded
<1>24. Zero'
  <2>1. ZActive' = (S = 0) BY <1>12, <1>19 DEF ZActive
  <2>2. zlp = {} /\ zlp_q = {} BY DEF Zero, ZeroOver, ZActive
  <2>3. ~ZActive' => ZeroOver' BY <1>22, <2>1, Zenon DEF ZeroOver
  <2>4. zlpMask' # {X} => uZlp' = {} /\ zlpCross' = None /\ ~zlpPush'
    BY <1>7, <1>11, <1>22 DEF Zero, ZActive
  <2>5. zlpMask' = {X} => /\ zlpCross' # {X} /\ ~(zlpPush' /\ zlp' # {})
                          /\ (uZlp' = {} \/ zlp' = {X} \/ zlp_q' = {X} \/ zlpPush' \/ zlpCross' = {})
                          /\ (zlp' = {X} /\ zlp_q' = {} => clearOff' = 0)
    BY <1>7, <1>11, <1>22, <2>2 DEF Zero, TypesReg
  <2>6. ZActive' => zlp' = {X} /\ acked'[X] = <<>> BY <1>6, <1>7, <1>22, <2>1, Zenon
  <2> QED BY <1>7, <1>23, <2>3, <2>4, <2>5, <2>6 DEF Zero
<1>25. context'[X].base = BufferOf(X) /\ context'[X].last /\ context'[X].index = 1 BY DEF Filling
<1>26. ASSUME S > 0 PROVE Loaded'
  <2>1. T > 0 /\ txFifo' = [from |-> BufferOf(X), len |-> Least(T), number |-> N]
        /\ (T > FifoSize => addr'[N] = BufferOf(X) + FifoSize)
    BY <1>19, <1>26
  <2>2. BufferOf(X) + S' - T' = BufferOf(X) /\ Least(T)' = Least(T)
    <3>1. BufferOf(X) \in Int BY BufferIs
    <3> QED BY <1>19, <3>1 DEF Least
  <2>3. txFifo' = Packet' BY <2>1, <2>2 DEF Packet
  <2>4. Held' BY <1>7, <1>23, <2>3 DEF Held
  <2>5. T' = S' - Gone(K)' /\ T' > 0 BY <1>19, <1>26 DEF Gone
  <2>6. SecondAt' BY <1>19, <2>1 DEF SecondAt
  <2>7. Reloads' BY <1>23 DEF Reloads
  <2>8. {} # {X} /\ state' \in Between BY <1>11 DEF Between
  <2> QED BY <1>4, <1>11, <1>19, <2>4, <2>5, <2>6, <2>7, <2>8 DEF Loaded, Strobes
<1>27. ASSUME S = 0 PROVE T' = 0 /\ txFifo' = None /\ ready'[N] = None /\ inLength' = 0 /\ (Fresh' \/ Blocked')
  <2>1. T' = 0 /\ txFifo' = None /\ ready'[N] = None /\ inLength' = 0
    <3>1. T = 0 BY <1>19, <1>27
    <3> QED BY <1>7, <1>19, <1>23, <3>1
  <2>2. CASE zlpMask # {X}
    <3>1. pulse' # Signal("complete", X) BY <1>4, <1>11 DEF Strobes
    <3> QED BY <1>7, <1>11, <1>14, <1>19, <1>22, <1>23, <1>27, <2>1, <2>2, <3>1 DEF Fresh
  <2>3. CASE zlpMask = {X}
    <3>1. Control = None BY <1>5, <1>9, <2>3
    <3> QED BY <1>7, <1>11, <1>14, <1>19, <1>23, <2>1, <2>3, <3>1 DEF Blocked, Quietly
  <2> QED BY <2>1, <2>2, <2>3
<1>28. Transfer' BY <1>7, <1>11, <1>19, <1>23, <1>25, <1>26, <1>27 DEF Transfer
<1>29. Filling' BY <1>11, <1>14 DEF Filling
<1> QED BY <1>1, <1>2, <1>15, <1>16, <1>17, <1>18, <1>20, <1>21, <1>24, <1>28, <1>29

\* What the manager drives at the end of the priming of the IN endpoint.
LEMMA PrimedOut ==
  ASSUME Facts, endpt = X
  PROVE  /\ OutType(Primed) /\ Primed.select = None /\ Primed.command = FALSE /\ Primed.primeClear = {X}
         /\ Primed.primeSet = {} /\ Primed.completeSet = {} /\ Primed.statSet = {X} /\ Primed.statClear = {}
         /\ Primed.flushSet = {} /\ Primed.setupStatSet = {} /\ Primed.setupRecClear = {} /\ Primed.zlpSet = {}
BY DEF OutType, Primed, Quiet

\* So does PRIME_FILL_FIFO, which asks for a zero-length packet if the dTD is
\* empty.
LEMMA PrimeFillStep ==
  ASSUME Facts, UTInv, ~Active, NEW done, PrimeFillFifo(done), UNCHANGED busVars PROVE UTInv'
<1> USE DEF UTInv, Types
<1>1. state = "PRIME_FILL_FIFO" /\ state \in FillStates /\ state \in PrimeStates /\ endpt = X /\ Total = T
  BY DEF PrimeFillFifo, FillStates, PrimeStates, Place, Total, T
<1>2. T \in Nat /\ FifoSize \in Nat
  <2>1. 2 ^ 15 \in Nat BY SMT
  <2>2. context[X].total \in 0 .. 2 ^ 15 - 1 BY Zenon DEF TypesDma, Facts
  <2> QED BY <2>1, <2>2 DEF T, Facts
<1>3. CASE T = 0
  <2> DEFINE out == [Primed EXCEPT !.zlpSet = {endpt}]
  <2>1. Step("PRIME_WAIT1", out) /\ UNCHANGED dmaVars BY <1>1, <1>3 DEF PrimeFillFifo, Drive
  <2>2. /\ OutType(out) /\ out.select = None /\ out.command = FALSE /\ out.primeClear = {X}
        /\ out.primeSet = {} /\ out.completeSet = {} /\ out.statSet = {X} /\ out.statClear = {}
        /\ out.flushSet = {} /\ out.setupStatSet = {} /\ out.setupRecClear = {} /\ out.zlpSet = {X}
    BY <1>1 DEF OutType, Primed, Quiet
  <2> HIDE DEF out
  <2>3. TypesDma' /\ UNCHANGED <<context, inLength>> /\ UNCHANGED txFifo BY <2>1, Zenon DEF dmaVars, TypesDma
  <2> QED BY <1>1, <1>3, <2>1, <2>2, <2>3, Begins, Zenon
<1>4. CASE T # 0
  <2> DEFINE next == IF T < FifoSize THEN "PRIME_FILL_FIFO_1" ELSE "PRIME_FILL_FIFO_2"
  <2>1. Drive(next, Quiet) BY <1>1, <1>4 DEF PrimeFillFifo
  <2>2. next \in PrimeStates /\ next \in FillStates BY DEF PrimeStates, FillStates
  <2>3. next \notin FetchStates \cup InStates \cup SetupStates \cup PrimeWaits
    BY DEF FetchStates, SetupStates, FillStates, PrimeWaits, InStates
  <2>4. Heads(next, endpt) BY <1>1, <2>2, <2>3 DEF Heads, Place
  <2>5. Filling'
    <3>1. state' = next /\ UNCHANGED <<context, addr, lists>> BY <2>1 DEF Drive, Step, dmaVars
    <3>2. T > 0 /\ (next = "PRIME_FILL_FIFO_1" => T < FifoSize) /\ (next = "PRIME_FILL_FIFO_2" => T >= FifoSize)
      BY <1>2, <1>4
    <3>3. S' = S /\ T' = T BY <3>1 DEF S, T
    <3> HIDE DEF next
    <3> QED BY <1>1, <3>1, <3>2, <3>3 DEF Filling
  <2> HIDE DEF next
  <2> QED BY <1>1, <2>1, <2>2, <2>4, <2>5, PrimeWaiting
<1> QED BY <1>3, <1>4

\* So do the states that load the first packet.
LEMMA PrimeLoadStep ==
  ASSUME Facts, UTInv, ~Active, NEW done, PrimeFillFifo1(done) \/ PrimeFillFifo2(done), UNCHANGED busVars PROVE UTInv'
<1> USE DEF UTInv, Types
<1>1. state \in {"PRIME_FILL_FIFO_1", "PRIME_FILL_FIFO_2"} /\ state \in FillStates /\ state \in PrimeStates
  BY DEF PrimeFillFifo1, PrimeFillFifo2, FillStates, PrimeStates
<1>2. endpt = X /\ Number(endpt) = N /\ Total = T BY <1>1 DEF Place, Facts, Total, T
<1>3. T \in Nat /\ FifoSize \in Nat /\ FifoSize > 0 /\ N \in Nat /\ N \in Numbers /\ BufferOf(X) \in Nat
  <2>1. 2 ^ 15 \in Nat BY SMT
  <2>2. context[X].total \in 0 .. 2 ^ 15 - 1 BY Zenon DEF TypesDma, Facts
  <2>3. T \in Nat BY <2>1, <2>2 DEF T
  <2> QED BY <2>3, BufferIs DEF Facts
<1>4. CASE ~done
  <2>1. Drive(state, Quiet) BY <1>4 DEF PrimeFillFifo1, PrimeFillFifo2, Wait
  <2>2. Heads(state, endpt) BY <1>1, HeadsOf
  <2> QED BY <1>1, <2>1, <2>2, PrimeWaiting
<1>5. CASE done
  <2>1. addr[N] = BufferOf(X) /\ context[X].base = BufferOf(X)
        /\ (state = "PRIME_FILL_FIFO_1" => T > 0 /\ T < FifoSize)
        /\ (state = "PRIME_FILL_FIFO_2" => T >= FifoSize)
    BY <1>1 DEF Filling
  <2>2. T > 0 /\ txFifo' = [from |-> BufferOf(X), len |-> Least(T), number |-> N]
        /\ Step("PRIME_WAIT1", Primed) /\ UNCHANGED <<context, inLength, dqhSetup, memSetup>>
    <3>1. CASE state = "PRIME_FILL_FIFO_1"
      <4>1. Least(T) = T BY <2>1, <3>1 DEF Least
      <4>2. PrimeFillFifo1(done) BY <3>1 DEF PrimeFillFifo2
      <4> QED BY <1>2, <1>5, <2>1, <3>1, <4>1, <4>2 DEF PrimeFillFifo1, Load
    <3>2. CASE state = "PRIME_FILL_FIFO_2"
      <4>1. Least(T) = FifoSize BY <1>3, <2>1, <3>2 DEF Least
      <4>2. PrimeFillFifo2(done) BY <3>2 DEF PrimeFillFifo1
      <4> QED BY <1>2, <1>3, <1>5, <2>1, <3>2, <4>1, <4>2 DEF PrimeFillFifo2, Load
    <3> QED BY <1>1, <3>1, <3>2
  <2>3. T > FifoSize => addr'[N] = BufferOf(X) + FifoSize
    <3>1. CASE state = "PRIME_FILL_FIFO_1" BY <1>3, <2>1, <3>1
    <3>2. CASE state = "PRIME_FILL_FIFO_2"
      <4>1. PrimeFillFifo2(done) BY <3>2 DEF PrimeFillFifo1
      <4>2. addr' = [addr EXCEPT ![N] = BufferOf(X) + FifoSize]
        BY <1>2, <1>5, <2>1, <4>1 DEF PrimeFillFifo2
      <4> QED BY <1>3, <4>2, Zenon DEF TypesDma
    <3> QED BY <1>1, <3>1, <3>2
  <2>4. TypesDma'
    <3>1. Least(T) \in 1 .. FifoSize BY <1>3, <2>2 DEF Least
    <3> DEFINE m == Least(T)
    <3>2. m \in 1 .. FifoSize /\ m \in Nat /\ txFifo' = [from |-> BufferOf(X), len |-> m, number |-> N]
      BY <1>3, <2>2, <3>1
    <3> HIDE DEF m
    <3>3. txFifo' \in Packets /\ txFifo'.len \in 1 .. FifoSize /\ txFifo'.number = N BY <1>3, <3>2 DEF Packets
    <3>4. addr' \in [Numbers -> Nat] /\ addr_q' \in [Numbers -> Nat]
      <4>1. BufferOf(X) + FifoSize \in Nat /\ addr[N] \in Nat BY <1>3, <2>1
      <4>2. addr \in [Numbers -> Nat] /\ addr_q \in [Numbers -> Nat] BY Zenon DEF TypesDma
      <4>3. \/ UNCHANGED <<addr, addr_q>>
            \/ /\ addr' = [addr EXCEPT ![N] = BufferOf(X) + FifoSize]
               /\ addr_q' = [addr_q EXCEPT ![N] = addr[N]]
        BY <1>2, <1>5, <2>1 DEF PrimeFillFifo1, PrimeFillFifo2
      <4> QED BY <1>3, <4>1, <4>2, <4>3
    <3> QED BY <2>2, <3>3, <3>4, Zenon DEF TypesDma
  <2>5. T # 0 /\ Primed.zlpSet = IF T = 0 THEN {X} ELSE {} BY <1>2, <1>3, <2>2, PrimedOut
  <2> QED BY <1>1, <1>2, <2>2, <2>3, <2>4, <2>5, PrimedOut, Begins, Zenon
<1> QED BY <1>4, <1>5

\* With no transfer every clock of the manager keeps the invariant.
LEMMA RestClock ==
  ASSUME Facts, UTInv, ~Active, NEW done, Clock(done), UNCHANGED busVars PROVE UTInv'
<1>1. state \notin InStates BY DEF UTInv, Place
<1>2. state \in AllStates BY DEF UTInv, Types, TypesReg, AllStates
<1>3. \/ Idle(done)
      \/ SetupLockout(done) \/ (SetupBytes(done) \/ SetupWait1(done)) \/ SetupS2MM(done)
      \/ SetupUpdateReceived(done) \/ SetupWait2(done)
      \/ (PrimeDqh(done) \/ PrimeWait0(done)) \/ PrimeDtd(done) \/ PrimeFillFifo(done)
      \/ (PrimeFillFifo1(done) \/ PrimeFillFifo2(done)) \/ (PrimeWait1(done) \/ PrimeWait2(done))
  BY <1>1, <1>2 DEF Clock, InStates, StartIn, InHandshake, InWait0, InCheckComplete, InTransfer, InReloadBuffer, InWait1,
     InTransactionComplete, InFetchNextDtd, InWait2, AllStates, SetupStates, FetchStates, FillStates, PrimeWaits
<1> QED BY <1>3, RestIdle, SetupLockoutStep, SetupBytesStep, SetupCopyStep, SetupReceivedStep, SetupWait2Step,
           PrimeFetchStep, PrimeDtdStep, PrimeFillStep, PrimeLoadStep, PrimeWaitsStep

-----------------------------------------------------------------------------
(* The steps of the buffers, the host and the driver. *)

\* What each part of the invariant looks at.
LEMMA SamePlace ==
  ASSUME Place, UNCHANGED <<state, endpt, arbEndpt, primeSel, prime, stat, write, lists>> PROVE Place'
BY DEF Place, Active

\* The same for the next part.
LEMMA SameCalm ==
  ASSUME Calm, UNCHANGED <<stat, endpt, arbEndpt, state, prime, primeSel, write, complete, flush, setupSel, setupRec,
                           setupStat, setupStatQ, control>>, pulse' # Signal("setup", N)
  PROVE  Calm'
BY DEF Calm, Active

\* The same for the next part.
LEMMA SameOff ==
  ASSUME Off, UNCHANGED <<stat, txFifo, ready, bus, pulse, inToken, inComplete, resend, tokenSel, inLength, clearOff>>
  PROVE  Off'
BY DEF Off, Active, Unloaded, NoReport

\* The same for the next part.
LEMMA SameDriver ==
  ASSUME Driver, UNCHANGED <<stat, prime, write, complete, acked, lists, control>> PROVE Driver'
BY DEF Driver, Requested, Active

\* The same for the next part.
LEMMA SameHistory ==
  ASSUME History, UNCHANGED <<lists, acked, prime, write, stat>> PROVE History'
BY DEF History, Requested, Active, S, Least

\* The same for the next part.
LEMMA SameSetup ==
  ASSUME SetupPath, UNCHANGED <<state, control, setupRec, setupSel, setupAck, setupStat, setupStatQ, setupBuf, dqhSetup,
                                memSetup, prime, write, stat, zlpMask, complete, flush, flushClear>>,
         pulse' # Signal("setup", N), pulse' = pulse \/ control # "setup"
  PROVE  SetupPath'
<1>1. NoSetup => NoSetup' BY DEF NoSetup
<1>2. TailOver' = TailOver /\ Trailing' = Trailing /\ Requested' = Requested /\ Active' = Active /\ Cleared' = Cleared
  BY DEF TailOver, Trailing, Requested, Active, Cleared
<1>3. pulse' = pulse => SetupWay' = SetupWay BY <1>2 DEF SetupWay
<1> QED BY <1>1, <1>2, <1>3 DEF SetupPath

\* The same for the next part.
LEMMA SameZero ==
  ASSUME Zero, UNCHANGED <<stat, lists, acked, zlp, zlp_q, zlpMask, zlpPush, zlpCross, uZlp, clearOff>>,
         bus # None \/ bus' = None \/ ZlpSettled
  PROVE  Zero'
<1>1. ZActive' = ZActive /\ ZeroOver' = ZeroOver /\ ZlpSettled' = ZlpSettled
  BY DEF ZActive, Active, S, ZeroOver, ZlpSettled
<1>2. bus' # None => ZlpSettled' BY <1>1 DEF Zero
<1> QED BY <1>1, <1>2 DEF Zero

\* The same for the next part.
LEMMA SameFilling ==
  ASSUME Filling, UNCHANGED <<state, context, addr, lists>> PROVE Filling'
BY DEF Filling, S, T

\* The same for the transfer.
LEMMA SameTransfer ==
  ASSUME Transfer, UNCHANGED <<state, stat, context, addr, addr_q, inLength, txFifo, content, ready, bus, cntLoc,
                               cntValid, cntData, inToken, inComplete, resend, tokenSel, zlp, zlp_q, zlpMask, clearOff,
                               pulse, lists, acked>>
  PROVE  Transfer'
<1>1. S' = S /\ T' = T /\ K' = K /\ Packet' = Packet /\ (Reloads' = Reloads) /\ (SecondAt' = SecondAt)
      /\ (\A c : OnBus(c)' = OnBus(c)) /\ Gone(K)' = Gone(K) /\ Gone(K - 1)' = Gone(K - 1)
  BY KeepsPacket
<1>2. Active' = Active /\ Unloaded' = Unloaded /\ Quietly' = Quietly BY DEF Active, Unloaded, Quietly
<1>3. Held' = Held BY <1>1, <1>2 DEF Held
<1>4. Loaded' = Loaded BY <1>1, <1>2, <1>3 DEF Loaded
<1>5. Owing' = Owing BY <1>1, <1>2 DEF Owing
<1>6. Resending' = Resending /\ Counted' = Counted BY <1>1, <1>2 DEF Resending, Counted
<1>7. Fresh' = Fresh /\ Blocked' = Blocked BY <1>1, <1>2 DEF Fresh, Blocked
<1>8. Answered' = Answered BY <1>1, <1>2 DEF Answered
<1> QED BY <1>1, <1>2, <1>4, <1>5, <1>6, <1>7, <1>8 DEF Transfer

\* What is on the bus, or in a buffer, is a transfer's.
LEMMA BusActive ==
  ASSUME Facts, UTInv, bus # None
  PROVE  /\ Active /\ bus.number = N /\ bus \in Sent /\ bus.len \in Nat /\ bus.from \in Nat /\ bus.len <= FifoSize
         /\ ZlpSettled /\ ~Requested /\ control \notin {"setup", "answer"}
<1> USE DEF UTInv, Types
<1>1. Active BY DEF Off, Unloaded
<1>2. bus.number = N /\ bus \in Sent /\ bus.len <= FifoSize BY DEF TypesBus
<1>3. bus.len \in Nat /\ bus.from \in Nat BY <1>2 DEF Sent
<1>4. ~Requested BY <1>1 DEF Driver
<1>5. control \notin {"setup", "answer"} BY <1>1 DEF SetupPath
<1> QED BY <1>1, <1>2, <1>3, <1>4, <1>5 DEF Zero

\* The packet that leaves the FIFO for the buffer is the next of the transfer.
LEMMA DrainStep ==
  ASSUME Facts, UTInv, Drain PROVE UTInv'
<1> USE DEF UTInv, Types
<1>1. Active BY DEF Drain, FifoDrains, Off, Unloaded
<1>2. Number(arbEndpt) = N /\ txFifo.number = N /\ txFifo # None /\ txFifo \in Packets /\ txFifo.len \in 1 .. FifoSize
  BY <1>1, Zenon DEF Drain, FifoDrains, Calm, TypesDma, Facts
<1>3. /\ content' = [content EXCEPT ![N] = txFifo.from] /\ ready' = [ready EXCEPT ![N] = txFifo.len] /\ txFifo' = None
  BY <1>2 DEF Drain, FifoDrains
<1>4. UNCHANGED <<state, selVars, regVars, eventVars, context, addr, addr_q, inLength,
                  dqhSetup, memSetup, cntVars, inputVars, uZlp, bus, timeouts, control, acked>>
  BY DEF Drain
<1>5. N \in Numbers BY DEF Facts
<1>6. TypesReg' BY <1>4 DEF TypesReg, selVars, regVars, eventVars, cntVars, inputVars
<1>7. TypesDma' BY <1>3, <1>4, Zenon DEF TypesDma
<1>8. TypesBus'
  <2>1. txFifo.from \in Nat BY <1>2 DEF Packets
  <2>2. content' \in [Numbers -> Nat] BY <1>3, <1>5, <2>1 DEF TypesBus
  <2>3. ready' \in [Numbers -> (1 .. FifoSize) \cup {None}] BY <1>2, <1>3, <1>5 DEF TypesBus
  <2> QED BY <1>4, <2>2, <2>3 DEF TypesBus
<1>9. pulse # Signal("setup", N) BY <1>1 DEF Calm
<1>10. Place' BY <1>4, SamePlace DEF selVars, regVars, inputVars
<1>11. Calm' BY <1>4, <1>9, SameCalm DEF selVars, regVars, eventVars, inputVars
<1>12. Off' BY <1>1, <1>4 DEF Off, Active, regVars
<1>13. Driver' BY <1>4, SameDriver DEF regVars, inputVars
<1>14. History' BY <1>4, SameHistory DEF regVars, inputVars
<1>15. SetupPath' BY <1>4, <1>9, SameSetup DEF selVars, regVars, eventVars, inputVars
<1>16. Zero' BY <1>4, SameZero DEF regVars, eventVars, inputVars
<1>17. Filling' BY <1>4, SameFilling DEF inputVars
<1>18. S > 0 /\ Loaded
  <2>1. S \in Nat BY <1>1, Sizes
  <2>2. S # 0 BY <1>1, <1>2 DEF Transfer
  <2>3. S > 0 BY <2>1, <2>2
  <2> QED BY <1>1, <1>2, <2>3 DEF Transfer, Owing, Resending, Counted, Unloaded
<1>19. /\ S' = S /\ T' = T /\ K' = K /\ Packet' = Packet /\ (Reloads' = Reloads) /\ (SecondAt' = SecondAt)
       /\ Gone(K)' = Gone(K)
  BY <1>4, KeepsPacket DEF inputVars
<1>20. Loaded'
  <2>1. txFifo = Packet /\ bus = None BY <1>2, <1>18, Zenon DEF Loaded, Held, Unloaded
  <2>2. content'[N] = Packet.from /\ ready'[N] = Packet.len BY <1>3, <1>5, <2>1 DEF TypesBus
  <2>3. Held' BY <1>3, <1>4, <1>19, <2>1, <2>2, Zenon DEF Held
  <2>4. resend # {X} /\ pulse # Signal("resend", X) BY <1>2, <1>18 DEF Loaded, Unloaded
  <2>5. UNCHANGED <<state, pulse, inComplete, resend>> BY <1>4 DEF eventVars, inputVars
  <2> QED BY <1>18, <1>19, <2>3, <2>4, <2>5 DEF Loaded
<1>21. Transfer'
  <2>1. UNCHANGED <<state, context, clearOff, bus, cntLoc>> BY <1>4 DEF eventVars, inputVars
  <2> QED BY <1>1, <1>18, <1>19, <1>20, <2>1 DEF Transfer
<1> QED BY <1>6, <1>7, <1>8, <1>10, <1>11, <1>12, <1>13, <1>14, <1>15, <1>16, <1>17, <1>21

\* The zero-length request that arrives is the transfer's, or its withdrawal.
LEMMA ZlpArrivesStep ==
  ASSUME Facts, UTInv, ZlpArrives PROVE UTInv'
<1> USE DEF UTInv, Types
<1>1. /\ zlpCross # None /\ ~zlpPush /\ uZlp' = zlpCross /\ zlpCross' = None
      /\ UNCHANGED <<state, selVars, regVars, setupRec, setupAck, inToken, inComplete, resend,
                     zlp, zlpMask, clearOff, zlp_q, zlpPush, dmaVars, cntVars, inputVars,
                     content, ready, bus, timeouts, control, acked>>
  BY DEF ZlpArrives
<1>2. bus = None BY <1>1 DEF Zero, ZlpSettled
<1>3. TypesReg' BY <1>1 DEF TypesReg, selVars, regVars, cntVars, inputVars
<1>4. TypesDma' BY <1>1, Zenon DEF TypesDma, dmaVars
<1>5. TypesBus' BY <1>1 DEF TypesBus, TypesReg
<1>6. Place' BY <1>1, SamePlace DEF selVars, regVars, inputVars
<1>7. Calm' BY <1>1 DEF Calm, Active, selVars, regVars, inputVars
<1>8. Off' BY <1>1, SameOff DEF selVars, regVars, inputVars, dmaVars
<1>9. Driver' BY <1>1, SameDriver DEF regVars, inputVars
<1>10. History' BY <1>1, SameHistory DEF regVars, inputVars
<1>11. SetupPath'
  <2>1. UNCHANGED <<state, control, setupRec, setupSel, setupAck, setupStat, setupStatQ, setupBuf, dqhSetup, pulse,
                    memSetup, prime, write, stat, zlpMask, complete, flush, flushClear>>
    BY <1>1 DEF selVars, regVars, inputVars, dmaVars
  <2> QED BY <2>1 DEF SetupPath, NoSetup, TailOver, Trailing, Requested, Active, Cleared, SetupWay
<1>12. Filling' BY <1>1, SameFilling DEF inputVars, dmaVars
<1>13. Zero'
  <2>1. ZActive' = ZActive /\ ZeroOver' = ZeroOver BY <1>1 DEF ZActive, Active, S, ZeroOver, regVars, inputVars
  <2>2. None # {X} BY DEF Facts
  <2>3. zlpMask # {X} => ZActive BY <1>1 DEF Zero
  <2>4. zlpMask = {X} => uZlp' = {} BY <1>1 DEF Zero, TypesReg
  <2> QED BY <1>1, <1>2, <2>1, <2>2, <2>3, <2>4 DEF Zero
<1>14. Transfer'
  <2>1. UNCHANGED <<state, stat, context, addr, addr_q, inLength, txFifo, content, ready, bus, cntLoc, cntValid, cntData,
                    inToken, inComplete, resend, tokenSel, zlp, zlp_q, zlpMask, clearOff, pulse, lists, acked>>
    BY <1>1 DEF selVars, regVars, dmaVars, cntVars, inputVars
  <2> QED BY <2>1, SameTransfer
<1> QED BY <1>3, <1>4, <1>5, <1>6, <1>7, <1>8, <1>9, <1>10, <1>11, <1>12, <1>13, <1>14

\* The host's IN tokens are for the one IN endpoint.
LEMMA OnlyNumber == ASSUME Facts, NEW n \in Numbers, In(n) \in Endpoints PROVE n = N /\ In(n) = X
<1>1. n \in {0, N} /\ n + 16 \in {N, N + 16} /\ N \in 0 .. 11 BY DEF Facts, In
<1>2. n = N BY <1>1
<1> QED BY <1>2 DEF Facts

\* What the host is sent is the packet in the buffer, or the empty one that was
\* asked for.
LEMMA HostAsksStep ==
  ASSUME Facts, UTInv, NEW n \in Numbers, HostAsks(n) PROVE UTInv'
<1> USE DEF UTInv, Types
<1>1. n = N /\ In(n) = X BY OnlyNumber DEF HostAsks
<1>2. /\ bus = None /\ ZlpSettled /\ pulse = None /\ pulse' = Signal("token", X)
      /\ UNCHANGED <<state, selVars, regVars, eventVars, dmaVars, cntVars, cntLoc, setupBuf,
                     lists, write, content, ready, uZlp, timeouts, control, acked>>
  BY <1>1 DEF HostAsks, Event, Signal
<1>3. \/ /\ uZlp = {X} /\ bus' = [number |-> N, from |-> 0, len |-> 0, counted |-> FALSE]
      \/ /\ uZlp = {} /\ ready[N] # None
         /\ bus' = [number |-> N, from |-> content[N], len |-> ready[N], counted |-> FALSE]
  BY <1>1 DEF HostAsks, TypesBus
<1>4. Strobes BY StrobesAre
<1>5. ASSUME zlpMask = {X} PROVE uZlp = {}
  <2>1. zlp = {} /\ zlp_q = {} /\ zlpCross = None /\ ~zlpPush
    <3>1. {X} \cap {X} # {} OBVIOUS
    <3> QED BY <1>2, <1>5, <3>1 DEF ZlpSettled, TypesReg
  <2>2. None # {} /\ {} # {X} BY DEF Facts
  <2> QED BY <1>5, <2>1, <2>2 DEF Zero
<1>6. uZlp = {X} => ZActive BY <1>5 DEF Zero
<1>7. Active
  <2>1. CASE uZlp = {X} BY <1>6, <2>1 DEF ZActive
  <2>2. CASE ready[N] # None BY <2>2 DEF Off, Unloaded
  <2> QED BY <1>3, <2>1, <2>2
<1>8. pulse' # Signal("setup", N) /\ pulse' # None /\ pulse' # Signal("complete", X) /\ pulse' # Signal("resend", X)
  BY <1>2, <1>4 DEF Strobes
<1>9. TypesReg' BY <1>2 DEF TypesReg, selVars, regVars, eventVars, cntVars
<1>10. TypesDma' BY <1>2, Zenon DEF TypesDma, dmaVars
<1>11. TypesBus'
  <2>1. N \in Numbers /\ N \in Nat /\ FifoSize \in Nat BY DEF Facts
  <2>2. content[N] \in Nat /\ ready[N] \in (1 .. FifoSize) \cup {None} BY <2>1 DEF TypesBus
  <2>3. ASSUME bus' = [number |-> N, from |-> 0, len |-> 0, counted |-> FALSE]
        PROVE  bus' \in Sent /\ bus'.number = N /\ bus'.len <= FifoSize
    BY <2>1, <2>3 DEF Sent
  <2>4. ASSUME ready[N] # None, bus' = [number |-> N, from |-> content[N], len |-> ready[N], counted |-> FALSE]
        PROVE  bus' \in Sent /\ bus'.number = N /\ bus'.len <= FifoSize
    <3>1. ready[N] \in Nat /\ ready[N] <= FifoSize BY <2>1, <2>2, <2>4
    <3> QED BY <2>1, <2>2, <2>4, <3>1 DEF Sent
  <2>5. bus' \in Sent /\ bus'.number = N /\ bus'.len <= FifoSize BY <1>3, <2>3, <2>4
  <2> QED BY <1>2, <2>5 DEF TypesBus
<1>12. Place' BY <1>2, SamePlace DEF selVars, regVars
<1>13. Calm' BY <1>2, <1>8, SameCalm DEF selVars, regVars, eventVars
<1>14. Off' BY <1>2, <1>7 DEF Off, Active, regVars
<1>15. Driver' BY <1>2, SameDriver DEF regVars
<1>16. History' BY <1>2, SameHistory DEF regVars
<1>17. SetupPath'
  <2>1. control # "setup" BY <1>7 DEF SetupPath
  <2> QED BY <1>2, <1>8, <2>1, SameSetup DEF selVars, regVars, eventVars, dmaVars
<1>18. Zero' BY <1>2, SameZero DEF regVars, eventVars
<1>19. Filling' BY <1>2, SameFilling DEF dmaVars
<1>20. /\ S' = S /\ T' = T /\ K' = K /\ Packet' = Packet /\ (Reloads' = Reloads) /\ (SecondAt' = SecondAt)
       /\ (\A c : OnBus(c)' = OnBus(c)) /\ Gone(K)' = Gone(K)
  BY <1>2, KeepsPacket DEF dmaVars
<1>21. UNCHANGED <<state, stat, context, inLength, txFifo, content, ready, cntLoc, clearOff, inToken, inComplete, resend,
                   zlp, zlpMask>>
  BY <1>2 DEF dmaVars, eventVars, regVars
<1>22. S \in Nat BY <1>7, Sizes
<1>23. ASSUME S > 0 PROVE Loaded'
  <2>1. uZlp = {} BY <1>6, <1>23, <1>22 DEF ZActive, TypesBus
  <2>2. ready[N] # None /\ bus' = [number |-> N, from |-> content[N], len |-> ready[N], counted |-> FALSE]
    BY <1>3, <2>1
  <2>3. Loaded BY <1>7, <1>23, <2>2 DEF Transfer, Owing, Resending, Counted, Unloaded
  <2>4. txFifo = None /\ ready[N] = Packet.len /\ content[N] = Packet.from
    BY <2>2, <2>3, Zenon DEF Loaded, Held, Unloaded
  <2>5. bus' = OnBus(FALSE) BY <2>2, <2>4 DEF OnBus
  <2>6. Held' BY <1>20, <1>21, <2>4, <2>5, Zenon DEF Held
  <2>7. resend # {X} BY <2>2, <2>3 DEF Loaded, Unloaded
  <2> QED BY <1>8, <1>20, <1>21, <2>3, <2>6, <2>7 DEF Loaded
<1>24. ASSUME S = 0 PROVE Fresh'
  <2>1. ready[N] = None BY <1>7, <1>24 DEF Transfer
  <2>2. uZlp = {X} /\ bus' = [number |-> N, from |-> 0, len |-> 0, counted |-> FALSE] BY <1>3, <2>1
  <2>3. zlpMask # {X} /\ {X} # {} BY <1>5, <2>2
  <2>4. Fresh BY <1>7, <1>24, <2>3 DEF Transfer, Blocked, Answered
  <2>5. bus'.len = 0 /\ bus'.from = 0 BY <2>2
  <2> QED BY <1>8, <1>20, <1>21, <2>4, <2>5 DEF Fresh
<1>25. Transfer'
  <2>1. bus'.counted = FALSE BY <1>3
  <2> QED BY <1>7, <1>20, <1>21, <1>22, <1>23, <1>24, <2>1 DEF Transfer
<1> QED BY <1>9, <1>10, <1>11, <1>12, <1>13, <1>14, <1>15, <1>16, <1>17, <1>18, <1>19, <1>25

\* The packet sent is counted with its length.
LEMMA PacketSentStep ==
  ASSUME Facts, UTInv, PacketSent PROVE UTInv'
<1> USE DEF UTInv, Types
<1>1. /\ Active /\ bus.number = N /\ bus \in Sent /\ bus.len \in Nat /\ bus.from \in Nat /\ bus.len <= FifoSize
      /\ ZlpSettled /\ ~Requested /\ control \notin {"setup", "answer"}
  BY BusActive DEF PacketSent
<1>2. /\ bus # None /\ ~bus.counted /\ pulse = None
      /\ bus' = [bus EXCEPT !.counted = TRUE]
      /\ cntLoc' = [cntLoc EXCEPT ![N] = bus.len]
      /\ ready' = (IF bus.len = 0 THEN ready ELSE [ready EXCEPT ![N] = None])
      /\ UNCHANGED <<state, selVars, regVars, eventVars, dmaVars, cntVars, setupBuf, lists,
                     pulse, write, content, uZlp, timeouts, control, acked>>
  BY <1>1 DEF PacketSent
<1>3. N \in Numbers /\ FifoSize \in Nat BY DEF Facts
<1>4. Strobes BY StrobesAre
<1>5. bus' \in Sent /\ bus'.number = N /\ bus'.len = bus.len /\ bus'.from = bus.from /\ bus'.counted /\ bus' # None
  <2>1. bus' \in Sent /\ bus'.number = N /\ bus'.len = bus.len /\ bus'.from = bus.from /\ bus'.counted
    BY <1>1, <1>2, Zenon DEF Sent
  <2> QED BY <2>1 DEF Facts
<1>6. pulse' = None /\ pulse' # Signal("setup", N) BY <1>2, <1>4 DEF Strobes
<1>7. TypesReg'
  <2>1. bus.len \in 0 .. FifoSize BY <1>1, <1>3
  <2>2. cntLoc' \in [Numbers -> (0 .. FifoSize) \cup {None}] BY <1>2, <1>3, <2>1 DEF TypesReg
  <2> QED BY <1>2, <2>2 DEF TypesReg, selVars, regVars, eventVars, cntVars
<1>8. TypesDma' BY <1>2, Zenon DEF TypesDma, dmaVars
<1>9. TypesBus'
  <2>1. ready' \in [Numbers -> (1 .. FifoSize) \cup {None}] BY <1>2, <1>3 DEF TypesBus
  <2> QED BY <1>1, <1>2, <1>5, <2>1 DEF TypesBus
<1>10. Place' BY <1>2, SamePlace DEF selVars, regVars
<1>11. Calm' BY <1>2, <1>6, SameCalm DEF selVars, regVars, eventVars
<1>12. Off' BY <1>1, <1>2 DEF Off, Active, regVars
<1>13. Driver' BY <1>2, SameDriver DEF regVars
<1>14. History' BY <1>2, SameHistory DEF regVars
<1>15. SetupPath' BY <1>2, <1>6, SameSetup DEF selVars, regVars, eventVars, dmaVars
<1>16. Zero' BY <1>2, SameZero DEF regVars, eventVars
<1>17. Filling' BY <1>2, SameFilling DEF dmaVars
<1>18. /\ S' = S /\ T' = T /\ K' = K /\ Packet' = Packet /\ (Reloads' = Reloads) /\ (SecondAt' = SecondAt)
       /\ (\A c : OnBus(c)' = OnBus(c)) /\ Gone(K)' = Gone(K)
  BY <1>2, KeepsPacket DEF dmaVars
<1>19. UNCHANGED <<state, stat, context, inLength, txFifo, content, pulse, clearOff, inToken, inComplete, resend,
                   zlp, zlpMask>>
  BY <1>2 DEF dmaVars, eventVars, regVars
<1>20. S \in Nat /\ T \in Nat BY <1>1, Sizes
<1>21. cntLoc'[N] = bus'.len BY <1>2, <1>3, <1>5 DEF TypesReg
<1>22. ASSUME S > 0 PROVE Loaded'
  <2>1. Loaded BY <1>1, <1>2, <1>22 DEF Transfer, Owing, Resending, Counted, Unloaded
  <2>2. bus # OnBus(TRUE) BY <1>2 DEF OnBus
  <2>3. txFifo = None /\ bus = OnBus(FALSE) /\ T > 0 BY <1>2, <2>1, <2>2, Zenon DEF Loaded, Held, Unloaded
  <2>4. bus.len > 0
    <3>1. bus.len = Least(T) BY <2>3 DEF OnBus, Packet
    <3> QED BY <1>20, <2>3, <3>1, Zenon DEF Least, Facts
  <2>5. ready'[N] = None BY <1>2, <1>3, <2>4 DEF TypesBus
  <2>6. bus' = OnBus(TRUE) BY <1>2, <2>3, Zenon DEF OnBus
  <2>7. Held' BY <1>18, <1>19, <2>3, <2>5, <2>6, Zenon DEF Held
  <2>8. resend # {X} /\ pulse # Signal("resend", X) BY <1>2, <1>4, <2>1 DEF Loaded, Unloaded, Strobes
  <2> QED BY <1>18, <1>19, <2>1, <2>7, <2>8 DEF Loaded
<1>23. ASSUME S = 0 PROVE Fresh' /\ ready' = ready
  <2>1. Fresh BY <1>1, <1>2, <1>23 DEF Transfer, Blocked, Answered, Quietly
  <2>2. bus.len = 0 /\ bus.from = 0 BY <1>2, <2>1 DEF Fresh
  <2> QED BY <1>2, <1>5, <1>18, <1>19, <2>1, <2>2 DEF Fresh
<1>24. Transfer' BY <1>1, <1>18, <1>19, <1>20, <1>21, <1>22, <1>23 DEF Transfer
<1> QED BY <1>7, <1>8, <1>9, <1>10, <1>11, <1>12, <1>13, <1>14, <1>15, <1>16, <1>17, <1>24

\* The packet acknowledged is the one that came next.
LEMMA HostAcksStep ==
  ASSUME Facts, UTInv, HostAcks PROVE UTInv'
<1> USE DEF UTInv, Types
<1>1. /\ Active /\ bus.number = N /\ bus \in Sent /\ bus.len \in Nat /\ bus.from \in Nat /\ bus.len <= FifoSize
      /\ ZlpSettled /\ ~Requested /\ control \notin {"setup", "answer"}
  BY BusActive DEF HostAcks
<1>2. In(bus.number) = X BY <1>1, Zenon DEF Facts
<1>3. /\ bus # None /\ bus.counted /\ pulse = None /\ pulse' = Signal("complete", X) /\ zlpMask' = {X} /\ bus' = None
      /\ acked' = [acked EXCEPT ![X] = Append(@, <<bus.from, bus.len>>)]
      /\ UNCHANGED <<state, selVars, regVars, setupRec, setupAck, inToken, inComplete, resend,
                     zlp, clearOff, zlp_q, zlpPush, zlpCross, dmaVars, cntVars, cntLoc, setupBuf,
                     lists, write, content, ready, uZlp, timeouts, control>>
  BY <1>2 DEF HostAcks, Event, Signal
<1>4. Strobes BY StrobesAre
<1>5. pulse' # Signal("setup", N) /\ pulse' # None /\ pulse' # Signal("resend", X) BY <1>3, <1>4 DEF Strobes
<1>6. X \in Endpoints /\ N \in Numbers /\ FifoSize \in Nat /\ FifoSize > 0 /\ BufferOf(X) \in Nat BY BufferIs DEF Facts
<1> DEFINE a == <<bus.from, bus.len>>
<1>7. a \in Nat \X Nat /\ a[1] = bus.from /\ a[2] = bus.len BY <1>1
<1> HIDE DEF a
<1>8. acked[X] \in Seq(Nat \X Nat) /\ acked'[X] = Append(acked[X], a) /\ acked' \in [Endpoints -> Seq(Nat \X Nat)]
  <2>1. acked \in [Endpoints -> Seq(Nat \X Nat)] /\ acked' = [acked EXCEPT ![X] = Append(acked[X], a)]
    BY <1>3 DEF TypesBus, a
  <2>2. Append(acked[X], a) \in Seq(Nat \X Nat) BY <1>6, <1>7, <2>1
  <2> QED BY <1>6, <2>1, <2>2
<1>9. K' = K + 1 /\ acked'[X][K + 1] = a /\ (\A i \in 1 .. K : acked'[X][i] = acked[X][i]) /\ K \in Nat
  BY <1>7, <1>8 DEF K
<1>10. TypesReg' BY <1>3 DEF TypesReg, selVars, regVars, cntVars
<1>11. TypesDma' BY <1>3, Zenon DEF TypesDma, dmaVars
<1>12. TypesBus' BY <1>3, <1>8 DEF TypesBus
<1>13. Place' BY <1>3, SamePlace DEF selVars, regVars
<1>14. Calm' BY <1>3, <1>5, SameCalm DEF selVars, regVars
<1>15. Active' BY <1>1, <1>3 DEF Active, regVars
<1>16. Off' /\ ~Requested' BY <1>1, <1>3, <1>15 DEF Off, Requested, regVars
<1>17. Driver'
  <2>1. UNCHANGED <<stat, prime, write, complete, lists, control>> BY <1>3 DEF regVars
  <2> QED BY <1>16, <2>1 DEF Driver, Requested, Active
<1>18. SetupPath'
  <2>1. UNCHANGED <<state, control, setupRec, setupSel, setupAck, setupStat, setupStatQ, setupBuf, dqhSetup,
                    memSetup, prime, write, stat, complete, flush, flushClear>>
    BY <1>3 DEF selVars, regVars, dmaVars
  <2>2. NoSetup => NoSetup' BY <1>5, <2>1 DEF NoSetup
  <2>3. TailOver' = TailOver /\ Trailing' = Trailing /\ Active' = Active /\ Cleared' = Cleared
    BY <2>1 DEF TailOver, Trailing, Active, Cleared
  <2> QED BY <1>1, <1>16, <2>1, <2>2, <2>3 DEF SetupPath
<1>19. Filling' BY <1>3, SameFilling DEF dmaVars
<1>20. S' = S /\ T' = T /\ (SecondAt' = SecondAt) /\ Least(S)' = Least(S)
  BY <1>3 DEF S, T, SecondAt, Least, dmaVars
<1>21. UNCHANGED <<state, stat, context, inLength, txFifo, content, ready, cntLoc, clearOff, inToken, inComplete, resend,
                   zlp, zlp_q, zlpPush, zlpCross, uZlp, lists>>
  BY <1>3 DEF dmaVars, regVars
<1>22. S \in Nat /\ T \in Nat /\ S <= 2 * FifoSize BY <1>1, Sizes
<1>23. cntLoc[N] = bus.len BY <1>1, <1>3 DEF Transfer
<1>24. ASSUME S > 0 PROVE Loaded /\ bus = OnBus(TRUE) /\ ready[N] = None /\ txFifo = None /\ resend = {}
                          /\ bus.from = BufferOf(X) + S - T /\ bus.len = Least(T)
  <2>1. Loaded BY <1>1, <1>3, <1>24 DEF Transfer, Owing, Resending, Counted, Unloaded
  <2>2. bus # OnBus(FALSE) BY <1>3 DEF OnBus
  <2>3. txFifo = None /\ bus = OnBus(TRUE) /\ ready[N] = None BY <1>3, <2>1, <2>2, Zenon DEF Loaded, Held, Unloaded
  <2>4. resend = {} BY <1>3, <2>1 DEF Loaded, Unloaded, TypesReg
  <2>5. bus.from = BufferOf(X) + S - T /\ bus.len = Least(T) BY <2>3 DEF OnBus, Packet
  <2> QED BY <2>1, <2>3, <2>4, <2>5, Zenon
<1>25. ASSUME S > 0 PROVE Owing'
  <2>1. K <= 1 /\ T = S - Gone(K) BY <1>24, <1>25 DEF Loaded
  <2>2. K' \in {1, 2} /\ K' - 1 = K BY <1>9, <2>1
  <2>3. Gone(K - 1)' = Gone(K)
    <3>1. Gone(K - 1)' = IF K' - 1 = 0 THEN 0 ELSE IF K' - 1 = 1 THEN Least(S)' ELSE S' BY DEF Gone
    <3> QED BY <1>20, <2>2, <3>1 DEF Gone
  <2>4. (T = S - Gone(K - 1))' BY <1>20, <2>1, <2>3
  <2>5. Unloaded' /\ resend' = {} BY <1>3, <1>21, <1>24, <1>25 DEF Unloaded
  <2>6. cntLoc'[N] = acked'[X][K'][2] BY <1>7, <1>9, <1>21, <1>23
  <2>7. state' \in Between /\ inComplete' = {} BY <1>21, <1>24, <1>25 DEF Loaded
  <2>8. K' = 1 => SecondAt'
    <3>1. K' = 1 => K = 0 BY <2>2
    <3> QED BY <1>20, <1>24, <1>25, <3>1 DEF Loaded
  <2> QED BY <1>3, <2>2, <2>4, <2>5, <2>6, <2>7, <2>8 DEF Owing
<1>26. ASSUME S = 0 PROVE Fresh /\ bus.len = 0 /\ bus.from = 0
  BY <1>1, <1>3, <1>26 DEF Transfer, Blocked, Answered, Quietly, Fresh
<1>27. ASSUME S = 0 PROVE Answered'
  <2>1. K = 0 /\ inComplete = {} BY <1>26, <1>27 DEF Fresh
  <2>2. K' = 1 /\ zlpMask' = {X} /\ bus' = None /\ cntLoc'[N] = 0
    BY <1>3, <1>9, <1>21, <1>23, <1>26, <1>27, <2>1
  <2>3. pulse' = Signal("complete", X) /\ inComplete' = {} /\ state' = state /\ resend' = resend BY <1>3, <1>21, <2>1
  <2>4. \/ state \in PrimeWaits \cup {"IDLE", "START_IN_FRAMEWORK", "IN_RELOAD_BUFFER"}
        \/ state \in {"IN_HANDSHAKE", "IN_WAIT0"} /\ resend = {X}
    BY <1>26, <1>27 DEF Fresh
  <2> QED BY <2>2, <2>3, <2>4 DEF Answered
<1>28. Transfer' BY <1>1, <1>3, <1>20, <1>21, <1>22, <1>25, <1>26, <1>27 DEF Transfer
<1>29. History'
  <2>1. lists[X] # <<>> BY <1>1 DEF Driver
  <2>2. CASE S > 0
    <3>1. K <= 1 /\ T = S - Gone(K) /\ T > 0 BY <1>24, <2>2 DEF Loaded
    <3>2. CASE K = 0
      <4>1. T = S BY <1>22, <3>1, <3>2 DEF Gone
      <4>2. BufferOf(X) + S - S = BufferOf(X) BY <1>6, <1>22
      <4>3. bus.from = BufferOf(X) /\ bus.len = Least(S) BY <1>24, <2>2, <4>1, <4>2, Zenon
      <4>4. a = <<BufferOf(X), Least(S)>> BY <4>3 DEF a
      <4>5. K' = 1 /\ acked'[X][1] = <<BufferOf(X), Least(S)>> BY <1>9, <3>2, <4>4
      <4> QED BY <1>15, <1>20, <1>21, <1>22, <2>1, <2>2, <4>5 DEF History, K
    <3>3. CASE K = 1
      <4>1. S > FifoSize /\ T = S - FifoSize BY <1>6, <1>22, <3>1, <3>3 DEF Gone, Least
      <4>2. Least(T) = S - FifoSize BY <1>6, <1>22, <4>1 DEF Least
      <4>3. BufferOf(X) + S - (S - FifoSize) = BufferOf(X) + FifoSize BY <1>6, <1>22
      <4>4. bus.from = BufferOf(X) + FifoSize /\ bus.len = S - FifoSize BY <1>24, <2>2, <4>1, <4>2, <4>3, Zenon
      <4>5. a = <<BufferOf(X) + FifoSize, S - FifoSize>> BY <4>4 DEF a
      <4>6. acked[X][1] = <<BufferOf(X), Least(S)>> BY <2>2, <3>3 DEF History, K
      <4>7. 1 \in 1 .. K BY <3>3
      <4>8. K' = 2 /\ acked'[X][2] = <<BufferOf(X) + FifoSize, S - FifoSize>>
            /\ acked'[X][1] = <<BufferOf(X), Least(S)>>
        BY <1>9, <3>3, <4>5, <4>6, <4>7
      <4> QED BY <1>15, <1>20, <1>21, <1>22, <2>1, <2>2, <4>1, <4>8 DEF History, K
    <3> QED BY <1>9, <3>1, <3>2, <3>3
  <2>3. CASE S = 0
    <3>1. K = 0 /\ a = <<0, 0>> BY <1>26, <2>3 DEF a, Fresh
    <3>2. K' = 1 /\ acked'[X][1] = <<0, 0>> BY <1>9, <3>1
    <3> QED BY <1>15, <1>20, <1>21, <1>22, <2>1, <2>3, <3>2 DEF History, K
  <2> QED BY <1>22, <2>2, <2>3
<1>30. Zero'
  <2>1. ZActive' = ZActive BY <1>1, <1>15, <1>20 DEF ZActive
  <2>2. zlpCross = None /\ ~zlpPush /\ zlp_q = zlp BY <1>1 DEF ZlpSettled
  <2>3. None # {X} /\ {} # {X} BY DEF Facts
  <2>4. ~ZActive' => ZeroOver' BY <1>21, <2>1 DEF Zero, ZeroOver
  <2>5. uZlp = {} \/ zlp = {X}
    <3>1. CASE zlpMask # {X} BY <3>1 DEF Zero
    <3>2. CASE zlpMask = {X}
      <4>1. zlpCross # {} BY <2>2 DEF Facts
      <4> QED BY <2>2, <3>2, <4>1 DEF Zero
    <3> QED BY <3>1, <3>2
  <2> QED BY <1>3, <1>21, <2>1, <2>2, <2>3, <2>4, <2>5 DEF Zero
<1> QED BY <1>10, <1>11, <1>12, <1>13, <1>14, <1>16, <1>17, <1>18, <1>19, <1>28, <1>29, <1>30

\* A packet not acknowledged is resent or, after the one resend that is
\* reported, lost with its buffer.
LEMMA HostSilentStep ==
  ASSUME Facts, UTInv, HostSilent PROVE UTInv'
<1> USE DEF UTInv, Types
<1>1. /\ Active /\ bus.number = N /\ bus \in Sent /\ bus.len \in Nat /\ bus.from \in Nat /\ bus.len <= FifoSize
      /\ ZlpSettled /\ ~Requested /\ control \notin {"setup", "answer"}
  BY BusActive DEF HostSilent
<1>2. In(bus.number) = X BY <1>1, Zenon DEF Facts
<1>3. /\ bus # None /\ bus.counted /\ timeouts < MaxTimeouts /\ timeouts' = timeouts + 1 /\ bus' = None
      /\ timeouts \in Nat /\ MaxTimeouts \in Nat
      /\ IF timeouts = 0 THEN pulse = None /\ pulse' = Signal("resend", X) ELSE pulse' = pulse
      /\ UNCHANGED <<state, selVars, regVars, eventVars, dmaVars, cntVars, cntLoc, setupBuf,
                     lists, write, content, ready, uZlp, control, acked>>
  BY <1>2 DEF HostSilent, Event, Signal, TypesBus, Facts
<1>4. Strobes BY StrobesAre
<1>5. pulse # Signal("setup", N) BY <1>1 DEF Calm
<1>6. pulse' # Signal("setup", N) BY <1>3, <1>4, <1>5 DEF Strobes
<1>7. TypesReg' BY <1>3 DEF TypesReg, selVars, regVars, eventVars, cntVars
<1>8. TypesDma' BY <1>3, Zenon DEF TypesDma, dmaVars
<1>9. TypesBus'
  <2>1. timeouts' \in Nat BY <1>3
  <2> QED BY <1>3, <2>1 DEF TypesBus
<1>10. Place' BY <1>3, SamePlace DEF selVars, regVars
<1>11. Calm' BY <1>3, <1>6, SameCalm DEF selVars, regVars, eventVars
<1>12. Off' BY <1>1, <1>3 DEF Off, Active, regVars
<1>13. Driver' BY <1>3, SameDriver DEF regVars
<1>14. History' BY <1>3, SameHistory DEF regVars
<1>15. SetupPath' BY <1>1, <1>3, <1>6, SameSetup DEF selVars, regVars, eventVars, dmaVars
<1>16. Zero' BY <1>3, SameZero DEF regVars, eventVars
<1>17. Filling' BY <1>3, SameFilling DEF dmaVars
<1>18. /\ S' = S /\ T' = T /\ K' = K /\ Packet' = Packet /\ (Reloads' = Reloads) /\ (SecondAt' = SecondAt)
       /\ Gone(K)' = Gone(K)
  BY <1>3, KeepsPacket DEF dmaVars
<1>19. UNCHANGED <<state, stat, context, inLength, txFifo, content, ready, cntLoc, clearOff, inToken, inComplete, resend,
                   zlp, zlpMask>>
  BY <1>3 DEF dmaVars, eventVars, regVars
<1>20. S \in Nat BY <1>1, Sizes
<1>21. ASSUME S > 0 PROVE Loaded'
  <2>1. Loaded BY <1>1, <1>3, <1>21 DEF Transfer, Owing, Resending, Counted, Unloaded
  <2>2. bus # OnBus(FALSE) BY <1>3 DEF OnBus
  <2>3. txFifo = None /\ ready[N] = None BY <1>3, <2>1, <2>2, Zenon DEF Loaded, Held, Unloaded
  <2>4. resend # {X} BY <1>3, <2>1 DEF Loaded, Unloaded
  <2>5. Unloaded' BY <1>3, <1>19, <2>3 DEF Unloaded
  <2>6. pulse' = Signal("resend", X) \/ MaxTimeouts > 1 BY <1>3
  <2>7. Held' BY <2>5, <2>6, Zenon DEF Held
  <2>8. pulse' # Signal("complete", X) BY <1>3, <1>4, <2>1 DEF Loaded, Strobes
  <2> QED BY <1>18, <1>19, <2>1, <2>4, <2>5, <2>7, <2>8 DEF Loaded
<1>22. ASSUME S = 0 PROVE Fresh'
  <2>1. Fresh BY <1>1, <1>3, <1>22 DEF Transfer, Blocked, Answered, Quietly
  <2>2. pulse' # Signal("complete", X) BY <1>3, <1>4, <2>1 DEF Fresh, Strobes
  <2> QED BY <1>3, <1>18, <1>19, <2>1, <2>2 DEF Fresh
<1>23. Transfer' BY <1>1, <1>3, <1>18, <1>19, <1>20, <1>21, <1>22 DEF Transfer
<1> QED BY <1>7, <1>8, <1>9, <1>10, <1>11, <1>12, <1>13, <1>14, <1>15, <1>16, <1>17, <1>23

\* A SETUP packet comes when the control transfer before it is over.
LEMMA HostSetupStep ==
  ASSUME Facts, UTInv, HostSetup PROVE UTInv'
<1> USE DEF UTInv, Types
<1>1. Control = N /\ Control # None BY DEF HostSetup, Facts
<1>2. /\ bus = None /\ control = "idle" /\ ZlpSettled /\ control' = "setup" /\ pulse = None
      /\ pulse' = Signal("setup", N) /\ setupBuf' \in Setups /\ zlpMask' = {N}
      /\ UNCHANGED <<state, selVars, regVars, setupRec, setupAck, inToken, inComplete, resend,
                     zlp, clearOff, zlp_q, zlpPush, zlpCross, dmaVars, cntVars, cntLoc, lists,
                     write, content, ready, uZlp, bus, timeouts, acked>>
  BY <1>1 DEF HostSetup, Event, Signal
<1>3. /\ ~Requested /\ ~Active /\ Cleared /\ NoSetup /\ TailOver /\ setupStat = {} /\ setupStatQ = {}
  BY <1>1, <1>2 DEF SetupPath
<1>4. UNCHANGED <<state, stat, prime, complete, flush, flushClear, setupStat, setupStatQ, context, inLength, txFifo,
                  addr, memSetup, dqhSetup, setupSel, tokenSel, primeSel, endpt, arbEndpt>>
  BY <1>2 DEF selVars, dmaVars, regVars
<1>5. ~Active' /\ ~Requested' /\ Cleared' /\ TailOver' BY <1>2, <1>3, <1>4 DEF Active, Requested, Cleared, TailOver
<1>6. TypesReg' BY <1>2 DEF TypesReg, selVars, regVars, cntVars
<1>7. TypesDma' BY <1>2, Zenon DEF TypesDma, dmaVars
<1>8. TypesBus' BY <1>2 DEF TypesBus
<1>9. Place' BY <1>2, SamePlace DEF selVars, regVars
<1>10. Calm' /\ Transfer' BY <1>5 DEF Calm, Transfer
<1>11. Off' BY <1>2, <1>3, <1>4 DEF Off, Unloaded, NoReport
<1>12. Driver'
  <2>1. write # Signal("setupStat", N) BY <1>2 DEF Driver
  <2> QED BY <1>2, <1>4, <1>5, <2>1 DEF Driver, Active, Requested
<1>13. History' BY <1>2, <1>4, SameHistory
<1>14. SetupPath'
  <2>1. SetupWay' BY <1>2, <1>3, <1>4, <1>5 DEF SetupWay, NoSetup
  <2> QED BY <1>1, <1>2, <1>4, <1>5, <2>1 DEF SetupPath
<1>15. Filling' BY <1>2, SameFilling DEF dmaVars
<1>16. Zero'
  <2>1. ~ZActive /\ ~ZActive' BY <1>3, <1>5 DEF ZActive
  <2>2. ZeroOver' BY <1>2, <2>1 DEF Zero, ZeroOver
  <2>3. zlpCross = None /\ ~zlpPush /\ zlp_q = {} /\ zlp = {} BY <1>2, <2>1 DEF ZlpSettled, Zero, ZeroOver
  <2>4. uZlp = {}
    <3>1. CASE zlpMask # {X} BY <2>1, <3>1 DEF Zero
    <3>2. CASE zlpMask = {X}
      <4>1. zlpCross # {} /\ {} # {X} BY <2>3 DEF Facts
      <4> QED BY <2>3, <3>2, <4>1 DEF Zero
    <3> QED BY <3>1, <3>2
  <2>5. {N} # {X}
    <3>1. N # X BY DEF Facts
    <3> QED BY <3>1
  <2> QED BY <1>2, <2>1, <2>2, <2>3, <2>4, <2>5 DEF Zero
<1> QED BY <1>6, <1>7, <1>8, <1>9, <1>10, <1>11, <1>12, <1>13, <1>14, <1>15, <1>16

\* A step of the driver: what it writes, and the memory and history of an endpoint it primes.
DriverFrame ==
  UNCHANGED <<state, selVars, regVars, eventVars, dmaVars, cntVars, cntLoc, setupBuf,
              pulse, content, ready, uZlp, bus, timeouts>>

\* Such a step keeps the types.
LEMMA DriverTypes ==
  ASSUME Facts, Types, DriverFrame,
         write' \in {None, Signal("complete", X), Signal("setupStat", N), Signal("prime", N), Signal("prime", X)},
         lists' \in [Endpoints -> DtdLists \cup {<<>>}], acked' \in [Endpoints -> Seq(Nat \X Nat)],
         control' \in {"idle", "setup", "answer", "data"}
  PROVE  Types'
<1>1. TypesReg' BY DEF DriverFrame, Types, TypesReg, selVars, regVars, eventVars, cntVars
<1>2. TypesDma' BY Zenon DEF DriverFrame, Types, TypesDma, dmaVars
<1>3. TypesBus' BY DEF DriverFrame, Types, TypesBus
<1> QED BY <1>1, <1>2, <1>3 DEF Types

\* While no transfer is on, it disturbs neither the engine nor the requests.
LEMMA DriverRests ==
  ASSUME UTInv, ~Active, DriverFrame
  PROVE  ~Active' /\ Calm' /\ Off' /\ Zero' /\ Transfer'
<1> USE DEF UTInv
<1>1. ~Active' BY DEF Active, DriverFrame, regVars
<1>2. Off'
  <2>1. UNCHANGED <<stat, txFifo, ready, bus, pulse, inToken, inComplete, resend, tokenSel, inLength, clearOff>>
    BY DEF DriverFrame, selVars, regVars, eventVars, dmaVars
  <2> QED BY <2>1, SameOff
<1>3. Zero'
  <2>1. UNCHANGED <<zlp, zlp_q, zlpMask, zlpPush, zlpCross, uZlp, clearOff, bus>> BY DEF DriverFrame, eventVars
  <2>2. ~ZActive /\ ~ZActive' BY <1>1 DEF ZActive
  <2>3. ZeroOver' = ZeroOver /\ ZlpSettled' = ZlpSettled BY <2>1 DEF ZeroOver, ZlpSettled
  <2> QED BY <2>1, <2>2, <2>3 DEF Zero
<1> QED BY <1>1, <1>2, <1>3 DEF Calm, Transfer

\* The driver takes the SETUP packet and clears its bit.
LEMMA DriverTakesSetupStep ==
  ASSUME Facts, UTInv, DriverTakesSetup PROVE UTInv'
<1> USE DEF UTInv
<1>1. Control = N /\ control = "setup" /\ setupStat = {N} /\ write = None /\ control' = "answer"
      /\ write' = Signal("setupStat", N) /\ UNCHANGED <<lists, acked>>
  <2>1. control = "setup" /\ Control \in setupStat /\ setupStat \in {{}, {N}} BY DEF DriverTakesSetup, Types, TypesReg
  <2>2. Control = N BY <2>1
  <2> QED BY <2>1, <2>2 DEF DriverTakesSetup, Write, Signal
<1>2. DriverFrame BY DEF DriverFrame, DriverTakesSetup, quietForDriver
<1>3. Strobes BY StrobesAre DEF Types
<1>4. Types' BY <1>1, <1>2, DriverTypes DEF Types, TypesReg, TypesBus
<1>5. ~Active /\ ~Requested /\ Cleared /\ SetupWay /\ zlpMask = {N} BY <1>1 DEF SetupPath
<1>6. ~Active' /\ Calm' /\ Off' /\ Zero' /\ Transfer' BY <1>2, <1>5, DriverRests
<1>7. pulse = None /\ setupRec = {} /\ setupStatQ = {} /\ Trailing /\ memSetup = setupBuf
  <2>1. {N} # {} OBVIOUS
  <2> QED BY <1>1, <1>5, <2>1 DEF SetupWay
<1>8. UNCHANGED <<state, stat, prime, primeSel, endpt, arbEndpt, complete, flush, flushClear, setupStat, setupStatQ,
                  setupRec, setupSel, setupAck, memSetup, setupBuf, context, addr, pulse, zlpMask>>
  BY <1>2 DEF DriverFrame, selVars, regVars, eventVars, dmaVars
<1>9. complete = {}
  <2>1. complete # {X} BY <1>1, <1>3, <1>5 DEF Cleared, Strobes
  <2> QED BY <2>1 DEF Types, TypesReg
<1>10. ~Requested' BY <1>1, <1>3, <1>5, <1>8 DEF Requested, Strobes
<1>11. Place' BY <1>1, <1>3, <1>8 DEF Place, Active, Strobes
<1>12. Driver'
  <2>1. {} # {X} /\ prime' # {X} BY <1>10 DEF Requested
  <2> QED BY <1>1, <1>3, <1>6, <1>8, <1>9, <1>10, <2>1 DEF Driver, Strobes
<1>13. History' BY <1>1, <1>5, <1>6, <1>8, <1>10 DEF History, S, Least
<1>14. SetupPath'
  <2>1. {} # {X} OBVIOUS
  <2>2. NoSetup' /\ Trailing' /\ Cleared' /\ TailOver' = TailOver
    BY <1>3, <1>7, <1>8, <1>9, <2>1 DEF NoSetup, Trailing, Cleared, TailOver, Strobes
  <2>3. setupStatQ' = {} /\ zlpMask' = {N} /\ memSetup' = setupBuf' BY <1>5, <1>7, <1>8
  <2> QED BY <1>1, <1>6, <1>8, <1>10, <2>2, <2>3 DEF SetupPath, Facts
<1>15. Filling' BY <1>1, <1>8, SameFilling
<1> QED BY <1>4, <1>6, <1>11, <1>12, <1>13, <1>14, <1>15

\* The driver takes the completion and clears its bit.
LEMMA DriverTakesCompletionStep ==
  ASSUME Facts, UTInv, NEW e \in Endpoints, DriverTakesCompletion(e) PROVE UTInv'
<1> USE DEF UTInv
<1>1. e = X /\ complete = {X}
  <2>1. e \in complete /\ complete \in {{}, {X}} BY DEF DriverTakesCompletion, Types, TypesReg
  <2> QED BY <2>1
<1>2. /\ write = None /\ write' = Signal("complete", X) /\ UNCHANGED <<lists, acked>>
      /\ control' = IF Control # None THEN "idle" ELSE control
  <2>1. "ack" \in Discipline /\ (Control # None => X = In(Control)) BY DEF Facts
  <2> QED BY <1>1, <2>1 DEF DriverTakesCompletion, Write, Signal
<1>3. DriverFrame BY DEF DriverFrame, DriverTakesCompletion, quietForDriver
<1>4. Strobes BY StrobesAre DEF Types
<1>5. Types'
  <2>1. control' \in {"idle", "setup", "answer", "data"} BY <1>2 DEF Types, TypesBus
  <2> QED BY <1>2, <1>3, <2>1, DriverTypes, Zenon DEF Types, TypesReg, TypesBus
<1>6. {X} # {} OBVIOUS
<1>7. ~Active /\ ~Requested BY <1>1, <1>6 DEF Calm, Driver
<1>8. ~Active' /\ Calm' /\ Off' /\ Zero' /\ Transfer' BY <1>3, <1>7, DriverRests
<1>9. UNCHANGED <<state, stat, prime, primeSel, endpt, arbEndpt, complete, flush, flushClear, setupStat, setupStatQ,
                  setupRec, setupSel, setupAck, memSetup, setupBuf, context, addr, pulse, zlpMask>>
  BY <1>3 DEF DriverFrame, selVars, regVars, eventVars, dmaVars
<1>10. ~Cleared BY <1>1, <1>2, <1>4 DEF Cleared, Strobes
<1>11. /\ NoSetup /\ TailOver /\ setupStat = {} /\ setupStatQ = {} /\ control' = "idle"
  <2>1. CASE Control = None
    <3>1. control = "idle" BY <2>1 DEF SetupPath
    <3> QED BY <1>2, <2>1, <3>1 DEF SetupPath
  <2>2. CASE Control # None
    <3>1. control = "data" BY <1>10, <2>2 DEF SetupPath, Types, TypesBus
    <3> QED BY <1>2, <1>7, <2>2, <3>1 DEF SetupPath
  <2> QED BY <2>1, <2>2
<1>12. ~Requested' BY <1>2, <1>4, <1>7, <1>9 DEF Requested, Strobes
<1>13. Place' BY <1>2, <1>4, <1>9 DEF Place, Active, Strobes
<1>14. Driver'
  <2>1. prime' # {X} /\ lists[X] # <<>> BY <1>1, <1>12 DEF Requested, Driver
  <2> QED BY <1>1, <1>2, <1>4, <1>8, <1>9, <1>12, <2>1 DEF Driver, Strobes
<1>15. History' BY <1>2, <1>7, <1>8, <1>9, <1>12 DEF History, S, Least
<1>16. SetupPath'
  <2>1. NoSetup' /\ TailOver' /\ Cleared' BY <1>2, <1>9, <1>11 DEF NoSetup, TailOver, Cleared
  <2> QED BY <1>8, <1>9, <1>11, <1>12, <2>1 DEF SetupPath
<1>17. Filling' BY <1>2, <1>9, SameFilling
<1> QED BY <1>5, <1>8, <1>13, <1>14, <1>15, <1>16, <1>17

\* The driver queues a transfer and asks for it.
LEMMA DriverPrimesStep ==
  ASSUME Facts, UTInv, NEW e \in Endpoints, DriverPrimes(e) PROVE UTInv'
<1> USE DEF UTInv
<1>1. PICK l \in DtdLists : lists' = [lists EXCEPT ![e] = l] BY Zenon DEF DriverPrimes
<1>2. /\ Inactive(e) /\ Careful(e) /\ acked' = [acked EXCEPT ![e] = <<>>]
      /\ write = None /\ write' = Signal("prime", e)
  BY DEF DriverPrimes, Write, Signal
<1>3. DriverFrame BY DEF DriverFrame, DriverPrimes, quietForDriver
<1>4. e \in {N, X} /\ N # X /\ X \in Endpoints /\ l # <<>> /\ {X} # {N} /\ {X} # {} /\ {N} # {} BY Zenon DEF Facts
<1>5. Strobes BY StrobesAre DEF Types
<1>6. Inactive(X)
  <2>1. CASE e = X BY <1>2, <2>1
  <2>2. CASE e = N
    <3>1. ~IsIn(e) /\ In(Number(e)) = X /\ "direction" \in Discipline BY <2>2 DEF Facts
    <3> QED BY <1>2, <1>4, <3>1 DEF Careful
  <2> QED BY <1>4, <2>1, <2>2
<1>7. ~Active /\ ~Requested
  <2>1. X \notin prime /\ X \notin stat BY <1>6 DEF Inactive
  <2>2. write # Signal("prime", X) BY <1>2, <1>5 DEF Strobes
  <2> QED BY <2>1, <2>2 DEF Active, Requested
<1>8. ~Active' /\ Calm' /\ Off' /\ Zero' /\ Transfer' BY <1>3, <1>7, DriverRests
<1>9. UNCHANGED <<state, stat, prime, primeSel, endpt, arbEndpt, complete, flush, flushClear, setupStat, setupStatQ,
                  setupRec, setupSel, setupAck, memSetup, dqhSetup, setupBuf, context, addr, pulse, zlpMask>>
  BY <1>3 DEF DriverFrame, selVars, regVars, eventVars, dmaVars
<1>10. lists'[e] = l /\ acked'[e] = <<>> /\ (\A f \in Endpoints \ {e} : lists'[f] = lists[f] /\ acked'[f] = acked[f])
  BY <1>1, <1>2 DEF Types, TypesReg, TypesBus
<1>11. control' = (IF Control # None /\ e = X THEN "data" ELSE control)
       /\ (Control # None /\ e = X => control = "answer")
  <2>1. Control # None => In(Control) = X BY DEF Facts
  <2> QED BY <2>1 DEF DriverPrimes
<1>12. Types'
  <2>1. control' \in {"idle", "setup", "answer", "data"} BY <1>11 DEF Types, TypesBus
  <2>2. lists' \in [Endpoints -> DtdLists \cup {<<>>}] BY <1>1 DEF Types, TypesReg
  <2>3. acked' \in [Endpoints -> Seq(Nat \X Nat)]
    <3>1. <<>> \in Seq(Nat \X Nat) OBVIOUS
    <3> QED BY <1>2, <3>1 DEF Types, TypesBus
  <2> QED BY <1>2, <1>3, <1>4, <2>1, <2>2, <2>3, DriverTypes DEF Types
<1>13. control = "idle" /\ Control # None => complete = {}
  BY <1>2, <1>5 DEF SetupPath, Cleared, Strobes, Types, TypesReg
<1>14. control \in {"setup", "answer"} => complete = {}
  BY <1>2, <1>5 DEF SetupPath, Cleared, Strobes, Types, TypesReg
<1>15. control = "answer" => setupStat = {}
  BY <1>2, <1>5 DEF SetupPath, Strobes, Types, TypesReg
<1>16. prime # {X} /\ prime' # {X} BY <1>7, <1>9 DEF Requested
<1>17. state \notin FillStates /\ (state \in FetchStates => endpt # X) /\ primeSel # X
  <2>1. state \in FillStates => prime = {X} BY DEF Place
  <2>2. state \in FetchStates /\ endpt = X => prime = {X} BY DEF Place
  <2>3. primeSel = X => prime = {X} BY <1>7 DEF Place
  <2> QED BY <1>16, <2>1, <2>2, <2>3
<1>18. Filling' BY <1>9, <1>17 DEF Filling
<1>19. CASE e = X
  <2>1. complete = {}
    <3>1. "ack" \in Discipline BY DEF Facts
    <3>2. X \notin complete BY <1>2, <1>19, <3>1 DEF Careful
    <3> QED BY <3>2 DEF Types, TypesReg
  <2>2. Requested' /\ write' = Signal("prime", X) BY <1>2, <1>19 DEF Requested
  <2>3. lists'[X] # <<>> /\ acked'[X] = <<>> BY <1>4, <1>10, <1>19
  <2>4. N \in Endpoints => lists'[N] = lists[N] BY <1>4, <1>10, <1>19
  <2>5. Place'
    <3>1. N \in prime' \/ write' = Signal("prime", N) \/ primeSel' = N => N \in Endpoints /\ lists'[N] # <<>>
      BY <1>5, <1>9, <2>2, <2>4 DEF Place, Strobes
    <3>2. state' \in FetchStates => endpt' \in Endpoints /\ endpt' # X /\ lists'[endpt'] # <<>>
      <4>1. state \in FetchStates => endpt \in Endpoints /\ endpt # X /\ lists[endpt] # <<>> BY <1>17 DEF Place
      <4> QED BY <1>9, <1>10, <1>19, <4>1
    <3> QED BY <1>8, <1>9, <1>17, <2>3, <3>1, <3>2 DEF Place, Active
  <2>6. Driver' BY <1>5, <1>8, <1>9, <1>16, <2>1, <2>2, <2>3 DEF Driver, Strobes
  <2>7. History' BY <2>2, <2>3 DEF History
  <2>8. SetupPath'
    <3>1. NoSetup' = NoSetup /\ Trailing' = Trailing /\ TailOver' = TailOver
      BY <1>9 DEF NoSetup, Trailing, TailOver
    <3>2. CASE Control = None
      <4>1. control = "idle" /\ control' = "idle" BY <1>11, <3>2 DEF SetupPath
      <4> QED BY <1>9, <3>1, <3>2, <4>1 DEF SetupPath
    <3>3. CASE Control # None
      <4>1. control = "answer" /\ control' = "data" BY <1>11, <1>19, <3>3
      <4>2. write' # Signal("complete", X) BY <1>5, <2>2 DEF Strobes
      <4> QED BY <1>9, <1>15, <2>2, <3>1, <3>3, <4>1, <4>2 DEF SetupPath
    <3> QED BY <3>2, <3>3
  <2> QED BY <1>8, <1>12, <1>18, <2>5, <2>6, <2>7, <2>8
<1>20. CASE e = N
  <2>1. write' = Signal("prime", N) /\ control' = control BY <1>2, <1>4, <1>11, <1>20
  <2>2. ~Requested' BY <1>5, <1>16, <2>1 DEF Requested, Strobes
  <2>3. lists'[X] = lists[X] /\ acked'[X] = acked[X] /\ lists'[N] # <<>> /\ N \in Endpoints BY <1>4, <1>10, <1>20
  <2>4. Place'
    <3>1. state' \in FetchStates => endpt' \in Endpoints /\ endpt' # X /\ lists'[endpt'] # <<>>
      <4>1. state \in FetchStates => endpt \in Endpoints /\ endpt # X /\ endpt \in {N, X}
        BY <1>17 DEF Place, Facts
      <4> QED BY <1>9, <2>3, <4>1
    <3>2. write' # Signal("prime", X) BY <1>5, <2>1 DEF Strobes
    <3> QED BY <1>8, <1>9, <1>16, <1>17, <2>3, <3>1, <3>2 DEF Place, Active
  <2>5. Driver' BY <1>5, <1>8, <1>9, <1>16, <2>1, <2>2, <2>3 DEF Driver, Strobes
  <2>6. History'
    <3>1. S' = S /\ Least(S)' = Least(S) BY <2>3 DEF S, Least
    <3> QED BY <1>7, <1>8, <2>2, <2>3, <3>1 DEF History
  <2>7. SetupPath'
    <3>1. NoSetup' = NoSetup /\ Trailing' = Trailing /\ TailOver' = TailOver
      BY <1>9 DEF NoSetup, Trailing, TailOver
    <3>2. SetupWay' = SetupWay BY <1>9, <3>1 DEF SetupWay
    <3>3. complete = {} => Cleared' BY <1>4, <1>9, Zenon DEF Cleared
    <3>4. write' # Signal("complete", X) BY <1>5, <2>1 DEF Strobes
    <3>5. control = "idle" => NoSetup' /\ TailOver' /\ setupStat' = {} /\ setupStatQ' = {} BY <1>9, <3>1 DEF SetupPath
    <3>6. control = "idle" /\ Control # None => Cleared' BY <1>13, <3>3
    <3>7. control = "setup" => SetupWay' /\ zlpMask' = {N} /\ Cleared' BY <1>9, <1>14, <3>2, <3>3 DEF SetupPath
    <3>8. control = "answer" => NoSetup' /\ Trailing' /\ setupStatQ' = {} /\ zlpMask' = {N} /\ Cleared' /\ setupStat' = {}
      BY <1>9, <1>14, <1>15, <3>1, <3>3 DEF SetupPath
    <3>9. control = "data" => NoSetup' /\ Trailing' /\ setupStatQ' = {} /\ setupStat' = {} /\ TailOver'
      BY <1>7, <1>9, <3>1 DEF SetupPath
    <3>10. Control = None => control' = "idle" BY <2>1 DEF SetupPath
    <3>11. /\ flush' # {} => state' \in {"SETUP_UPDATE_SETUP_BYTES", "SETUP_WAIT1"}
           /\ state' = "SETUP_WAIT1" /\ flush' # {} => flushClear'
      BY <1>9 DEF SetupPath
    <3> QED BY <1>4, <1>8, <2>1, <2>2, <3>4, <3>5, <3>6, <3>7, <3>8, <3>9, <3>10, <3>11 DEF SetupPath
  <2> QED BY <1>8, <1>12, <1>18, <2>4, <2>5, <2>6, <2>7
<1> QED BY <1>4, <1>19, <1>20

\* Initially the invariant holds.
LEMMA InvInit == ASSUME Settings, UTInit PROVE UTInv
<1> USE DEF UTInit, TMInit
<1>1. Facts BY Basics
<1>2. N \in Nat /\ X \in Nat /\ FifoSize \in Nat /\ N \in Numbers /\ X \in Endpoints BY <1>1 DEF Facts
<1>3. TypesReg
  <2>1. cntLoc \in [Numbers -> (0 .. FifoSize) \cup {None}] /\ setupBuf \in Setups \cup {None} OBVIOUS
  <2>2. lists \in [Endpoints -> DtdLists \cup {<<>>}] OBVIOUS
  <2>3. state = "IDLE" /\ endpt = 0 /\ arbEndpt = 0 /\ primeSel = None /\ setupSel = None /\ tokenSel = None OBVIOUS
  <2>4. prime = {} /\ stat = {} /\ complete = {} /\ flush = {} /\ flushClear = FALSE
        /\ setupStat = {} /\ setupStatQ = {} /\ setupRec = {} /\ setupAck = FALSE
    OBVIOUS
  <2>5. inToken = {} /\ inComplete = {} /\ resend = {} /\ zlp = {} /\ zlpMask = {} /\ clearOff = 0
        /\ zlp_q = {} /\ zlpPush = FALSE /\ zlpCross = None
    OBVIOUS
  <2>6. cntValid = FALSE /\ cntData = 0 /\ pulse = None /\ write = None OBVIOUS
  <2>7. clearOff \in 0 .. 3 /\ cntData \in Nat BY <2>5, <2>6
  <2> HIDE DEF UTInit, TMInit
  <2> QED BY <2>1, <2>2, <2>3, <2>4, <2>5, <2>6, <2>7, Zenon DEF TypesReg
<1>4. TypesDma
  <2>1. NoDtd \in [total : 0 .. 2 ^ 15 - 1, base : Nat, index : Nat, last : BOOLEAN]
    <3>1. 0 \in 0 .. 2 ^ 15 - 1
      <4>1. 2 ^ 15 \in Nat /\ 2 ^ 15 > 0 BY SMT
      <4> QED BY <4>1
    <3> DEFINE w == 0 .. 2 ^ 15 - 1
    <3>2. 0 \in w BY <3>1
    <3> HIDE DEF w
    <3>3. NoDtd \in [total : w, base : Nat, index : Nat, last : BOOLEAN] BY <3>2 DEF NoDtd
    <3> QED BY <3>3, Zenon DEF w
  <2> HIDE DEF NoDtd
  <2>2. context \in [Endpoints -> [total : 0 .. 2 ^ 15 - 1, base : Nat, index : Nat, last : BOOLEAN]]
    BY <2>1, Zenon
  <2>3. addr \in [Numbers -> Nat] /\ addr_q \in [Numbers -> Nat] OBVIOUS
  <2>4. inLength \in 0 .. FifoSize BY <1>2
  <2>5. txFifo = None /\ dqhSetup = None /\ memSetup = None OBVIOUS
  <2> HIDE DEF UTInit, TMInit
  <2> QED BY <2>2, <2>3, <2>4, <2>5, Zenon DEF TypesDma
<1>5. TypesBus
  <2>1. <<>> \in Seq(Nat \X Nat) OBVIOUS
  <2> QED BY <1>2, <2>1 DEF TypesBus
<1>6. Strobes BY <1>1, <1>3, StrobesAre
<1>7. ~Active /\ ~Requested /\ acked[X] = <<>> /\ lists[X] = <<>> /\ ready[N] = None
  BY <1>2, <1>6 DEF Active, Requested, Strobes
<1>8. "IDLE" \notin SetupStates \cup FetchStates \cup FillStates \cup PrimeWaits \cup InStates
  BY DEF SetupStates, FetchStates, FillStates, PrimeWaits, InStates
<1>9. Place
  <2>1. None # N /\ None # X BY <1>1 DEF Facts
  <2> QED BY <1>6, <1>8, <2>1 DEF Place, Strobes
<1>10. Calm /\ Transfer /\ Filling BY <1>7, <1>8 DEF Calm, Transfer, Filling
<1>11. Off BY <1>7 DEF Off, Unloaded, NoReport
<1>12. Driver BY <1>6, <1>7 DEF Driver, Strobes
<1>13. SetupPath BY <1>6, <1>7, <1>8 DEF SetupPath, NoSetup, TailOver, Cleared, Strobes
<1>14. Zero
  <2>1. None # {X} BY <1>1 DEF Facts
  <2> QED BY <1>7, <2>1 DEF Zero, ZActive, ZeroOver
<1>15. History BY <1>7 DEF History
<1> QED BY <1>3, <1>4, <1>5, <1>9, <1>10, <1>11, <1>12, <1>13, <1>14, <1>15 DEF UTInv, Types

\* A stuttering step keeps it.
LEMMA InvStutters == ASSUME UTInv, UNCHANGED utVars PROVE UTInv'
<1> USE DEF UTInv, utVars, tmVars, busVars
<1>1. UNCHANGED <<state, selVars, regVars, eventVars, dmaVars, cntVars, cntLoc, setupBuf, lists, pulse, write,
                  content, ready, uZlp, bus, timeouts, control, acked>>
  BY DEF inputVars
<1>2. Types'
  <2>1. TypesReg' BY <1>1 DEF Types, TypesReg, selVars, regVars, eventVars, cntVars
  <2>2. TypesDma' BY <1>1, Zenon DEF Types, TypesDma, dmaVars
  <2>3. TypesBus' BY <1>1 DEF Types, TypesBus
  <2> QED BY <2>1, <2>2, <2>3 DEF Types
<1>3. Place' BY <1>1, SamePlace DEF selVars, regVars
<1>4. Calm' BY <1>1 DEF Calm, Active, selVars, regVars, eventVars
<1>5. Off' BY <1>1, SameOff DEF selVars, regVars, eventVars, dmaVars
<1>6. Driver' BY <1>1, SameDriver DEF regVars
<1>7. History' BY <1>1, SameHistory DEF regVars
<1>8. SetupPath'
  <2>1. UNCHANGED <<state, control, setupRec, setupSel, setupAck, setupStat, setupStatQ, setupBuf, dqhSetup, pulse,
                    memSetup, prime, write, stat, zlpMask, complete, flush, flushClear>>
    BY <1>1 DEF selVars, regVars, eventVars, dmaVars
  <2> QED BY <2>1 DEF SetupPath, NoSetup, TailOver, Trailing, Requested, Active, Cleared, SetupWay
<1>9. Zero'
  <2>1. UNCHANGED <<stat, lists, acked, zlp, zlp_q, zlpMask, zlpPush, zlpCross, uZlp, clearOff, bus>>
    BY <1>1 DEF regVars, eventVars
  <2> QED BY <2>1 DEF Zero, ZActive, Active, S, ZeroOver, ZlpSettled
<1>10. Filling' BY <1>1, SameFilling DEF dmaVars
<1>11. Transfer'
  <2>1. UNCHANGED <<state, stat, context, addr, addr_q, inLength, txFifo, content, ready, bus, cntLoc, cntValid, cntData,
                    inToken, inComplete, resend, tokenSel, zlp, zlp_q, zlpMask, clearOff, pulse, lists, acked>>
    BY <1>1 DEF selVars, regVars, eventVars, dmaVars, cntVars
  <2> QED BY <2>1, SameTransfer
<1> QED BY <1>2, <1>3, <1>4, <1>5, <1>6, <1>7, <1>8, <1>9, <1>10, <1>11

\* Every step keeps it.
LEMMA InvNext == ASSUME Settings, UTInv, UTNext PROVE UTInv'
<1>1. Facts BY Basics
<1>2. ASSUME NEW done \in BOOLEAN, Tick(done) PROVE UTInv'
  <2>1. Clock(done) /\ UNCHANGED busVars BY <1>2 DEF Tick
  <2> QED BY <1>1, <2>1, ActiveClock, RestClock
<1>3. ~OtherWrite BY DEF OtherWrite, Settings
<1> QED BY <1>1, <1>2, <1>3, DrainStep, ZlpArrivesStep, HostAsksStep, PacketSentStep, HostAcksStep, HostSilentStep,
           HostSetupStep, DriverTakesSetupStep, DriverPrimesStep, DriverTakesCompletionStep DEF UTNext

\* The invariant of the USB endpoints holds in every state: the registers of
\* the manager, the buffers, the bus and what the host has acknowledged agree
\* on the phase the transfer is in, and on how far a SETUP packet has come
\* (DMA_Transfer_Manager.vhd, Control_Registers.vhd, Transmit_Path.vhd).
THEOREM UTInvariant == ASSUME Settings PROVE UTSpec => []UTInv
<1>1. UTInit => UTInv BY InvInit
<1>2. UTInv /\ [UTNext]_utVars => UTInv' BY InvNext, InvStutters
<1> QED BY <1>1, <1>2, PTL DEF UTSpec

-----------------------------------------------------------------------------
(* The properties. *)

\* What the recursive sums give for at most two terms.
LEMMA BytesOne == ASSUME NEW l, l[1] \in Nat PROVE Bytes(l, 1) = l[1]
<1> DEFINE sum[i \in 0 .. 1] == IF i = 0 THEN 0 ELSE sum[i - 1] + l[i]
<1>1. Bytes(l, 1) = sum[1] BY DEF Bytes
<1> DEFINE F == [i \in 0 .. 1 |-> IF i = 0 THEN 0 ELSE l[1]]
<1>2. F = [i \in 0 .. 1 |-> IF i = 0 THEN 0 ELSE F[i - 1] + l[i]] OBVIOUS
<1> HIDE DEF F
<1>3. sum = [i \in 0 .. 1 |-> IF i = 0 THEN 0 ELSE sum[i - 1] + l[i]] BY <1>2
<1> HIDE DEF sum
<1>4. sum[0] = 0 /\ sum[1] = sum[0] + l[1] BY <1>3
<1> QED BY <1>1, <1>4

\* No packet is no bytes.
LEMMA ReceivedNone == ASSUME NEW p, Len(p) = 0 PROVE Received(p) = 0
<1> DEFINE sum[i \in 0 .. 0] == IF i = 0 THEN 0 ELSE sum[i - 1] + p[i][2]
<1>1. Received(p) = sum[0] BY DEF Received
<1> DEFINE F == [i \in 0 .. 0 |-> 0]
<1>2. F = [i \in 0 .. 0 |-> IF i = 0 THEN 0 ELSE F[i - 1] + p[i][2]] OBVIOUS
<1> HIDE DEF F
<1>3. sum = [i \in 0 .. 0 |-> IF i = 0 THEN 0 ELSE sum[i - 1] + p[i][2]] BY <1>2
<1> HIDE DEF sum
<1>4. sum[0] = 0 BY <1>3
<1> QED BY <1>1, <1>4

\* One packet.
LEMMA ReceivedOne == ASSUME NEW p, Len(p) = 1, p[1][2] \in Nat PROVE Received(p) = p[1][2]
<1> DEFINE sum[i \in 0 .. 1] == IF i = 0 THEN 0 ELSE sum[i - 1] + p[i][2]
<1>1. Received(p) = sum[1] BY DEF Received
<1> DEFINE F == [i \in 0 .. 1 |-> IF i = 0 THEN 0 ELSE p[1][2]]
<1>2. F = [i \in 0 .. 1 |-> IF i = 0 THEN 0 ELSE F[i - 1] + p[i][2]] OBVIOUS
<1> HIDE DEF F
<1>3. sum = [i \in 0 .. 1 |-> IF i = 0 THEN 0 ELSE sum[i - 1] + p[i][2]] BY <1>2
<1> HIDE DEF sum
<1>4. sum[0] = 0 /\ sum[1] = sum[0] + p[1][2] BY <1>3
<1> QED BY <1>1, <1>4

\* Two packets.
LEMMA ReceivedTwo ==
  ASSUME NEW p, Len(p) = 2, p[1][2] \in Nat, p[2][2] \in Nat PROVE Received(p) = p[1][2] + p[2][2]
<1> DEFINE sum[i \in 0 .. 2] == IF i = 0 THEN 0 ELSE sum[i - 1] + p[i][2]
<1>1. Received(p) = sum[2] BY DEF Received
<1> DEFINE F == [i \in 0 .. 2 |-> IF i = 0 THEN 0 ELSE IF i = 1 THEN p[1][2] ELSE p[1][2] + p[2][2]]
<1>2. F = [i \in 0 .. 2 |-> IF i = 0 THEN 0 ELSE F[i - 1] + p[i][2]] OBVIOUS
<1> HIDE DEF F
<1>3. sum = [i \in 0 .. 2 |-> IF i = 0 THEN 0 ELSE sum[i - 1] + p[i][2]] BY <1>2
<1> HIDE DEF sum
<1>4. sum[0] = 0 /\ sum[1] = sum[0] + p[1][2] /\ sum[2] = sum[1] + p[2][2] BY <1>3
<1> QED BY <1>1, <1>4

\* The only IN endpoint is X.
LEMMA OnlyX == ASSUME Facts, NEW e \in InEndpoints PROVE e = X
BY Zenon DEF Facts, InEndpoints

\* What is queued for X, and what the host has of it.
LEMMA Amounts ==
  ASSUME Facts, UTInv, lists[X] # <<>>
  PROVE  /\ S \in Nat /\ Size(X) = S /\ Bytes(lists[X], 1) = S
         /\ K \in 0 .. 2 /\ Received(acked[X]) = Gone(K) /\ Gone(K) <= S
         /\ (K = 2 => S > FifoSize)
<1> USE DEF UTInv
<1>1. X \in Endpoints /\ FifoSize \in Nat /\ FifoSize > 0 BY DEF Facts
<1>2. lists[X] \in DtdLists BY <1>1 DEF Types, TypesReg
<1>3. Len(lists[X]) = 1 /\ lists[X][1] \in Nat BY <1>2 DEF Facts
<1>4. S \in Nat BY <1>3 DEF S
<1>5. Bytes(lists[X], 1) = S BY <1>3, BytesOne DEF S
<1>6. Size(X) = S BY <1>3, <1>5 DEF Size
<1>7. acked[X] \in Seq(Nat \X Nat) BY <1>1 DEF Types, TypesBus
<1> DEFINE p == acked[X]
<1>8. K \in 0 .. 2 /\ K = Len(p)
  <2>1. K <= 2 BY DEF K, History
  <2>2. K \in Nat BY <1>7 DEF K
  <2>3. K \in 0 .. 2 BY <2>1, <2>2
  <2> QED BY <2>3 DEF K
<1>9. Least(S) \in Nat /\ Least(S) <= S BY <1>1, <1>4 DEF Least
<1>10. K >= 1 => p[1][2] = Least(S)
  <2>1. S = 0 => Least(S) = 0 BY <1>1 DEF Least
  <2> QED BY <1>8, <2>1 DEF History
<1>11. K = 2 => S > FifoSize /\ p[2][2] = S - FifoSize /\ Least(S) = FifoSize
  <2>1. S > FifoSize => Least(S) = FifoSize BY <1>1, <1>4 DEF Least
  <2> QED BY <1>8, <2>1 DEF History
<1> HIDE DEF p
<1>12. Received(p) = Gone(K) /\ Gone(K) <= S
  <2>1. CASE K = 0
    <3>1. Received(p) = 0 BY <1>8, <2>1, ReceivedNone, Zenon
    <3> QED BY <1>4, <2>1, <3>1 DEF Gone
  <2>2. CASE K = 1
    <3>1. p[1][2] = Least(S) BY <1>10, <2>2
    <3>2. Received(p) = p[1][2] BY <1>8, <1>9, <2>2, <3>1, ReceivedOne, Zenon
    <3> QED BY <1>9, <2>2, <3>1, <3>2 DEF Gone
  <2>3. CASE K = 2
    <3>1. p[1][2] = FifoSize /\ p[2][2] = S - FifoSize /\ p[2][2] \in Nat BY <1>1, <1>4, <1>10, <1>11, <2>3
    <3>2. Received(p) = p[1][2] + p[2][2] BY <1>1, <1>8, <2>3, <3>1, ReceivedTwo, Zenon
    <3> QED BY <1>1, <1>4, <2>3, <3>1, <3>2 DEF Gone
  <2> QED BY <1>8, <2>1, <2>2, <2>3
<1> QED BY <1>4, <1>5, <1>6, <1>8, <1>11, <1>12 DEF p

\* What the invariant says of the types.
LEMMA TypesOK == ASSUME Facts, UTInv PROVE UTTypeOK
<1>1. N \in Bits /\ X \in Bits /\ 0 \in Bits BY DEF Facts, Bits
<1> USE DEF UTInv, Types
<1>2. state \in States
  BY DEF TypesReg, States, SetupStates, FetchStates, FillStates, PrimeWaits, InStates
<1>3. /\ {endpt, arbEndpt} \subseteq Bits /\ {primeSel, setupSel, tokenSel} \subseteq Bits \cup {None}
      /\ \A r \in {prime, stat, complete, flush, setupStat, setupStatQ, setupRec, inToken,
                   inComplete, resend, zlp, zlpMask, zlp_q, uZlp} : r \subseteq Bits
  <2>1. {} \subseteq Bits /\ {N} \subseteq Bits /\ {X} \subseteq Bits /\ {N, X} \subseteq Bits BY <1>1
  <2>2. stat \subseteq Bits BY <2>1 DEF TypesReg
  <2>3. \A r \in {prime, complete, flush, setupStat, setupStatQ, setupRec, inToken,
                  inComplete, resend, zlp, zlpMask, zlp_q, uZlp} : r \in {{}, {N}, {X}}
    BY DEF TypesReg, TypesBus
  <2>4. {endpt, arbEndpt} \subseteq Bits BY <1>1 DEF TypesReg
  <2>5. {primeSel, setupSel, tokenSel} \subseteq Bits \cup {None} BY <1>1 DEF TypesReg
  <2> QED BY <2>1, <2>2, <2>3, <2>4, <2>5
<1>4. /\ {flushClear, setupAck, zlpPush, cntValid} \subseteq BOOLEAN /\ clearOff \in 0 .. 3
      /\ (zlpCross = None \/ zlpCross \subseteq Bits)
  BY <1>1 DEF TypesReg
<1>5. /\ \A e \in Endpoints : context[e].total \in 0 .. 2 ^ 15 - 1 /\ context[e].base \in Nat
      /\ {addr, addr_q, content} \subseteq [Numbers -> Nat]
      /\ inLength \in 0 .. FifoSize /\ cntData \in Nat
  <2> DEFINE w == 0 .. 2 ^ 15 - 1
  <2>1. context \in [Endpoints -> [total : w, base : Nat, index : Nat, last : BOOLEAN]] BY Zenon DEF TypesDma
  <2> HIDE DEF w
  <2>2. \A e \in Endpoints : context[e].total \in w /\ context[e].base \in Nat BY <2>1
  <2>3. {addr, addr_q, content} \subseteq [Numbers -> Nat] BY Zenon DEF TypesDma, TypesBus
  <2>4. inLength \in 0 .. FifoSize /\ cntData \in Nat BY Zenon DEF TypesDma, TypesReg
  <2> QED BY <2>2, <2>3, <2>4 DEF w
<1>6. /\ txFifo = None \/ (txFifo \in Packets /\ txFifo.len \in 1 .. FifoSize)
      /\ ready \in [Numbers -> (1 .. FifoSize) \cup {None}]
      /\ cntLoc \in [Numbers -> (0 .. FifoSize) \cup {None}]
      /\ {setupBuf, dqhSetup, memSetup} \subseteq Setups \cup {None}
      /\ bus = None \/ bus \in Sent
      /\ control \in {"idle", "setup", "answer", "data"}
  BY Zenon DEF TypesReg, TypesDma, TypesBus
<1>7. /\ pulse = None \/ pulse \in Pulses
      /\ write = None \/ write \in Writes
  <2>1. N \in Nat /\ X \in Nat BY DEF Facts
  <2> QED BY <2>1 DEF TypesReg, Signal, Pulses, Writes
<1> QED BY <1>2, <1>3, <1>4, <1>5, <1>6, <1>7 DEF UTTypeOK

\* What it says of the history: what was acknowledged is a prefix of the
\* buffer.
LEMMA InOrder == ASSUME Facts, UTInv PROVE AckedInOrder
<1> USE DEF UTInv
<1> SUFFICES ASSUME NEW i \in DOMAIN acked[X]
             PROVE  /\ acked[X][i][2] > 0 =>
                         acked[X][i][1] = BufferOf(X) + Received(SubSeq(acked[X], 1, i - 1))
                    /\ Received(acked[X]) <= Size(X)
  BY OnlyX DEF AckedInOrder
<1>1. X \in Endpoints /\ FifoSize \in Nat /\ FifoSize > 0 /\ BufferOf(X) \in Nat BY DEF Facts, BufferOf
<1>2. acked[X] \in Seq(Nat \X Nat) BY <1>1 DEF Types, TypesBus
<1>3. acked[X] # <<>> BY <1>2
<1>4. lists[X] # <<>> BY <1>3 DEF History
<1>5. /\ S \in Nat /\ Size(X) = S /\ K \in 0 .. 2 /\ Received(acked[X]) = Gone(K) /\ Gone(K) <= S
  BY <1>4, Amounts
<1>6. i \in 1 .. K BY <1>2 DEF K
<1>7. CASE i = 1
  <2>1. Len(SubSeq(acked[X], 1, i - 1)) = 0 BY <1>2, <1>7
  <2>2. Received(SubSeq(acked[X], 1, i - 1)) = 0 BY <2>1, ReceivedNone, Zenon
  <2>3. acked[X][1] = IF S = 0 THEN <<0, 0>> ELSE <<BufferOf(X), Least(S)>> BY <1>5, <1>6 DEF History, K
  <2>4. acked[X][1][2] > 0 => acked[X][1][1] = BufferOf(X) BY <2>3
  <2> QED BY <1>1, <1>5, <1>7, <2>2, <2>4
<1>8. CASE i = 2
  <2>1. K = 2 BY <1>5, <1>6, <1>8
  <2>2. S > FifoSize /\ acked[X][2] = <<BufferOf(X) + FifoSize, S - FifoSize>> BY <2>1 DEF History, K
  <2>3. acked[X][1] = <<BufferOf(X), Least(S)>> BY <1>1, <1>5, <2>1, <2>2 DEF History, K
  <2>4. Least(S) = FifoSize BY <1>1, <1>5, <2>2 DEF Least
  <2> DEFINE p == SubSeq(acked[X], 1, i - 1)
  <2>5. Len(p) = 1 /\ p[1] = acked[X][1] BY <1>2, <1>8, <2>1 DEF K
  <2> HIDE DEF p
  <2>6. Received(p) = FifoSize
    <3>1. p[1][2] = FifoSize BY <2>3, <2>4, <2>5
    <3> QED BY <1>1, <2>5, <3>1, ReceivedOne
  <2>7. acked[X][2][1] = BufferOf(X) + FifoSize BY <2>2
  <2> QED BY <1>5, <1>8, <2>6, <2>7 DEF p
<1> QED BY <1>5, <1>6, <1>7, <1>8

\* What it says between packets: descriptor and history add up.
LEMMA Counts == ASSUME Facts, UTInv PROVE RemainingCounted
<1> USE DEF UTInv
<1> SUFFICES ASSUME Active, AtRest(X)
             PROVE  context[X].total + Received(acked[X]) = Bytes(lists[X], context[X].index)
  BY OnlyX DEF RemainingCounted, Active
<1>1. X \in Endpoints /\ FifoSize \in Nat BY DEF Facts
<1>2. lists[X] # <<>> BY DEF Driver
<1>3. S \in Nat /\ Bytes(lists[X], 1) = S /\ K \in 0 .. 2 /\ Received(acked[X]) = Gone(K) /\ Gone(K) <= S
  BY <1>2, Amounts
<1>4. context[X].index = 1 BY DEF Transfer
<1>5. state = "IDLE" /\ pulse = None /\ inComplete # {X} /\ resend # {X} BY DEF AtRest
<1>6. pulse # Signal("complete", X)
  <2>1. Strobes BY StrobesAre DEF Types
  <2> QED BY <1>5, <2>1 DEF Strobes
<1>7. T + Gone(K) = S
  <2>1. CASE S = 0
    <3>1. T = 0 BY <2>1 DEF Transfer
    <3> QED BY <1>1, <1>3, <2>1, <3>1 DEF Gone, Least
  <2>2. CASE S > 0
    <3>1. ~Owing /\ ~Resending /\ ~Counted BY <1>5, <1>6 DEF Owing, Resending, Counted
    <3>2. T = S - Gone(K) BY <2>2, <3>1 DEF Transfer, Loaded
    <3>3. Gone(K) \in Nat BY <1>1, <1>3 DEF Gone, Least
    <3> QED BY <1>3, <3>2, <3>3
  <2> QED BY <1>3, <2>1, <2>2
<1> QED BY <1>3, <1>4, <1>7 DEF T

\* What it says of ENDPTCOMPLETE.
LEMMA Delivers == ASSUME Facts, UTInv PROVE CompleteMeansDelivered
<1> USE DEF UTInv
<1> SUFFICES ASSUME X \in complete PROVE Received(acked[X]) = Size(X)
  BY OnlyX DEF CompleteMeansDelivered
<1>1. complete = {X} BY DEF Types, TypesReg
<1>2. {X} # {} OBVIOUS
<1>3. ~Active /\ ~Requested /\ lists[X] # <<>> BY <1>1, <1>2 DEF Calm, Driver
<1>4. acked[X] # <<>> /\ (S > FifoSize => Len(acked[X]) = 2) BY <1>3 DEF History
<1>5. S \in Nat /\ Size(X) = S /\ K \in 0 .. 2 /\ Received(acked[X]) = Gone(K) BY <1>3, Amounts
<1>6. FifoSize \in Nat BY DEF Facts
<1>7. acked[X] \in Seq(Nat \X Nat)
  <2>1. X \in Endpoints BY DEF Facts
  <2> QED BY <2>1 DEF Types, TypesBus
<1>8. K # 0 BY <1>4, <1>7 DEF K
<1>9. CASE K = 1
  <2>1. S <= FifoSize BY <1>4, <1>5, <1>6, <1>9 DEF K
  <2> QED BY <1>5, <1>6, <1>9, <2>1 DEF Gone, Least
<1>10. CASE K = 2 BY <1>5, <1>10 DEF Gone
<1> QED BY <1>5, <1>8, <1>9, <1>10

\* What it says of ENDPTSTAT between packets, when at most one handshake is
\* lost.
LEMMA IsLoaded ==
  ASSUME Facts, UTInv, MaxTimeouts <= 1, Control # None PROVE StatMeansLoaded
<1> USE DEF UTInv
<1> SUFFICES ASSUME Active, AtRest(X)
             PROVE  ready[Number(X)] # None \/ txFifo # None \/ X \in zlp \cup uZlp
  BY OnlyX DEF StatMeansLoaded, Active
<1>1. Number(X) = N /\ MaxTimeouts \in Nat /\ N \in Numbers BY DEF Facts
<1>2. state = "IDLE" /\ pulse = None /\ inComplete # {X} /\ resend # {X} /\ bus = None BY DEF AtRest
<1>3. pulse # Signal("complete", X) /\ pulse # Signal("resend", X)
  <2>1. Strobes BY StrobesAre DEF Types
  <2> QED BY <1>2, <2>1 DEF Strobes
<1>4. lists[X] # <<>> BY DEF Driver
<1>5. S \in Nat BY <1>4, Amounts
<1>6. CASE S > 0
  <2>1. ~Owing /\ ~Resending /\ ~Counted BY <1>2, <1>3 DEF Owing, Resending, Counted
  <2>2. Held BY <1>6, <2>1 DEF Transfer, Loaded
  <2>3. Packet # None /\ OnBus(TRUE) # None
    <3>1. T > 0 /\ T = S - Gone(K) BY <1>6, <2>1 DEF Transfer, Loaded
    <3>2. K \in 0 .. 2 /\ Gone(K) \in Nat /\ FifoSize \in Nat /\ BufferOf(X) \in Nat
      <4>1. K \in 0 .. 2 /\ FifoSize \in Nat /\ BufferOf(X) \in Nat BY <1>4, Amounts DEF Facts, BufferOf
      <4> QED BY <1>5, <4>1 DEF Gone, Least
    <3>3. BufferOf(X) + S - T \in Nat /\ Least(T) \in Nat BY <1>5, <3>1, <3>2 DEF Least
    <3>4. N \in Nat /\ None \notin Packets /\ None \notin Sent BY DEF Facts
    <3>5. Packet \in Packets BY <3>3, <3>4 DEF Packet, Packets
    <3>6. OnBus(TRUE) \in Sent
      <4>1. Packet.from \in Nat /\ Packet.len \in Nat BY <3>3 DEF Packet
      <4> QED BY <3>4, <4>1 DEF OnBus, Sent
    <3> QED BY <3>4, <3>5, <3>6, Zenon
  <2>4. Packet.len # None
    <3>1. None \notin Int /\ FifoSize \in Nat BY DEF Facts
    <3>2. T \in Int
      <4>1. X \in Endpoints BY DEF Facts
      <4>2. 0 .. 2 ^ 15 - 1 \subseteq Int OBVIOUS
      <4> DEFINE w == 0 .. 2 ^ 15 - 1
      <4>3. context \in [Endpoints -> [total : w, base : Nat, index : Nat, last : BOOLEAN]] BY Zenon DEF Types, TypesDma
      <4>4. w \subseteq Int BY <4>2
      <4> HIDE DEF w
      <4>5. T \in w BY <4>1, <4>3 DEF T
      <4> QED BY <4>4, <4>5
    <3> QED BY <3>1, <3>2 DEF Packet, Least
  <2>5. ~(Unloaded /\ (pulse = Signal("resend", X) \/ resend = {X} \/ MaxTimeouts > 1))
    BY <1>1, <1>2, <1>3
  <2> QED BY <1>1, <1>2, <2>2, <2>3, <2>4, <2>5, Zenon DEF Held
<1>7. CASE S = 0
  <2>1. ~Blocked /\ ~Answered BY <1>2, <1>3 DEF Blocked, Answered
  <2>2. zlp = {X} BY <1>7, <2>1 DEF Transfer, Fresh
  <2> QED BY <2>2
<1> QED BY <1>5, <1>6, <1>7

\* What it says of ENDPTSETUPSTAT.
LEMMA Copied == ASSUME Facts, UTInv PROVE SetupStatMeansCopied
<1> USE DEF UTInv
<1> SUFFICES ASSUME setupStat # {} PROVE memSetup = setupBuf BY DEF SetupStatMeansCopied
<1>1. control \in {"idle", "setup", "answer", "data"} /\ setupStat = {N} BY DEF Types, TypesReg, TypesBus
<1>2. control # "idle" /\ control # "data" BY DEF SetupPath
<1>3. CASE control = "setup" BY <1>3 DEF SetupPath, SetupWay
<1>4. CASE control = "answer" BY <1>1, <1>4 DEF SetupPath
<1> QED BY <1>1, <1>2, <1>3, <1>4

\* Only the end of a transfer, or a flush, takes a bit of ENDPTSTAT.
LEMMA StepKeepsStat ==
  ASSUME NEW next, NEW out, Step(next, out), out.statClear = {}
  PROVE  stat \subseteq stat' \cup flush
BY DEF Step, StatusRegisters

\* Every state but IN_TRANSACTION_COMPLETE leaves ENDPTSTAT to the flush.
LEMMA ClockKeepsStat ==
  ASSUME NEW done, Clock(done), ~InTransactionComplete(done) PROVE stat \subseteq stat' \cup flush
<1> USE StepKeepsStat DEF Drive, Wait
<1>1. CASE Idle(done) BY <1>1 DEF Idle, Quiet
<1>2. CASE SetupLockout(done) \/ SetupBytes(done) \/ SetupWait1(done) \/ SetupS2MM(done)
  BY <1>2, Zenon DEF SetupLockout, SetupBytes, SetupWait1, SetupS2MM, Quiet
<1>3. CASE SetupUpdateReceived(done) \/ SetupWait2(done) BY <1>3 DEF SetupUpdateReceived, SetupWait2, Quiet
<1>4. CASE PrimeDqh(done) \/ PrimeWait0(done) \/ PrimeWait1(done) \/ PrimeWait2(done)
  BY <1>4 DEF PrimeDqh, PrimeWait0, PrimeWait1, PrimeWait2, Quiet
<1>5. CASE PrimeDtd(done) BY <1>5, Zenon DEF PrimeDtd, Primed, Quiet
<1>6. CASE PrimeFillFifo(done) BY <1>6, Zenon DEF PrimeFillFifo, Primed, Quiet
<1>7. CASE PrimeFillFifo1(done) \/ PrimeFillFifo2(done) BY <1>7, Zenon DEF PrimeFillFifo1, PrimeFillFifo2, Primed, Quiet
<1>8. CASE StartIn(done) BY <1>8, Zenon DEF StartIn, Quiet
<1>9. CASE InHandshake(done) \/ InWait0(done) \/ InCheckComplete(done)
  BY <1>9 DEF InHandshake, InWait0, InCheckComplete, Quiet
<1>10. CASE InTransfer(done) \/ InReloadBuffer(done) \/ InWait1(done)
  BY <1>10 DEF InTransfer, InReloadBuffer, InWait1, Quiet
<1>11. CASE InFetchNextDtd(done) \/ InWait2(done) BY <1>11 DEF InFetchNextDtd, InWait2, Quiet
<1> QED BY <1>1, <1>2, <1>3, <1>4, <1>5, <1>6, <1>7, <1>8, <1>9, <1>10, <1>11 DEF Clock

\* A step that ends a transfer sets its bit of ENDPTCOMPLETE.
LEMMA StepReports ==
  ASSUME Facts, UTInv, [UTNext]_utVars
  PROVE  \A e \in InEndpoints : e \in stat \ (stat' \cup flush) => e \in complete'
<1> SUFFICES ASSUME Active, X \notin stat', X \notin flush PROVE X \in complete'
  BY OnlyX DEF Active
<1>1. stat' # stat BY DEF Active
<1>2. PICK done \in BOOLEAN : Clock(done)
  BY <1>1 DEF UTNext, Tick, Drain, ZlpArrives, HostAsks, PacketSent, HostAcks, HostSilent, HostSetup, DriverTakesSetup,
              DriverPrimes, DriverTakesCompletion, OtherWrite, quietForDriver, regVars, utVars, tmVars
<1>3. InTransactionComplete(done) BY <1>2, ClockKeepsStat DEF Active
<1>4. endpt = X /\ write = None /\ context[X].last BY DEF UTInv, Calm, Transfer
<1>5. CASE ~done BY <1>3, <1>5, StepKeepsStat DEF InTransactionComplete, Wait, Drive, Quiet, Active
<1>6. CASE done
  <2> DEFINE out == [Quiet EXCEPT !.completeSet = {endpt}, !.statClear = {endpt}]
  <2>1. Step("IDLE", out) BY <1>3, <1>4, <1>6 DEF InTransactionComplete, Drive
  <2>2. out.completeSet = {X} /\ out.command = FALSE /\ out.primeClear = {} /\ out.primeSet = {}
    BY <1>4 DEF Quiet
  <2> HIDE DEF out
  <2> QED BY <1>4, <2>1, <2>2 DEF Step, EndpointRegisters
<1> QED BY <1>2, <1>5, <1>6

\* The variables of the USB endpoints have their types.
THEOREM UTTypesHeld == ASSUME Settings PROVE UTSpec => []UTTypeOK
<1>1. UTInv => UTTypeOK BY Basics, TypesOK
<1> QED BY <1>1, UTInvariant, PTL

\* The host never gets a byte twice, out of place or from elsewhere: what it
\* has acknowledged is a prefix of the buffer the driver queued, whatever
\* handshakes are lost (DMA_Transfer_Manager.vhd, the IN framework).
THEOREM UTOrderHeld == ASSUME Settings PROVE UTSpec => []AckedInOrder
<1>1. UTInv => AckedInOrder BY Basics, InOrder
<1> QED BY <1>1, UTInvariant, PTL

\* Between packets the count in the dTD and the bytes acknowledged add up to
\* what was queued: each packet is counted once, with the length it was sent
\* with (DMA_Transfer_Manager.vhd, IN_HANDSHAKE).
THEOREM UTRemainingHeld == ASSUME Settings PROVE UTSpec => []RemainingCounted
<1>1. UTInv => RemainingCounted BY Basics, Counts
<1> QED BY <1>1, UTInvariant, PTL

\* ENDPTCOMPLETE is set for an IN endpoint only when the host has the whole
\* transfer (DMA_Transfer_Manager.vhd, IN_TRANSACTION_COMPLETE).
THEOREM UTDeliveredHeld == ASSUME Settings PROVE UTSpec => []CompleteMeansDelivered
<1>1. UTInv => CompleteMeansDelivered BY Basics, Delivers
<1> QED BY <1>1, UTInvariant, PTL

\* An IN endpoint leaves ENDPTSTAT by a flush or into ENDPTCOMPLETE: the end of
\* a transfer is not lost between the two registers (Control_Registers.vhd,
\* top.vhd).
THEOREM UTReportedHeld == ASSUME Settings PROVE UTSpec => CompletionReported
<1>1. UTInv /\ [UTNext]_utVars => [\A e \in InEndpoints : e \in stat \ (stat' \cup flush) => e \in complete']_utVars
  BY Basics, StepReports
<1> QED BY <1>1, UTInvariant, PTL DEF UTSpec, CompletionReported

\* On a control endpoint that loses at most one handshake, ENDPTSTAT shows
\* between packets only an endpoint that can answer the next token
\* (Transmit_Path.vhd, packet_decoder.vhd).
THEOREM UTLoadedHeld ==
  ASSUME Settings, Control # None, MaxTimeouts <= 1 PROVE UTSpec => []StatMeansLoaded
<1>1. UTInv => StatMeansLoaded BY Basics, IsLoaded
<1> QED BY <1>1, UTInvariant, PTL

\* ENDPTSETUPSTAT is set only when memory holds the bytes of the SETUP packet
\* the host sent last (DMA_Transfer_Manager.vhd, the SETUP framework).
THEOREM UTCopiedHeld == ASSUME Settings PROVE UTSpec => []SetupStatMeansCopied
<1>1. UTInv => SetupStatMeansCopied BY Basics, Copied
<1> QED BY <1>1, UTInvariant, PTL
=============================================================================
