----------------------------- MODULE DhcpClient -----------------------------
(***************************************************************************)
(* The DHCP client of the network stack (DEIPcK/utility/DHCP.c), with the  *)
(* part of the ARP cache it asks whether an address is in use              *)
(* (LinkLayer.c) and the receive queue of its UDP socket (UDP.c).  One     *)
(* action is the pass DHCPStateMachine makes in one of its states.         *)
(*                                                                         *)
(* The servers are external: they follow the messages the client sends.    *)
(* Times are in seconds; they pass in steps of MinRenewTime, and only      *)
(* while nothing is on its way.  A retry timer runs out at any time.       *)
(***************************************************************************)
EXTENDS Integers, Sequences, FiniteSets, FiniteSetsExt, SequencesExt

CONSTANTS
    Servers,
    Addrs,          \* addresses the servers offer
    NoAddr,         \* IPv4NONE, and the server nobody is
    Gateway,        \* the server that is the gateway too, if one is
    Taken,          \* addresses another host uses, and answers for
    InitRetryTime,  \* dhcpInitRetryTime
    MaxRetryTime,   \* dhcpMaxRetryTime
    MaxTries,       \* MAXDISCOVETRIES
    MinRenewTime,   \* DHCPMINRENEWTIME
    LeaseTime,      \* the lease of every ACK; its renewal times are the default ones
    QueueSize,      \* datagrams the UDP socket has memory for
    SendOutcomes,   \* outcomes of DHCPSend: {TRUE} or {TRUE, FALSE}
    MaxStops,       \* times the application stops the client
    MaxLosses,      \* messages to a server that are lost
    MaxRefusals,    \* requests that a server refuses
    MaxDuplicates,  \* messages a server answers twice
    MaxTimeouts     \* retry timers that run out while an answer is on its way

ASSUME DhcpAssumption ==
    /\ IsFiniteSet(Servers) /\ IsFiniteSet(Addrs) /\ Taken \subseteq Addrs
    /\ NoAddr \notin Addrs \cup Servers /\ Gateway \subseteq Servers
    /\ {InitRetryTime, MaxRetryTime, MaxTries, MinRenewTime, LeaseTime, QueueSize} \subseteq Nat \ {0}
    /\ SendOutcomes \in (SUBSET BOOLEAN) \ {{}}
    /\ {MaxStops, MaxLosses, MaxRefusals, MaxDuplicates, MaxTimeouts} \subseteq Nat

VARIABLES
    st,      \* dhcpState
    mem,     \* the rest of DHCPMEM: timers, retries, the request it builds
    ipMy,    \* the address of the adaptor
    age,     \* seconds since tsStart
    queue,   \* datagrams in the UDP socket
    arp,     \* state of the ARP entry of each address; a new one is expired
    inbox,   \* messages on their way to each server
    srv,     \* what each server has granted
    budget   \* what is left of the Max constants

client == <<st, mem, ipMy, age, queue, arp>>
vars == <<st, mem, ipMy, age, queue, arp, inbox, srv, budget>>

Connected == {"BOUND", "RENEW"}     \* dhcpSTARTConnected and above
DhcpStates == Connected \cup {"DISABLED", "StartDISCOVER", "RetryDISCOVER", "DISCOVER",
                              "OFFER", "REQUEST", "ACK", "ARPWait", "ACCEPT", "DECLINE"}

\* tries and tsReBind share their memory (a union of DHCPMEM).
Cleared == [tries |-> 0, tsLease |-> 0, tsRenew |-> 0, req |-> NoAddr, server |-> NoAddr,
            ciaddr |-> NoAddr]

Init ==
    /\ st = "DISABLED" /\ mem = Cleared /\ ipMy = NoAddr /\ age = 0
    /\ queue = <<>> /\ arp = [a \in Addrs |-> "Expired"]
    /\ inbox = [s \in Servers |-> <<>>]
    /\ srv = [s \in Servers |-> [granted |-> NoAddr, age |-> 0, nak |-> FALSE, declined |-> {}]]
    /\ budget = [stops |-> MaxStops, losses |-> MaxLosses, refusals |-> MaxRefusals,
                 duplicates |-> MaxDuplicates, timeouts |-> MaxTimeouts]

Spend(what, cond) ==
    IF cond THEN /\ budget[what] > 0 /\ budget' = [budget EXCEPT ![what] = @ - 1]
            ELSE UNCHANGED budget

StaleKept(q) == q   \* mutated: the transaction keeps its number

\* A new transaction number makes whatever is on its way somebody else's.
Stale(q) == [i \in DOMAIN q |-> [q[i] EXCEPT !.mine = FALSE]]

\* DHCPSend: every server gets a broadcast; a unicast goes to the gateway.
Message(type, a, s) == [type |-> type, addr |-> a, server |-> s, mine |-> TRUE]
Send(m, to) == inbox' = [s \in Servers |-> IF s \in to THEN Append(inbox[s], m) ELSE inbox[s]]

\* A retry timer is early while an answer is on its way.
Early == (\E s \in Servers : inbox[s] # <<>>) \/ (st = "OFFER" /\ Len(queue) > 1)

-----------------------------------------------------------------------------
(* The client.                                                             *)

\* DHCPInit starts with cleared memory, a fresh socket and no address.
DHCPInit ==
    /\ st = "DISABLED"
    /\ st' = "StartDISCOVER" /\ mem' = Cleared /\ ipMy' = NoAddr /\ queue' = <<>>
    /\ UNCHANGED <<age, arp, inbox, srv, budget>>

\* The application ends the client, or the client gave up: the socket closes.
DHCPTerminate ==
    /\ st = "DISABLED" => queue # <<>>
    /\ Spend("stops", st # "DISABLED")
    /\ st' = "DISABLED" /\ queue' = <<>>
    /\ UNCHANGED <<mem, ipMy, age, arp, inbox, srv>>

Discover ==
    LET tries == IF st = "RetryDISCOVER" THEN mem.tries + 1 ELSE mem.tries
        lease == IF st = "DISCOVER" THEN mem.tsLease ELSE InitRetryTime
        go    == tries < MaxTries
    IN /\ st \in {"StartDISCOVER", "RetryDISCOVER", "DISCOVER"}
       /\ \E ok \in SendOutcomes :
            /\ st' = IF go /\ ok THEN "OFFER" ELSE "DISABLED"
            /\ age' = IF go /\ ok THEN 0 ELSE age
            /\ IF go THEN /\ mem' = [Cleared EXCEPT !.tries = tries, !.tsLease = lease,
                                                    !.tsRenew = mem.tsRenew]
                          /\ queue' = Stale(queue)
                          /\ inbox' = [s \in Servers |->
                                Stale(inbox[s]) \o
                                (IF ok THEN <<Message("DISCOVER", NoAddr, NoAddr)>> ELSE <<>>)]
                     ELSE /\ mem' = [mem EXCEPT !.tries = tries, !.tsLease = lease]
                          /\ UNCHANGED <<queue, inbox>>
       /\ UNCHANGED <<ipMy, arp, srv, budget>>

\* Each pass reads one datagram; an offer becomes the request to send, and
\* without one the DISCOVER is sent again when its time is over.
Offer ==
    LET found == queue # <<>> /\ Head(queue).mine /\ Head(queue).type = "OFFER"
    IN /\ st = "OFFER"
       /\ \/ /\ found
             /\ st' = "REQUEST"
             /\ mem' = [mem EXCEPT !.req = Head(queue).addr, !.server = Head(queue).server,
                                   !.tsLease = InitRetryTime]
             /\ age' = 0 /\ UNCHANGED budget
          \/ ~found /\ queue # <<>> /\ UNCHANGED <<st, mem, age, budget>>
          \/ /\ ~found /\ UNCHANGED age
             /\ Spend("timeouts", Early)
             /\ mem' = [mem EXCEPT !.tsLease = @ * 2]
             /\ st' = IF mem'.tsLease > MaxRetryTime THEN "DISABLED" ELSE "DISCOVER"
       /\ queue' = IF queue # <<>> THEN Tail(queue) ELSE queue
       /\ UNCHANGED <<ipMy, arp, inbox, srv>>

Request ==
    /\ st = "REQUEST"
    /\ \E ok \in SendOutcomes :
        /\ st' = IF ok THEN "ACK" ELSE "DISABLED"
        /\ age' = IF ok THEN 0 ELSE age
        /\ IF ok THEN Send(Message("REQUEST", mem.req, mem.server), Servers) ELSE UNCHANGED inbox
    /\ UNCHANGED <<mem, ipMy, queue, arp, srv, budget>>

\* The datagram is for the client: it carries the number of the transaction
\* and the address asked for.
Mine(a) == queue # <<>> /\ Head(queue).mine /\ Head(queue).addr = a

\* The answer is only looked at: it stays in the queue.
Ack ==
    /\ st = "ACK"
    /\ \/ /\ Mine(mem.req) /\ Head(queue).type = "ACK"
          /\ st' = "ARPWait" /\ mem' = [mem EXCEPT !.ciaddr = mem.req] /\ age' = 0
          /\ UNCHANGED budget
       \/ /\ Mine(mem.req) /\ Head(queue).type = "NAK"
          /\ st' = "RetryDISCOVER" /\ UNCHANGED <<mem, age, budget>>
       \/ /\ ~(Mine(mem.req) /\ Head(queue).type \in {"ACK", "NAK"})
          /\ Spend("timeouts", Early)
          /\ mem' = [mem EXCEPT !.tsLease = @ * 2]
          /\ st' = IF mem'.tsLease > MaxRetryTime THEN "RetryDISCOVER" ELSE "REQUEST"
          /\ UNCHANGED age
    /\ UNCHANGED <<ipMy, queue, arp, inbox, srv>>

\* LLARPLookup knows the adaptor's own address and the valid entries; it asks
\* for any other one, which fails when nobody answers.
ArpWait ==
    LET a == mem.ciaddr
        inUse == a = ipMy \/ arp[a] = "Valid"
    IN /\ st = "ARPWait"
       /\ \/ inUse /\ st' = "DECLINE" /\ mem' = [mem EXCEPT !.ciaddr = NoAddr] /\ UNCHANGED arp
          \/ ~inUse /\ arp[a] = "Failed" /\ st' = "ACCEPT"
             /\ mem' = [mem EXCEPT !.ciaddr = NoAddr] /\ UNCHANGED arp
          \/ ~inUse /\ arp[a] = "Expired"
             /\ arp' = [arp EXCEPT ![a] = "Pending"] /\ UNCHANGED <<st, mem>>
       /\ UNCHANGED <<ipMy, age, queue, inbox, srv, budget>>

\* DHCPSetUpParameters: the times of the lease, and the default renewal times.
DHCPSetUpParameters(a) ==
    /\ ipMy' = a
    /\ mem' = [mem EXCEPT !.tsLease = LeaseTime, !.tsRenew = LeaseTime \div 2,
                          !.tries = LeaseTime - LeaseTime \div 8]

Accept ==
    /\ st = "ACCEPT" /\ queue # <<>>
    /\ queue' = Tail(queue)
    /\ IF Mine(mem.req) /\ Head(queue).type = "ACK"
       THEN st' = "BOUND" /\ DHCPSetUpParameters(Head(queue).addr)
       ELSE /\ st' = IF Mine(mem.req) /\ Head(queue).type = "NAK" THEN "RetryDISCOVER" ELSE st
            /\ UNCHANGED <<mem, ipMy>>
    /\ UNCHANGED <<age, arp, inbox, srv, budget>>

Decline ==
    /\ st = "DECLINE" /\ st' = "RetryDISCOVER"
    /\ \E ok \in SendOutcomes :
        IF ok THEN Send(Message("DECLINE", mem.req, mem.server), Servers) ELSE UNCHANGED inbox
    /\ UNCHANGED <<mem, ipMy, age, queue, arp, srv, budget>>

\* Time to renew: ask the server, from tsReBind on every server, and try again
\* half way to the next limit.  A lease that is over is asked for as well.
tsReBind == mem.tries
Bound ==
    LET over   == age >= mem.tsLease
        rebind == age >= tsReBind
        limit  == IF rebind THEN mem.tsLease ELSE tsReBind
        next   == Min({limit, mem.tsRenew + Max({(limit - mem.tsRenew) \div 2, MinRenewTime})})
    IN /\ st = "BOUND" /\ age >= mem.tsRenew
       /\ \E ok \in SendOutcomes :
            /\ st' = IF ok THEN "RENEW" ELSE IF over THEN "DISCOVER" ELSE st
            /\ mem' = [mem EXCEPT !.ciaddr = ipMy, !.tsRenew = IF over THEN @ ELSE next]
            /\ IF ok THEN Send(Message("REQUEST", ipMy, NoAddr),
                               IF rebind /\ ~over THEN Servers ELSE Gateway)
                     ELSE UNCHANGED inbox
       /\ UNCHANGED <<ipMy, age, queue, arp, srv, budget>>

Renew ==
    /\ st = "RENEW" /\ queue # <<>>
    /\ queue' = Tail(queue)
    /\ \/ ~Mine(mem.ciaddr) /\ UNCHANGED <<st, mem, ipMy, age>>
       \/ /\ Mine(mem.ciaddr) /\ Head(queue).type = "NAK"
          /\ st' = "StartDISCOVER" /\ mem' = [mem EXCEPT !.tries = 0]
          /\ UNCHANGED <<ipMy, age>>
       \/ /\ Mine(mem.ciaddr) /\ Head(queue).type # "NAK"
          /\ st' = "BOUND"
          /\ IF Head(queue).type = "ACK" THEN age' = 0 /\ DHCPSetUpParameters(Head(queue).addr)
             ELSE UNCHANGED <<mem, ipMy, age>>
    /\ UNCHANGED <<arp, inbox, srv, budget>>

RenewTimeoutNever == FALSE   \* mutated: waits for an answer for ever

\* Without an answer the client asks again when it is time to; once the lease
\* is over, at once.
RenewTimeout ==
    /\ st = "RENEW" /\ queue = <<>> /\ age >= mem.tsRenew
    /\ Spend("timeouts", Early)
    /\ st' = "BOUND"
    /\ UNCHANGED <<mem, ipMy, age, queue, arp, inbox, srv>>

-----------------------------------------------------------------------------
(* The ARP cache.                                                          *)

\* LLArpServiceTimers: a request nobody answers fails; an entry expires, long
\* after the pass that comes to look at it.
LLArpServiceTimers(a) ==
    /\ arp[a] \in {"Pending", "Failed", "Valid"}
    /\ ~(st = "ARPWait" /\ mem.ciaddr = a /\ arp[a] # "Pending")
    /\ arp' = [arp EXCEPT ![a] = IF @ = "Pending" THEN "Failed" ELSE "Expired"]
    /\ UNCHANGED <<st, mem, ipMy, age, queue, inbox, srv, budget>>

\* LLPeriodicTasks lets nothing but UDP pass before the client is connected.
Admits == st \in Connected

\* An answer or an announcement of a host that uses the address arrives.
ARPProcess(a) ==
    /\ a \in Taken /\ Admits /\ arp[a] # "Valid"
    /\ arp' = [arp EXCEPT ![a] = "Valid"]
    /\ UNCHANGED <<st, mem, ipMy, age, queue, inbox, srv, budget>>

-----------------------------------------------------------------------------
(* The servers, and time.                                                  *)

Reply(m, type, a, s) == <<[type |-> type, addr |-> a, server |-> s, mine |-> m.mine]>>

\* What server s answers to m, and what it has granted then.
Answers(s, m) ==
    LET me     == srv[s]
        asked  == /\ m.type = "REQUEST"
                  /\ m.server = s \/ (m.server = NoAddr /\ m.addr = me.granted)
        grant  == [me EXCEPT !.granted = m.addr, !.age = 0, !.nak = FALSE]
        refuse == [me EXCEPT !.nak = TRUE]
    IN CASE m.type = "DISCOVER" /\ me.declined # Addrs ->
              {[out |-> Reply(m, "OFFER", a, s), srv |-> me, nak |-> FALSE] :
                    a \in Addrs \ me.declined}
         [] asked -> {[out |-> Reply(m, "ACK", m.addr, s), srv |-> grant, nak |-> FALSE]} \cup
                     {[out |-> Reply(m, "NAK", a, s), srv |-> refuse, nak |-> TRUE] :
                            a \in {m.addr, NoAddr}}
         [] m.type = "DECLINE" /\ m.server = s ->
              {[out |-> <<>>, nak |-> FALSE,
                srv |-> [me EXCEPT !.granted = NoAddr, !.declined = @ \cup {m.addr}]]}
         [] OTHER -> {[out |-> <<>>, srv |-> me, nak |-> FALSE]}

EnqueueAll(q, out) == q \o out   \* mutated: does not look at the memory left
EnqueueFirst(q, out) ==           \* mutated: the last datagram is the first read
    IF st # "DISABLED" /\ Len(q) < QueueSize THEN out \o q ELSE q

\* UDPProcess queues a datagram if its socket is open and there is memory.
Enqueue(q, out) == IF st # "DISABLED" /\ Len(q) < QueueSize THEN q \o out ELSE q

\* A server answers a message, and may answer it once more.
Serve(s) ==
    /\ inbox[s] # <<>>
    /\ \E r \in Answers(s, Head(inbox[s])), keep \in BOOLEAN :
        /\ r.nak => budget.refusals > 0
        /\ keep => budget.duplicates > 0
        /\ budget' = [budget EXCEPT !.refusals = IF r.nak THEN @ - 1 ELSE @,
                                    !.duplicates = IF keep THEN @ - 1 ELSE @]
        /\ srv' = [srv EXCEPT ![s] = r.srv]
        /\ inbox' = IF keep THEN inbox ELSE [inbox EXCEPT ![s] = Tail(@)]
        /\ queue' = Enqueue(queue, r.out)
    /\ UNCHANGED <<st, mem, ipMy, age, arp>>

Lose(s) ==
    /\ inbox[s] # <<>>
    /\ Spend("losses", TRUE)
    /\ inbox' = [inbox EXCEPT ![s] = Tail(@)]
    /\ UNCHANGED <<client, srv>>

\* Time passes only when client and servers have nothing left to do.
Tick ==
    /\ st \in Connected /\ age < mem.tsRenew
    /\ st = "RENEW" => queue = <<>>
    /\ \A s \in Servers : inbox[s] = <<>>
    /\ age' = age + MinRenewTime
    /\ srv' = [s \in Servers |-> [srv[s] EXCEPT !.age = Min({@ + MinRenewTime, LeaseTime + MinRenewTime})]]
    /\ UNCHANGED <<st, mem, ipMy, queue, arp, inbox, budget>>

DHCPStateMachine ==
    \/ Discover \/ Offer \/ Request \/ Ack \/ ArpWait \/ Accept \/ Decline \/ Bound
    \/ Renew \/ RenewTimeout

Next ==
    \/ DHCPInit \/ DHCPTerminate \/ DHCPStateMachine \/ Tick
    \/ \E a \in Addrs : LLArpServiceTimers(a) \/ ARPProcess(a)
    \/ \E s \in Servers : Serve(s) \/ Lose(s)

Spec == Init /\ [][Next]_vars

\* The main loop calls DHCPPeriodicTasks and LLPeriodicTasks for ever, the
\* servers answer, and the application starts the client.
Fairness == /\ WF_vars(DHCPInit) /\ WF_vars(DHCPStateMachine) /\ WF_vars(Tick)
            /\ \A a \in Addrs : WF_vars(LLArpServiceTimers(a))
            /\ \A s \in Servers : WF_vars(Serve(s))

FairSpec == Spec /\ Fairness

-----------------------------------------------------------------------------
(* What should hold.                                                       *)

Datagrams(types) == [type : types, addr : Addrs \cup {NoAddr}, server : Servers \cup {NoAddr},
                     mine : BOOLEAN]

\* Type correctness.
DhcpTypeOK ==
    /\ st \in DhcpStates /\ ipMy \in Addrs \cup {NoAddr} /\ age \in Nat
    /\ mem \in [tries : Nat, tsLease : Nat, tsRenew : Nat, req : Addrs \cup {NoAddr},
                server : Servers \cup {NoAddr}, ciaddr : Addrs \cup {NoAddr}]
    /\ queue \in Seq(Datagrams({"OFFER", "ACK", "NAK"})) /\ Len(queue) <= QueueSize
    /\ arp \in [Addrs -> {"Pending", "Valid", "Expired", "Failed"}]
    /\ inbox \in [Servers -> Seq(Datagrams({"DISCOVER", "REQUEST", "DECLINE"}))]
    /\ srv \in [Servers -> [granted : Addrs \cup {NoAddr}, age : Nat, nak : BOOLEAN,
                            declined : SUBSET Addrs]]

\* The acknowledgement the client has looked at is still the next datagram of
\* the queue when the client comes to take it, whatever arrived meanwhile.
AckStaysQueued == st \in {"ARPWait", "ACCEPT"} => Mine(mem.req) /\ Head(queue).type = "ACK"

\* The server's lease does not start before the client's: while the client
\* has an address, the server has granted it that one no longer ago than the
\* client thinks, or has refused it since.  This is so as long as no request
\* is answered twice, or repeated while its answer is on its way: a second
\* answer stays in the queue and passes for the answer to the next renewal.
AnsweredOnce == budget.duplicates = MaxDuplicates /\ budget.timeouts = MaxTimeouts
LeaseNotOverstated ==
    AnsweredOnce /\ st \in Connected =>
        \E s \in Servers : srv[s].nak \/ (srv[s].granted = ipMy /\ srv[s].age <= age)

\* When the lease is over the client starts over, to get another address
\* (the comment of DHCP.c:796).  It does not: the state it has set is set once
\* more, and the address is used on until a server refuses it.
LeaseEnds == [][st = "BOUND" /\ age >= mem.tsLease => st' # "RENEW"]_vars

\* The client gets an address, and gets one again whatever becomes of it.
Acquires == []<>(st = "BOUND")

\* An address that another host uses is not taken into use.
BoundIsFree == st \in Connected => ipMy \notin Taken
=============================================================================
