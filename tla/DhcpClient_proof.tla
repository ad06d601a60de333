------------------------- MODULE DhcpClient_proof -------------------------
(***************************************************************************)
(* Type correctness of the DHCP client and its surroundings, and that the  *)
(* acknowledgement the client has looked at is the one it takes two states *)
(* later, whatever arrives meanwhile: for any servers, addresses and       *)
(* times, any size of the queue and any number of faults and duplicates.   *)
(* With one server, that the client never takes its lease for younger than *)
(* the server does.                                                        *)
(***************************************************************************)
EXTENDS DhcpClient, TLAPS

\* An offer names an address, and so does what is declined.
Naming(types, t) == {d \in Datagrams(types) : d.type = t => d.addr \in Addrs}
Incoming == Naming({"OFFER", "ACK", "NAK"}, "OFFER")
Outgoing == Naming({"DISCOVER", "REQUEST", "DECLINE"}, "DECLINE")
Grants   == [granted : Addrs \cup {NoAddr}, age : Nat,
             nak : BOOLEAN, declined : SUBSET Addrs]
Memory   == [tries : Nat, tsLease : Nat, tsRenew : Nat, req : Addrs \cup {NoAddr},
             server : Servers \cup {NoAddr}, ciaddr : Addrs \cup {NoAddr}]

\* From the offer it has taken until it has an address, the client asks for one.
Asking == st \in {"REQUEST", "ACK", "ARPWait", "ACCEPT", "DECLINE"} => mem.req \in Addrs

ClientTypes ==
    /\ st \in DhcpStates /\ ipMy \in Addrs \cup {NoAddr} /\ age \in Nat /\ mem \in Memory
    /\ queue \in Seq(Incoming) /\ Len(queue) <= QueueSize
    /\ arp \in [Addrs -> {"Pending", "Valid", "Expired", "Failed"}]
    /\ Asking

ServerTypes == inbox \in [Servers -> Seq(Outgoing)] /\ srv \in [Servers -> Grants]

\* What a reachable state satisfies: the strengthening that is inductive.
IInv == ClientTypes /\ ServerTypes /\ AckStaysQueued
-----------------------------------------------------------------------------
\* The smaller and the larger of two numbers.
LEMMA MinMax ==
  ASSUME NEW a \in Int, NEW b \in Int
  PROVE  /\ Min({a, b}) \in {a, b}
         /\ Max({a, b}) \in {a, b} /\ Max({a, b}) >= b
<1>1. \E x \in {a, b} : \A y \in {a, b} : x <= y
  OBVIOUS
<1>2. \E x \in {a, b} : \A y \in {a, b} : x >= y
  OBVIOUS
<1> QED BY <1>1, <1>2 DEF Min, Max

\* Marking what is on its way as stale keeps its type.
LEMMA StaleType ==
  ASSUME NEW types, NEW t, NEW q \in Seq(Naming(types, t))
  PROVE  Stale(q) \in Seq(Naming(types, t)) /\ Len(Stale(q)) = Len(q)
<1>1. ASSUME NEW i \in 1 .. Len(q)
      PROVE  [q[i] EXCEPT !.mine = FALSE] \in Naming(types, t)
  <2>1. q[i] \in Naming(types, t)
    OBVIOUS
  <2> QED BY <2>1 DEF Naming, Datagrams
<1>2. Stale(q) = [i \in 1 .. Len(q) |-> [q[i] EXCEPT !.mine = FALSE]]
  BY DEF Stale
<1> QED BY <1>1, <1>2

LEMMA MessageType ==
  ASSUME NEW t \in {"DISCOVER", "REQUEST", "DECLINE"}, NEW a \in Addrs \cup {NoAddr},
         NEW s \in Servers \cup {NoAddr}, t = "DECLINE" => a \in Addrs
  PROVE  Message(t, a, s) \in Outgoing
BY DEF Message, Outgoing, Naming, Datagrams

\* Sending adds a message to some inboxes.
LEMMA SendType ==
  ASSUME inbox \in [Servers -> Seq(Outgoing)], NEW m \in Outgoing, NEW to, Send(m, to)
  PROVE  inbox' \in [Servers -> Seq(Outgoing)]
<1>1. \A s \in Servers : Append(inbox[s], m) \in Seq(Outgoing)
  OBVIOUS
<1> QED BY <1>1 DEF Send

\* A server answers with at most one datagram.
LEMMA AnswersType ==
  ASSUME NEW s \in Servers, srv[s] \in Grants, NEW m \in Outgoing, NEW r \in Answers(s, m)
  PROVE  r.srv \in Grants /\ r.out \in Seq(Incoming) /\ Len(r.out) <= 1
<1>1. ASSUME NEW t \in {"OFFER", "ACK", "NAK"}, NEW a \in Addrs \cup {NoAddr},
             t = "OFFER" => a \in Addrs
      PROVE  Reply(m, t, a, s) \in Seq(Incoming) /\ Len(Reply(m, t, a, s)) <= 1
  <2>1. [type |-> t, addr |-> a, server |-> s, mine |-> m.mine] \in Incoming
    BY <1>1 DEF Incoming, Outgoing, Naming, Datagrams
  <2> QED BY <2>1 DEF Reply
<1>2. <<>> \in Seq(Incoming) /\ Len(<<>>) = 0
  OBVIOUS
<1>3. m.addr \in Addrs \cup {NoAddr} /\ (m.type = "DECLINE" => m.addr \in Addrs)
  BY DEF Outgoing, Naming, Datagrams
<1>4. /\ [srv[s] EXCEPT !.granted = m.addr, !.age = 0, !.nak = FALSE] \in Grants
      /\ [srv[s] EXCEPT !.nak = TRUE] \in Grants
  BY <1>3 DEF Grants
<1>5. CASE m.type = "DISCOVER" /\ srv[s].declined # Addrs
  <2>1. PICK a \in Addrs :
          r = [out |-> Reply(m, "OFFER", a, s), srv |-> srv[s], nak |-> FALSE]
    BY <1>5 DEF Answers
  <2> QED BY <2>1, <1>1
<1>6. CASE /\ m.type = "REQUEST"
           /\ m.server = s \/ (m.server = NoAddr /\ m.addr = srv[s].granted)
  <2>0. m.type # "DISCOVER"
    BY <1>6
  <2>1. \/ r = [out |-> Reply(m, "ACK", m.addr, s),
                srv |-> [srv[s] EXCEPT !.granted = m.addr, !.age = 0, !.nak = FALSE],
                nak |-> FALSE]
        \/ \E a \in {m.addr, NoAddr} :
             r = [out |-> Reply(m, "NAK", a, s), srv |-> [srv[s] EXCEPT !.nak = TRUE],
                  nak |-> TRUE]
    BY <2>0, <1>6 DEF Answers
  <2>2. CASE \E a \in {m.addr, NoAddr} :
               r = [out |-> Reply(m, "NAK", a, s), srv |-> [srv[s] EXCEPT !.nak = TRUE],
                    nak |-> TRUE]
    BY <2>2, <1>1, <1>3, <1>4
  <2> QED BY <2>1, <2>2, <1>1, <1>3, <1>4
<1>7. CASE m.type = "DECLINE" /\ m.server = s
  <2>1. r = [out |-> <<>>, nak |-> FALSE,
             srv |-> [srv[s] EXCEPT !.granted = NoAddr, !.declined = @ \cup {m.addr}]]
    BY <1>7 DEF Answers
  <2>2. [srv[s] EXCEPT !.granted = NoAddr, !.declined = @ \cup {m.addr}] \in Grants
    BY <1>3, <1>7 DEF Grants
  <2> QED BY <2>1, <2>2, <1>2
<1>8. CASE /\ ~(m.type = "DISCOVER" /\ srv[s].declined # Addrs)
           /\ ~(/\ m.type = "REQUEST"
                /\ m.server = s \/ (m.server = NoAddr /\ m.addr = srv[s].granted))
           /\ ~(m.type = "DECLINE" /\ m.server = s)
  <2>1. r = [out |-> <<>>, srv |-> srv[s], nak |-> FALSE]
    BY <1>8 DEF Answers
  <2> QED BY <2>1, <1>2
<1> QED BY <1>5, <1>6, <1>7, <1>8

LEMMA InvInit == Init => IInv
<1> SUFFICES ASSUME Init PROVE IInv
  OBVIOUS
<1>1. Cleared \in Memory
  BY DEF Cleared, Memory
<1>2. QueueSize \in Nat /\ queue = <<>>
  BY DhcpAssumption DEF Init
<1>3. ClientTypes
  BY <1>1, <1>2 DEF Init, ClientTypes, DhcpStates, Connected, Asking
<1>4. ServerTypes
  BY DEF Init, ServerTypes, Grants
<1> QED BY <1>3, <1>4 DEF Init, IInv, AckStaysQueued
-----------------------------------------------------------------------------
(* The client's actions. *)

\* Taking a datagram from the queue.
LEMMA TakeType ==
  ASSUME ClientTypes, queue # <<>>
  PROVE  /\ Head(queue) \in Incoming /\ Tail(queue) \in Seq(Incoming)
         /\ Len(Tail(queue)) <= QueueSize
         /\ Head(queue).addr \in Addrs \cup {NoAddr}
         /\ Head(queue).server \in Servers \cup {NoAddr}
         /\ Head(queue).type = "OFFER" => Head(queue).addr \in Addrs
<1>1. queue \in Seq(Incoming) /\ Len(queue) \in Nat /\ Len(queue) <= QueueSize
      /\ QueueSize \in Nat
  BY DhcpAssumption DEF ClientTypes
<1>2. Head(queue) \in Incoming /\ Tail(queue) \in Seq(Incoming)
      /\ Len(Tail(queue)) = Len(queue) - 1
  BY <1>1
<1> QED BY <1>1, <1>2 DEF Incoming, Naming, Datagrams

LEMMA DiscoverStep == ASSUME IInv, Discover PROVE IInv'
<1> DEFINE tries == IF st = "RetryDISCOVER" THEN mem.tries + 1 ELSE mem.tries
           lease == IF st = "DISCOVER" THEN mem.tsLease ELSE InitRetryTime
<1>1. /\ st' \in {"OFFER", "DISABLED"} /\ UNCHANGED <<ipMy, arp, srv>> /\ age' \in {0, age}
      /\ queue' \in {queue, Stale(queue)}
      /\ mem' \in {[mem EXCEPT !.tries = tries, !.tsLease = lease],
                   [Cleared EXCEPT !.tries = tries, !.tsLease = lease,
                              !.tsRenew = mem.tsRenew]}
  BY DEF Discover
<1>2. \/ inbox' = inbox
      \/ inbox' = [s \in Servers |->
                  Stale(inbox[s]) \o <<Message("DISCOVER", NoAddr, NoAddr)>>]
      \/ inbox' = [s \in Servers |-> Stale(inbox[s]) \o <<>>]
  BY DEF Discover
<1>3. tries \in Nat /\ lease \in Nat /\ mem.tsRenew \in Nat
  BY DhcpAssumption DEF IInv, ClientTypes, Memory
<1>4. mem' \in Memory
  BY <1>1, <1>3 DEF IInv, ClientTypes, Memory, Cleared
<1>5. queue' \in Seq(Incoming) /\ Len(queue') <= QueueSize
  BY <1>1, StaleType DEF IInv, ClientTypes, Incoming
<1>6. \A s \in Servers :
        /\ inbox[s] \in Seq(Outgoing) /\ Stale(inbox[s]) \in Seq(Outgoing)
        /\ Stale(inbox[s]) \o <<Message("DISCOVER", NoAddr, NoAddr)>> \in Seq(Outgoing)
        /\ Stale(inbox[s]) \o <<>> \in Seq(Outgoing)
  <2>1. ASSUME NEW s \in Servers PROVE Stale(inbox[s]) \in Seq(Outgoing)
    BY StaleType DEF IInv, ServerTypes, Outgoing
  <2>2. <<Message("DISCOVER", NoAddr, NoAddr)>> \in Seq(Outgoing) /\ <<>> \in Seq(Outgoing)
    BY MessageType
  <2> QED BY <2>1, <2>2 DEF IInv, ServerTypes
<1>7. ServerTypes'
  BY <1>1, <1>2, <1>6 DEF IInv, ServerTypes
<1>8. ClientTypes'
  BY <1>1, <1>4, <1>5 DEF IInv, ClientTypes, Asking, DhcpStates
<1> QED BY <1>1, <1>7, <1>8 DEF IInv, AckStaysQueued

LEMMA OfferStep == ASSUME IInv, Offer PROVE IInv'
<1> DEFINE found == queue # <<>> /\ Head(queue).mine /\ Head(queue).type = "OFFER"
<1>1. /\ UNCHANGED <<ipMy, arp, inbox, srv>> /\ age' \in {0, age}
      /\ queue' = IF queue # <<>> THEN Tail(queue) ELSE queue
      /\ \/ /\ found /\ st' = "REQUEST"
            /\ mem' = [mem EXCEPT !.req = Head(queue).addr, !.server = Head(queue).server,
                                  !.tsLease = InitRetryTime]
         \/ st' = "OFFER" /\ mem' = mem
         \/ st' \in {"DISABLED", "DISCOVER"} /\ mem' = [mem EXCEPT !.tsLease = @ * 2]
  BY DEF Offer
<1>2. queue' \in Seq(Incoming) /\ Len(queue') <= QueueSize
  BY <1>1, TakeType DEF IInv, ClientTypes
<1>3. CASE /\ found /\ st' = "REQUEST"
           /\ mem' = [mem EXCEPT !.req = Head(queue).addr, !.server = Head(queue).server,
                                 !.tsLease = InitRetryTime]
  <2>1. Head(queue).addr \in Addrs /\ Head(queue).server \in Servers \cup {NoAddr}
    BY <1>3, TakeType DEF IInv
  <2>2. InitRetryTime \in Nat /\ mem \in Memory
    BY DhcpAssumption DEF IInv, ClientTypes
  <2>3. mem' \in Memory /\ mem'.req \in Addrs
    BY <1>3, <2>1, <2>2 DEF Memory
  <2> QED BY <1>1, <1>2, <1>3, <2>3
          DEF IInv, ClientTypes, ServerTypes, Asking, DhcpStates, AckStaysQueued
<1>4. CASE st' = "OFFER" /\ mem' = mem
  BY <1>1, <1>2, <1>4
     DEF IInv, ClientTypes, ServerTypes, Asking, DhcpStates, AckStaysQueued
<1>5. CASE st' \in {"DISABLED", "DISCOVER"} /\ mem' = [mem EXCEPT !.tsLease = @ * 2]
  <2>1. mem' \in Memory
    BY <1>5 DEF IInv, ClientTypes, Memory
  <2> QED BY <1>1, <1>2, <1>5, <2>1
          DEF IInv, ClientTypes, ServerTypes, Asking, DhcpStates, AckStaysQueued
<1> QED BY <1>1, <1>3, <1>4, <1>5

\* The states between the request and the address: the queue is not touched
\* until ACCEPT, and ARPWait is entered only past an acknowledgement.
LEMMA RequestStep ==
  ASSUME IInv, Request \/ Decline
  PROVE  IInv'
<1>1. UNCHANGED <<mem, ipMy, queue, arp, srv>> /\ age' \in {0, age} /\ mem.req \in Addrs
  BY DEF Request, Decline, IInv, ClientTypes, Asking
<1>2. st' \in {"ACK", "DISABLED", "RetryDISCOVER"}
  BY DEF Request, Decline
<1>3. mem.server \in Servers \cup {NoAddr}
  BY DEF IInv, ClientTypes, Memory
<1>4. \/ inbox' = inbox
      \/ \E t \in {"REQUEST", "DECLINE"} : Send(Message(t, mem.req, mem.server), Servers)
  BY DEF Request, Decline
<1>5. inbox' \in [Servers -> Seq(Outgoing)]
  BY <1>1, <1>3, <1>4, MessageType, SendType DEF IInv, ServerTypes
<1> QED BY <1>1, <1>2, <1>5
        DEF IInv, ClientTypes, ServerTypes, Asking, DhcpStates, AckStaysQueued

LEMMA AckStep == ASSUME IInv, Ack PROVE IInv'
<1>1. /\ UNCHANGED <<ipMy, queue, arp, inbox, srv>> /\ mem.req \in Addrs /\ mem \in Memory
  BY DEF Ack, IInv, ClientTypes, Asking
<1>2. CASE /\ Mine(mem.req) /\ Head(queue).type = "ACK"
           /\ st' = "ARPWait" /\ mem' = [mem EXCEPT !.ciaddr = mem.req] /\ age' = 0
  <2>1. mem' \in Memory /\ mem'.req = mem.req
    BY <1>1, <1>2 DEF Memory
  <2> QED BY <1>1, <1>2, <2>1
          DEF IInv, ClientTypes, ServerTypes, Asking, DhcpStates, AckStaysQueued, Mine
<1>3. CASE st' = "RetryDISCOVER" /\ UNCHANGED <<mem, age>>
  BY <1>1, <1>3 DEF IInv, ClientTypes, ServerTypes, Asking, DhcpStates, AckStaysQueued
<1>4. CASE /\ mem' = [mem EXCEPT !.tsLease = @ * 2] /\ UNCHANGED age
           /\ st' \in {"RetryDISCOVER", "REQUEST"}
  <2>1. mem' \in Memory /\ mem'.req = mem.req
    BY <1>1, <1>4 DEF Memory
  <2> QED BY <1>1, <1>4, <2>1
          DEF IInv, ClientTypes, ServerTypes, Asking, DhcpStates, AckStaysQueued
<1> QED BY <1>2, <1>3, <1>4 DEF Ack

LEMMA ArpWaitStep == ASSUME IInv, ArpWait PROVE IInv'
<1>1. /\ UNCHANGED <<ipMy, age, queue, inbox, srv>> /\ st = "ARPWait"
      /\ \/ /\ st' \in {"DECLINE", "ACCEPT"} /\ mem' = [mem EXCEPT !.ciaddr = NoAddr]
            /\ arp' = arp
         \/ arp' = [arp EXCEPT ![mem.ciaddr] = "Pending"] /\ UNCHANGED <<st, mem>>
  BY DEF ArpWait
<1>2. mem' \in Memory /\ mem'.req = mem.req /\ st' \in {"DECLINE", "ACCEPT", "ARPWait"}
  BY <1>1 DEF IInv, ClientTypes, Memory
<1>3. arp' \in [Addrs -> {"Pending", "Valid", "Expired", "Failed"}]
  BY <1>1 DEF IInv, ClientTypes
<1> QED BY <1>1, <1>2, <1>3
        DEF IInv, ClientTypes, ServerTypes, Asking, DhcpStates, AckStaysQueued, Mine

\* The times of a lease.
LEMMA SetUpType ==
  ASSUME mem \in Memory, NEW a \in Addrs \cup {NoAddr}, DHCPSetUpParameters(a)
  PROVE  mem' \in Memory /\ ipMy' \in Addrs \cup {NoAddr}
<1>1. LeaseTime \in Nat /\ LeaseTime \div 2 \in Nat /\ LeaseTime - LeaseTime \div 8 \in Nat
  BY DhcpAssumption
<1> QED BY <1>1 DEF DHCPSetUpParameters, Memory

LEMMA AcceptStep == ASSUME IInv, Accept PROVE IInv'
<1>1. /\ UNCHANGED <<age, arp, inbox, srv>> /\ queue' = Tail(queue) /\ queue # <<>>
      /\ Mine(mem.req) /\ Head(queue).type = "ACK"
      /\ st' = "BOUND" /\ DHCPSetUpParameters(Head(queue).addr)
  BY DEF Accept, IInv, AckStaysQueued
<1>2. queue' \in Seq(Incoming) /\ Len(queue') <= QueueSize
  BY <1>1, TakeType DEF IInv
<1>3. mem' \in Memory /\ ipMy' \in Addrs \cup {NoAddr}
  BY <1>1, TakeType, SetUpType DEF IInv, ClientTypes
<1> QED BY <1>1, <1>2, <1>3
        DEF IInv, ClientTypes, ServerTypes, Asking, DhcpStates, Connected, AckStaysQueued

LEMMA BoundStep == ASSUME IInv, Bound PROVE IInv'
<1> DEFINE over == age >= mem.tsLease
           rebind == age >= tsReBind
           limit == IF rebind THEN mem.tsLease ELSE tsReBind
           half == Max({(limit - mem.tsRenew) \div 2, MinRenewTime})
           next == Min({limit, mem.tsRenew + half})
<1>1. /\ UNCHANGED <<ipMy, age, queue, arp, srv>>
      /\ st' \in {"RENEW", "DISCOVER", "BOUND"}
      /\ mem' = [mem EXCEPT !.ciaddr = ipMy, !.tsRenew = IF over THEN @ ELSE next]
      /\ \/ inbox' = inbox
         \/ \E to \in {Servers, Gateway} : Send(Message("REQUEST", ipMy, NoAddr), to)
  BY DEF Bound
<1>2. next \in Nat
  <2>1. limit \in Nat /\ mem.tsRenew \in Nat /\ MinRenewTime \in Nat
    BY DhcpAssumption DEF IInv, ClientTypes, Memory, tsReBind
  <2>2. (limit - mem.tsRenew) \div 2 \in Int
    BY <2>1
  <2> DEFINE quotient == (limit - mem.tsRenew) \div 2
             far == mem.tsRenew + half
  <2> HIDE DEF quotient, limit
  <2>3. half \in Int /\ half >= MinRenewTime
    <3>1. MinRenewTime \in Int /\ quotient \in Int
      BY <2>1, <2>2 DEF quotient
    <3>2. Max({quotient, MinRenewTime}) \in {quotient, MinRenewTime}
          /\ Max({quotient, MinRenewTime}) >= MinRenewTime
      BY <3>1, MinMax, Zenon
    <3> QED BY <3>1, <3>2 DEF quotient
  <2>4. far \in Nat
    BY <2>1, <2>3
  <2>5. Min({limit, far}) \in {limit, far}
    <3> HIDE DEF far, half
    <3> limit \in Int /\ far \in Int
      BY <2>1, <2>4
    <3> QED BY MinMax, Zenon
  <2> QED BY <2>1, <2>4, <2>5, Zenon
<1>3. mem' \in Memory
  BY <1>1, <1>2 DEF IInv, ClientTypes, Memory
<1>4. inbox' \in [Servers -> Seq(Outgoing)]
  <2>1. Message("REQUEST", ipMy, NoAddr) \in Outgoing
    BY MessageType DEF IInv, ClientTypes
  <2> QED BY <1>1, <2>1, SendType DEF IInv, ServerTypes
<1> QED BY <1>1, <1>3, <1>4
        DEF IInv, ClientTypes, ServerTypes, Asking, DhcpStates, Connected, AckStaysQueued

LEMMA RenewStep == ASSUME IInv, Renew \/ RenewTimeout PROVE IInv'
<1>1. CASE RenewTimeout
  BY <1>1 DEF RenewTimeout, IInv, ClientTypes, ServerTypes, Asking, DhcpStates, Connected,
              AckStaysQueued
<1>2. CASE Renew
  <2>1. /\ UNCHANGED <<arp, inbox, srv>> /\ queue' = Tail(queue) /\ queue # <<>>
        /\ st = "RENEW" /\ st' \in {"RENEW", "StartDISCOVER", "BOUND"}
        /\ \/ UNCHANGED <<mem, ipMy, age>>
           \/ mem' = [mem EXCEPT !.tries = 0] /\ UNCHANGED <<ipMy, age>>
           \/ age' = 0 /\ DHCPSetUpParameters(Head(queue).addr)
    BY <1>2 DEF Renew
  <2>2. queue' \in Seq(Incoming) /\ Len(queue') <= QueueSize
    BY <2>1, TakeType DEF IInv
  <2>3. mem' \in Memory /\ ipMy' \in Addrs \cup {NoAddr} /\ age' \in Nat
    <3>1. CASE UNCHANGED <<mem, ipMy, age>>
      BY <3>1 DEF IInv, ClientTypes
    <3>2. CASE mem' = [mem EXCEPT !.tries = 0] /\ UNCHANGED <<ipMy, age>>
      BY <3>2 DEF IInv, ClientTypes, Memory
    <3>3. CASE age' = 0 /\ DHCPSetUpParameters(Head(queue).addr)
      BY <2>1, <3>3, TakeType, SetUpType DEF IInv, ClientTypes
    <3> QED BY <2>1, <3>1, <3>2, <3>3
  <2> QED BY <2>1, <2>2, <2>3
          DEF IInv, ClientTypes, ServerTypes, Asking, DhcpStates, Connected, AckStaysQueued
<1> QED BY <1>1, <1>2

\* The application's calls.
LEMMA StartStep == ASSUME IInv, DHCPInit \/ DHCPTerminate PROVE IInv'
<1>1. /\ UNCHANGED <<age, arp, inbox, srv>> /\ queue' = <<>>
      /\ st' \in {"StartDISCOVER", "DISABLED"}
      /\ mem' \in {mem, Cleared} /\ ipMy' \in {ipMy, NoAddr}
  BY DEF DHCPInit, DHCPTerminate
<1>2. mem' \in Memory
  BY <1>1 DEF IInv, ClientTypes, Memory, Cleared
<1>3. queue' \in Seq(Incoming) /\ Len(queue') <= QueueSize
  BY <1>1, DhcpAssumption
<1> QED BY <1>1, <1>2, <1>3
        DEF IInv, ClientTypes, ServerTypes, Asking, DhcpStates, AckStaysQueued
-----------------------------------------------------------------------------
(* The ARP cache, the servers and time. *)

LEMMA ArpStep ==
  ASSUME IInv, NEW a \in Addrs, LLArpServiceTimers(a) \/ ARPProcess(a)
  PROVE  IInv'
<1>1. /\ UNCHANGED <<st, mem, ipMy, age, queue, inbox, srv>>
      /\ \E x \in {"Failed", "Expired", "Valid"} : arp' = [arp EXCEPT ![a] = x]
  BY DEF LLArpServiceTimers, ARPProcess
<1> QED BY <1>1 DEF IInv, ClientTypes, ServerTypes, Asking, AckStaysQueued, Mine

\* What arrives goes behind what is there.
LEMMA EnqueueType ==
  ASSUME IInv, NEW out \in Seq(Incoming), Len(out) <= 1
  PROVE  /\ Enqueue(queue, out) \in Seq(Incoming) /\ Len(Enqueue(queue, out)) <= QueueSize
         /\ queue # <<>> => /\ Enqueue(queue, out) # <<>>
                            /\ Head(Enqueue(queue, out)) = Head(queue)
<1>1. queue \in Seq(Incoming) /\ Len(queue) \in Nat /\ Len(queue) <= QueueSize
      /\ QueueSize \in Nat /\ Len(out) \in Nat
  BY DhcpAssumption DEF IInv, ClientTypes
<1>2. queue \o out \in Seq(Incoming) /\ Len(queue \o out) = Len(queue) + Len(out)
  BY <1>1
<1>3. queue # <<>> => queue \o out # <<>> /\ Head(queue \o out) = Head(queue)
  BY <1>1, <1>2
<1> QED BY <1>1, <1>2, <1>3 DEF Enqueue

LEMMA ServeStep == ASSUME IInv, NEW s \in Servers, Serve(s) PROVE IInv'
<1>1. PICK r \in Answers(s, Head(inbox[s])) :
        /\ inbox[s] # <<>> /\ UNCHANGED <<st, mem, ipMy, age, arp>>
        /\ srv' = [srv EXCEPT ![s] = r.srv]
        /\ inbox' \in {inbox, [inbox EXCEPT ![s] = Tail(@)]}
        /\ queue' = Enqueue(queue, r.out)
  BY DEF Serve
<1>2. inbox[s] \in Seq(Outgoing) /\ Head(inbox[s]) \in Outgoing
      /\ Tail(inbox[s]) \in Seq(Outgoing)
  BY <1>1 DEF IInv, ServerTypes
<1>3. r.srv \in Grants /\ r.out \in Seq(Incoming) /\ Len(r.out) <= 1
  BY <1>2, AnswersType DEF IInv, ServerTypes
<1>4. ServerTypes'
  BY <1>1, <1>2, <1>3 DEF IInv, ServerTypes
<1>5. /\ queue' \in Seq(Incoming) /\ Len(queue') <= QueueSize
      /\ queue # <<>> => queue' # <<>> /\ Head(queue') = Head(queue)
  BY <1>1, <1>3, EnqueueType
<1> QED BY <1>1, <1>4, <1>5 DEF IInv, ClientTypes, Asking, AckStaysQueued, Mine

LEMMA LoseStep == ASSUME IInv, NEW s \in Servers, Lose(s) PROVE IInv'
<1>1. /\ inbox[s] # <<>> /\ inbox' = [inbox EXCEPT ![s] = Tail(@)]
      /\ UNCHANGED <<st, mem, ipMy, age, queue, arp, srv>>
  BY DEF Lose, client
<1>2. Tail(inbox[s]) \in Seq(Outgoing)
  BY <1>1 DEF IInv, ServerTypes
<1> QED BY <1>1, <1>2 DEF IInv, ClientTypes, ServerTypes, Asking, AckStaysQueued, Mine

LEMMA TickStep == ASSUME IInv, Tick PROVE IInv'
<1>1. /\ UNCHANGED <<st, mem, ipMy, queue, arp, inbox>> /\ st \in Connected
      /\ age' = age + MinRenewTime
      /\ srv' = [s \in Servers |->
                   [srv[s] EXCEPT !.age = Min({@ + MinRenewTime, LeaseTime + MinRenewTime})]]
  BY DEF Tick
<1>2. MinRenewTime \in Nat /\ LeaseTime \in Nat
  BY DhcpAssumption
<1>3. ASSUME NEW s \in Servers
      PROVE  [srv[s] EXCEPT !.age = Min({@ + MinRenewTime, LeaseTime + MinRenewTime})] \in Grants
  <2>1. srv[s] \in Grants /\ srv[s].age \in Nat
    BY DEF IInv, ServerTypes, Grants
  <2>2. srv[s].age + MinRenewTime \in Nat /\ LeaseTime + MinRenewTime \in Nat
    BY <1>2, <2>1
  <2>3. Min({srv[s].age + MinRenewTime, LeaseTime + MinRenewTime}) \in Nat
    <3> DEFINE x == srv[s].age + MinRenewTime
               y == LeaseTime + MinRenewTime
    <3>1. x \in Nat /\ y \in Nat /\ x \in Int /\ y \in Int
      BY <2>2
    <3> HIDE DEF x, y
    <3>2. Min({x, y}) \in {x, y}
      BY <3>1, MinMax, Zenon
    <3>3. Min({x, y}) \in Nat
      BY <3>1, <3>2
    <3> QED BY <3>3 DEF x, y
  <2> QED BY <2>1, <2>3 DEF Grants
<1>4. srv' \in [Servers -> Grants]
  BY <1>1, <1>3
<1>5. ServerTypes'
  BY <1>1, <1>4 DEF IInv, ServerTypes
<1>6. ClientTypes'
  BY <1>1, <1>2 DEF IInv, ClientTypes, Asking
<1> QED BY <1>1, <1>5, <1>6 DEF IInv, AckStaysQueued, Mine
-----------------------------------------------------------------------------
\* Every step of the client, the cache, the servers and time keeps the invariant.
LEMMA InvStep == IInv /\ [Next]_vars => IInv'
<1> SUFFICES ASSUME IInv, [Next]_vars PROVE IInv'
  OBVIOUS
<1>1. CASE DHCPInit \/ DHCPTerminate
  BY <1>1, StartStep
<1>2. CASE DHCPStateMachine
  BY <1>2, DiscoverStep, OfferStep, RequestStep, AckStep, ArpWaitStep, AcceptStep,
     BoundStep,
     RenewStep DEF DHCPStateMachine
<1>3. CASE Tick
  BY <1>3, TickStep
<1>4. CASE \E a \in Addrs : LLArpServiceTimers(a) \/ ARPProcess(a)
  BY <1>4, ArpStep
<1>5. CASE \E s \in Servers : Serve(s) \/ Lose(s)
  BY <1>5, ServeStep, LoseStep
<1>6. CASE UNCHANGED vars
  BY <1>6 DEF vars, IInv, ClientTypes, ServerTypes, Asking, AckStaysQueued, Mine
<1> QED BY <1>1, <1>2, <1>3, <1>4, <1>5, <1>6 DEF Next

\* Every variable of the client, of the cache and of the servers keeps its
\* type, and the receive queue its size, for any servers and addresses.
THEOREM Types == Spec => []DhcpTypeOK
<1>1. ASSUME IInv PROVE DhcpTypeOK
  <2> DEFINE In  == Datagrams({"OFFER", "ACK", "NAK"})
             Out == Datagrams({"DISCOVER", "REQUEST", "DECLINE"})
  <2>1. Incoming \subseteq In /\ Outgoing \subseteq Out
    BY DEF Incoming, Outgoing, Naming
  <2> HIDE DEF In, Out
  <2>2. Seq(Incoming) \subseteq Seq(In) /\ Seq(Outgoing) \subseteq Seq(Out)
    BY <2>1
  <2>3. queue \in Seq(In) /\ inbox \in [Servers -> Seq(Out)]
    BY <1>1, <2>2 DEF IInv, ClientTypes, ServerTypes
  <2> QED BY <1>1, <2>3
         DEF IInv, ClientTypes, ServerTypes, DhcpTypeOK, Memory, Grants, In, Out
<1> QED BY <1>1, InvInit, InvStep, PTL DEF Spec

\* The acknowledgement DHCPStateMachine looks at in its state ACK is still the
\* next datagram of the socket when it reads it in ACCEPT.
THEOREM AckStays == Spec => []AckStaysQueued
<1>1. IInv => AckStaysQueued
  BY DEF IInv
<1> QED BY <1>1, InvInit, InvStep, PTL DEF Spec
-----------------------------------------------------------------------------
(* The lease, with one server.                                             *)

Budgets == budget \in [stops : Nat, losses : Nat, refusals : Nat, duplicates : 0 .. MaxDuplicates,
                       timeouts : 0 .. MaxTimeouts]

\* The next datagram of the queue is not the acknowledgement waited for.  ACK
\* does not take it, so this attempt will fail.
Undecided == queue # <<>> /\ ~(Mine(mem.req) /\ Head(queue).type = "ACK")

Silent(s)    == queue = <<>> /\ inbox[s] = <<>>
Asked(a, s)  == /\ queue = <<>>
                /\ Len(inbox[s]) = 1 /\ inbox[s][1].type = "REQUEST"
                /\ inbox[s][1].addr = a /\ inbox[s][1].mine
Acked(a, s)  == /\ Len(queue) = 1 /\ queue[1].type = "ACK" /\ queue[1].addr = a
                /\ queue[1].mine /\ inbox[s] = <<>>
                /\ srv[s].granted = a /\ srv[s].age = 0
Refused(s)   == Len(queue) = 1 /\ queue[1].type = "NAK" /\ inbox[s] = <<>> /\ srv[s].nak
Offering(s)  ==
  /\ \A i \in DOMAIN queue : queue[i].mine => queue[i].type = "OFFER" /\ inbox[s] = <<>>
  /\ \A i \in DOMAIN inbox[s] :
       inbox[s][i].mine => inbox[s][i].type = "DISCOVER" /\ i = Len(inbox[s])
Leased(s)    == srv[s].granted = ipMy /\ (srv[s].nak \/ srv[s].age <= age)

\* In every state of the client, at most one message of its transaction is
\* on its way, and it is the answer that state waits for or what leads to it.
Exchange(s) ==
  /\ st = "OFFER" => Offering(s)
  /\ st = "REQUEST" => Undecided \/ Silent(s)
  /\ st = "ACK" => Undecided \/ Silent(s) \/ Asked(mem.req, s) \/ Acked(mem.req, s)
  /\ st \in {"ARPWait", "ACCEPT"} => Acked(mem.req, s) /\ age = 0
  /\ st = "BOUND" => Silent(s) /\ Leased(s)
  /\ st = "RENEW" => /\ mem.ciaddr = ipMy /\ Leased(s)
                     /\ \/ Silent(s) \/ Acked(ipMy, s) \/ Refused(s)
                        \/ Asked(ipMy, s) /\ inbox[s][1].server = NoAddr

\* Inductive for one server, on top of IInv.
LeaseInv(s) == Budgets /\ (AnsweredOnce => Exchange(s))

\* What is spent is not given back, so that AnsweredOnce has held before.
LEMMA SpendStep ==
  ASSUME Budgets, NEW what \in {"stops", "losses", "timeouts"}, NEW cond \in BOOLEAN,
         Spend(what, cond)
  PROVE  /\ Budgets'
         /\ AnsweredOnce' => AnsweredOnce /\ (what = "timeouts" => ~cond)
<1>1. MaxTimeouts \in Nat /\ MaxDuplicates \in Nat
  BY DhcpAssumption
<1>2. CASE cond
  BY <1>1, <1>2 DEF Spend, Budgets, AnsweredOnce
<1>3. CASE ~cond
  BY <1>3 DEF Spend, Budgets, AnsweredOnce
<1> QED BY <1>2, <1>3

\* A pass that spends nothing.
LEMMA SameBudget ==
  ASSUME Budgets, UNCHANGED budget
  PROVE  Budgets' /\ (AnsweredOnce' => AnsweredOnce)
BY DEF Budgets, AnsweredOnce

LEMMA LeaseInit ==
  ASSUME Init, NEW s \in Servers
  PROVE  LeaseInv(s)
<1>1. {MaxStops, MaxLosses, MaxRefusals, MaxDuplicates, MaxTimeouts} \subseteq Nat
  BY DhcpAssumption
<1>2. Budgets
  BY <1>1 DEF Init, Budgets
<1>3. Exchange(s)
  BY DEF Init, Exchange
<1> QED BY <1>2, <1>3 DEF LeaseInv

\* What is left behind the first of a sequence.
LEMMA OneLeft ==
  ASSUME NEW S, NEW q \in Seq(S), Len(q) = 1
  PROVE  Tail(q) = <<>> /\ Head(q) = q[1] /\ q # <<>>
<1> DEFINE rest == Tail(q)
<1>1. q # <<>> /\ Head(q) = q[1]
  OBVIOUS
<1>2. rest \in Seq(S) /\ Len(rest) = 0
  BY <1>1
<1> HIDE DEF rest
<1>3. rest = <<>>
  BY <1>2
<1> QED BY <1>1, <1>3 DEF rest

LEMMA RestOf ==
  ASSUME NEW S, NEW q \in Seq(S), q # <<>>, NEW i \in DOMAIN Tail(q)
  PROVE  /\ Len(q) \in Nat /\ Len(Tail(q)) = Len(q) - 1 /\ i \in Nat
         /\ i + 1 \in DOMAIN q /\ Tail(q)[i] = q[i + 1]
OBVIOUS

\* A fresh transaction: what was on its way is somebody else's now.
LEMMA DiscoverLease ==
  ASSUME IInv, NEW s \in Servers, LeaseInv(s), Discover
  PROVE  LeaseInv(s)'
<1>1. UNCHANGED budget /\ st' \in {"OFFER", "DISABLED"}
  BY DEF Discover
<1>2. CASE st' = "OFFER"
  <2>1. queue' = Stale(queue)
        /\ inbox'[s] = Stale(inbox[s]) \o <<Message("DISCOVER", NoAddr, NoAddr)>>
    BY <1>2 DEF Discover
  <2>2. queue \in Seq(Incoming) /\ inbox[s] \in Seq(Outgoing)
    BY DEF IInv, ClientTypes, ServerTypes
  <2>3. DOMAIN queue' = DOMAIN queue /\ \A i \in DOMAIN queue : ~queue'[i].mine
    BY <2>1, <2>2 DEF Stale, Incoming, Naming, Datagrams
  <2> DEFINE old == Stale(inbox[s])
             m == Message("DISCOVER", NoAddr, NoAddr)
  <2>4. old \in Seq(Outgoing) /\ \A i \in DOMAIN old : ~old[i].mine
    <3>1. old \in Seq(Outgoing)
      BY <2>2, StaleType DEF Outgoing
    <3>2. \A i \in DOMAIN old : ~old[i].mine
      BY <2>2 DEF Stale, Outgoing, Naming, Datagrams
    <3> QED BY <3>1, <3>2
  <2>5. m.type = "DISCOVER" /\ m \in Outgoing
    BY MessageType DEF Message
  <2>6. \A i \in DOMAIN inbox'[s] :
          inbox'[s][i].mine => inbox'[s][i].type = "DISCOVER" /\ i = Len(inbox'[s])
    <3> HIDE DEF old, m
    <3>1. inbox'[s] = old \o <<m>>
      BY <2>1 DEF old, m
    <3>2. old \o <<m>> = Append(old, m) /\ Len(old) \in Nat
      BY <2>4, <2>5
    <3>4. Len(Append(old, m)) = Len(old) + 1
          /\ DOMAIN Append(old, m) = 1 .. Len(old) + 1 /\ DOMAIN old = 1 .. Len(old)
      BY <2>4, <2>5
    <3>3. ASSUME NEW i \in DOMAIN Append(old, m)
          PROVE  \/ i \in DOMAIN old /\ Append(old, m)[i] = old[i]
                 \/ i = Len(old) + 1 /\ Append(old, m)[i] = m
      <4>1. CASE i \in DOMAIN old
        BY <2>4, <2>5, <4>1
      <4>2. CASE i = Len(old) + 1
        BY <2>4, <2>5, <4>2
      <4> QED BY <3>2, <3>4, <4>1, <4>2
    <3> QED BY <2>4, <2>5, <3>1, <3>2, <3>3, <3>4
  <2>7. Exchange(s)'
    BY <1>2, <2>3, <2>6 DEF Exchange, Offering
  <2> QED BY <1>1, <2>7, SameBudget DEF LeaseInv
<1>3. CASE st' = "DISABLED"
  <2>1. Exchange(s)'
    BY <1>3 DEF Exchange
  <2> QED BY <1>1, <2>1, SameBudget DEF LeaseInv
<1> QED BY <1>1, <1>2, <1>3

\* The offer taken was the last message of its transaction.
LEMMA OfferLease ==
  ASSUME IInv, NEW s, Servers = {s}, LeaseInv(s), Offer
  PROVE  LeaseInv(s)'
<1>1. /\ st = "OFFER" /\ UNCHANGED <<inbox, srv>>
      /\ queue' = IF queue # <<>> THEN Tail(queue) ELSE queue
      /\ UNCHANGED budget \/ Spend("timeouts", Early)
      /\ \/ /\ st' = "REQUEST" /\ queue # <<>>
            /\ Head(queue).mine /\ Head(queue).type = "OFFER"
         \/ st' = "OFFER"
         \/ st' \in {"DISABLED", "DISCOVER"}
  BY DEF Offer
<1>2. Early \in BOOLEAN
  BY DEF Early
<1>3. Budgets' /\ (AnsweredOnce' => AnsweredOnce)
  BY <1>1, <1>2, SpendStep, SameBudget DEF LeaseInv
<1>4. SUFFICES ASSUME AnsweredOnce' PROVE Exchange(s)'
  BY <1>3 DEF LeaseInv
<1>5. Offering(s)
  BY <1>1, <1>3, <1>4 DEF LeaseInv, Exchange
<1>6. queue \in Seq(Incoming)
  BY DEF IInv, ClientTypes
<1>7. \A i \in DOMAIN queue' : \E j \in DOMAIN queue : queue'[i] = queue[j]
  <2>1. CASE queue = <<>>
    BY <1>1, <2>1
  <2>2. CASE queue # <<>>
    <3>1. \A i \in DOMAIN Tail(queue) : i + 1 \in DOMAIN queue /\ Tail(queue)[i] = queue[i + 1]
      BY <1>6, <2>2, RestOf
    <3> QED BY <1>1, <2>2, <3>1
  <2> QED BY <2>1, <2>2
<1>8. Offering(s)'
  BY <1>1, <1>5, <1>7 DEF Offering
<1>9. CASE /\ st' = "REQUEST" /\ queue # <<>>
           /\ Head(queue).mine /\ Head(queue).type = "OFFER"
  <2>1. inbox'[s] = <<>>
    <3>1. 1 \in DOMAIN queue /\ Head(queue) = queue[1]
      BY <1>6, <1>9
    <3> QED BY <1>1, <1>5, <1>9, <3>1 DEF Offering
  <2>2. queue' # <<>> /\ Head(queue').mine => Head(queue').type = "OFFER"
    <3>1. queue' \in Seq(Incoming)
      BY <1>1, <1>6
    <3>2. queue' # <<>> => 1 \in DOMAIN queue' /\ Head(queue') = queue'[1]
      BY <3>1
    <3> QED BY <1>8, <3>2 DEF Offering
  <2>3. Undecided' \/ Silent(s)'
    BY <2>1, <2>2 DEF Undecided, Silent, Mine
  <2> QED BY <1>9, <2>3 DEF Exchange
<1>10. CASE st' \in {"OFFER", "DISABLED", "DISCOVER"}
  BY <1>8, <1>10 DEF Exchange
<1> QED BY <1>1, <1>9, <1>10

\* The request is sent once; again only when nothing is on its way.
LEMMA RequestLease ==
  ASSUME IInv, NEW s, Servers = {s}, LeaseInv(s), Request
  PROVE  LeaseInv(s)'
<1>1. /\ st = "REQUEST" /\ UNCHANGED <<mem, queue, srv, budget>>
      /\ \/ st' = "DISABLED"
         \/ st' = "ACK" /\ Send(Message("REQUEST", mem.req, mem.server), Servers)
  BY DEF Request
<1>2. SUFFICES ASSUME AnsweredOnce PROVE Exchange(s)'
  BY <1>1, SameBudget DEF LeaseInv
<1>3. Undecided \/ Silent(s)
  BY <1>1, <1>2 DEF LeaseInv, Exchange
<1>4. CASE st' = "DISABLED"
  BY <1>4 DEF Exchange
<1>5. CASE st' = "ACK" /\ Send(Message("REQUEST", mem.req, mem.server), Servers)
  <2>1. CASE Undecided
    <3>1. Undecided'
      BY <1>1, <2>1 DEF Undecided, Mine
    <3> QED BY <1>5, <3>1 DEF Exchange
  <2>2. CASE Silent(s)
    <3> DEFINE m == Message("REQUEST", mem.req, mem.server)
    <3>1. inbox'[s] = Append(<<>>, m)
      BY <1>5, <2>2 DEF Send, Silent
    <3>2. Len(inbox'[s]) = 1 /\ inbox'[s][1] = m
      BY <3>1
    <3>3. m.type = "REQUEST" /\ m.addr = mem.req /\ m.mine
      BY DEF Message
    <3> HIDE DEF m
    <3>4. Asked(mem.req, s)'
      BY <1>1, <2>2, <3>2, <3>3 DEF Asked, Silent
    <3> QED BY <1>1, <1>5, <3>4 DEF Exchange
  <2> QED BY <1>3, <2>1, <2>2
<1> QED BY <1>1, <1>4, <1>5

LEMMA AckLease ==
  ASSUME IInv, NEW s, Servers = {s}, LeaseInv(s), Ack
  PROVE  LeaseInv(s)'
<1>1. /\ st = "ACK" /\ UNCHANGED <<ipMy, queue, inbox, srv>> /\ mem \in Memory
      /\ \/ /\ Mine(mem.req) /\ Head(queue).type = "ACK" /\ UNCHANGED budget
            /\ st' = "ARPWait" /\ mem' = [mem EXCEPT !.ciaddr = mem.req] /\ age' = 0
         \/ st' = "RetryDISCOVER" /\ UNCHANGED budget
         \/ /\ ~(Mine(mem.req) /\ Head(queue).type = "ACK") /\ Spend("timeouts", Early)
            /\ mem' = [mem EXCEPT !.tsLease = @ * 2]
            /\ st' \in {"RetryDISCOVER", "REQUEST"}
  BY DEF Ack, IInv, ClientTypes
<1>2. Early \in BOOLEAN
  BY DEF Early
<1>3. Budgets' /\ (AnsweredOnce' => AnsweredOnce)
  BY <1>1, <1>2, SpendStep, SameBudget DEF LeaseInv
<1>4. SUFFICES ASSUME AnsweredOnce' PROVE Exchange(s)'
  BY <1>3 DEF LeaseInv
<1>5. Undecided \/ Silent(s) \/ Asked(mem.req, s) \/ Acked(mem.req, s)
  BY <1>1, <1>3, <1>4 DEF LeaseInv, Exchange
<1>6. CASE /\ Mine(mem.req) /\ Head(queue).type = "ACK"
           /\ st' = "ARPWait" /\ mem' = [mem EXCEPT !.ciaddr = mem.req] /\ age' = 0
  <2>1. Acked(mem.req, s)
    BY <1>5, <1>6 DEF Undecided, Silent, Asked, Mine
  <2>2. mem'.req = mem.req
    BY <1>1, <1>6 DEF Memory
  <2>3. Acked(mem.req, s)'
    BY <1>1, <2>1, <2>2 DEF Acked
  <2> QED BY <1>6, <2>3 DEF Exchange
<1>7. CASE st' = "RetryDISCOVER"
  BY <1>7 DEF Exchange
<1>8. CASE /\ ~(Mine(mem.req) /\ Head(queue).type = "ACK") /\ Spend("timeouts", Early)
           /\ mem' = [mem EXCEPT !.tsLease = @ * 2] /\ st' = "REQUEST"
  <2>1. ~Early
    BY <1>2, <1>4, <1>8, SpendStep DEF LeaseInv
  <2>2. inbox[s] = <<>>
    BY <2>1 DEF Early
  <2>3. ~Asked(mem.req, s)
    <3>1. Len(<<>>) # 1
      OBVIOUS
    <3> QED BY <2>2, <3>1 DEF Asked
  <2>4. ~Acked(mem.req, s)
    <3>1. queue \in Seq(Incoming)
      BY DEF IInv, ClientTypes
    <3>2. Len(queue) = 1 => queue # <<>> /\ Head(queue) = queue[1]
      BY <3>1
    <3> QED BY <1>8, <3>2 DEF Acked, Mine
  <2>5. Undecided \/ Silent(s)
    BY <1>5, <2>3, <2>4
  <2>6. mem'.req = mem.req
    BY <1>1, <1>8 DEF Memory
  <2>7. Undecided' \/ Silent(s)'
    BY <1>1, <2>5, <2>6 DEF Undecided, Silent, Mine
  <2> QED BY <1>8, <2>7 DEF Exchange
<1> QED BY <1>1, <1>6, <1>7, <1>8

\* Asking whether the address is in use touches neither queue nor server.
LEMMA ArpWaitLease ==
  ASSUME IInv, NEW s, LeaseInv(s), ArpWait
  PROVE  LeaseInv(s)'
<1>1. /\ UNCHANGED <<ipMy, age, queue, inbox, srv, budget>> /\ st = "ARPWait"
      /\ st' \in {"DECLINE", "ACCEPT", "ARPWait"} /\ mem'.req = mem.req
  BY DEF ArpWait, IInv, ClientTypes, Memory
<1>2. Acked(mem.req, s) /\ age = 0 => Acked(mem.req, s)' /\ age' = 0
  BY <1>1 DEF Acked
<1>3. Exchange(s) => Exchange(s)'
  BY <1>1, <1>2 DEF Exchange
<1> QED BY <1>1, <1>3, SameBudget DEF LeaseInv

LEMMA AcceptLease ==
  ASSUME IInv, NEW s, LeaseInv(s), Accept
  PROVE  LeaseInv(s)'
<1>1. /\ UNCHANGED <<age, inbox, srv, budget>> /\ queue' = Tail(queue) /\ queue # <<>>
      /\ st = "ACCEPT" /\ st' = "BOUND" /\ ipMy' = Head(queue).addr
  BY DEF Accept, IInv, AckStaysQueued, DHCPSetUpParameters
<1>2. SUFFICES ASSUME AnsweredOnce PROVE Exchange(s)'
  BY <1>1, SameBudget DEF LeaseInv
<1>3. Acked(mem.req, s) /\ age = 0
  BY <1>1, <1>2 DEF LeaseInv, Exchange
<1>4. Tail(queue) = <<>> /\ Head(queue) = queue[1]
  BY <1>3, OneLeft DEF Acked, IInv, ClientTypes
<1>5. Silent(s)' /\ Leased(s)'
  BY <1>1, <1>3, <1>4 DEF Silent, Leased, Acked
<1> QED BY <1>1, <1>5 DEF Exchange

\* A renewal: one request, to a server that has granted the address.
LEMMA BoundLease ==
  ASSUME IInv, NEW s, Servers = {s}, LeaseInv(s), Bound
  PROVE  LeaseInv(s)'
<1>1. /\ UNCHANGED <<ipMy, age, queue, srv, budget>> /\ st = "BOUND"
      /\ mem'.ciaddr = ipMy
      /\ \/ st' \in {"DISCOVER", "BOUND"} /\ inbox' = inbox
         \/ /\ st' = "RENEW"
            /\ \E to \in {Servers, Gateway} : Send(Message("REQUEST", ipMy, NoAddr), to)
  BY DEF Bound, IInv, ClientTypes, Memory
<1>2. SUFFICES ASSUME AnsweredOnce PROVE Exchange(s)'
  BY <1>1, SameBudget DEF LeaseInv
<1>3. Silent(s) /\ Leased(s)
  BY <1>1, <1>2 DEF LeaseInv, Exchange
<1>4. Leased(s)'
  BY <1>1, <1>3 DEF Leased
<1>5. CASE st' \in {"DISCOVER", "BOUND"} /\ inbox' = inbox
  BY <1>1, <1>3, <1>4, <1>5 DEF Exchange, Silent
<1>6. CASE /\ st' = "RENEW"
           /\ \E to \in {Servers, Gateway} : Send(Message("REQUEST", ipMy, NoAddr), to)
  <2> DEFINE m == Message("REQUEST", ipMy, NoAddr)
  <2>1. inbox'[s] = <<>> \/ inbox'[s] = Append(<<>>, m)
    BY <1>3, <1>6 DEF Send, Silent
  <2>2. m.type = "REQUEST" /\ m.addr = ipMy /\ m.server = NoAddr /\ m.mine
    BY DEF Message
  <2> HIDE DEF m
  <2>3. Silent(s)' \/ (Asked(ipMy, s)' /\ inbox'[s][1].server = NoAddr)
    <3>1. CASE inbox'[s] = <<>>
      BY <1>1, <1>3, <3>1 DEF Silent
    <3>2. CASE inbox'[s] = Append(<<>>, m)
      <4>1. Len(inbox'[s]) = 1 /\ inbox'[s][1] = m
        BY <3>2
      <4> QED BY <1>1, <1>3, <2>2, <4>1 DEF Silent, Asked
    <3> QED BY <2>1, <3>1, <3>2
  <2> QED BY <1>1, <1>4, <1>6, <2>3 DEF Exchange
<1> QED BY <1>1, <1>5, <1>6

\* An answer restarts the lease when the server has just done so.
LEMMA RenewLease ==
  ASSUME IInv, NEW s, LeaseInv(s), Renew
  PROVE  LeaseInv(s)'
<1>1. /\ UNCHANGED <<inbox, srv, budget>> /\ queue' = Tail(queue) /\ queue # <<>>
      /\ st = "RENEW"
      /\ \/ ~Mine(mem.ciaddr) /\ st' = "RENEW" /\ UNCHANGED <<mem, ipMy, age>>
         \/ Mine(mem.ciaddr) /\ Head(queue).type = "NAK" /\ st' = "StartDISCOVER"
         \/ /\ Mine(mem.ciaddr) /\ Head(queue).type # "NAK" /\ st' = "BOUND"
            /\ Head(queue).type = "ACK" => age' = 0 /\ ipMy' = Head(queue).addr
  BY DEF Renew, DHCPSetUpParameters
<1>2. SUFFICES ASSUME AnsweredOnce PROVE Exchange(s)'
  BY <1>1, SameBudget DEF LeaseInv
<1>3. mem.ciaddr = ipMy /\ Leased(s) /\ (Acked(ipMy, s) \/ Refused(s))
  BY <1>1, <1>2 DEF LeaseInv, Exchange, Silent, Asked
<1>4. Len(queue) = 1 /\ inbox[s] = <<>>
  BY <1>3 DEF Acked, Refused
<1>5. Tail(queue) = <<>> /\ Head(queue) = queue[1]
  BY <1>4, OneLeft DEF IInv, ClientTypes
<1>6. Silent(s)'
  BY <1>1, <1>4, <1>5 DEF Silent
<1>7. CASE ~Mine(mem.ciaddr) /\ st' = "RENEW" /\ UNCHANGED <<mem, ipMy, age>>
  BY <1>1, <1>3, <1>6, <1>7 DEF Exchange, Leased
<1>8. CASE st' = "StartDISCOVER"
  BY <1>8 DEF Exchange
<1>9. CASE /\ Head(queue).type # "NAK" /\ st' = "BOUND"
           /\ Head(queue).type = "ACK" => age' = 0 /\ ipMy' = Head(queue).addr
  <2>1. Acked(ipMy, s)
    BY <1>3, <1>5, <1>9 DEF Refused
  <2>2. age' = 0 /\ ipMy' = ipMy
    BY <1>5, <1>9, <2>1 DEF Acked
  <2>3. Leased(s)'
    BY <1>1, <2>1, <2>2 DEF Leased, Acked
  <2> QED BY <1>6, <1>9, <2>3 DEF Exchange
<1> QED BY <1>1, <1>7, <1>8, <1>9

LEMMA RenewTimeoutLease ==
  ASSUME IInv, NEW s, Servers = {s}, LeaseInv(s), RenewTimeout
  PROVE  LeaseInv(s)'
<1>1. /\ UNCHANGED <<mem, ipMy, age, queue, inbox, srv>> /\ st = "RENEW" /\ st' = "BOUND"
      /\ queue = <<>> /\ Spend("timeouts", Early) /\ Early \in BOOLEAN
  BY DEF RenewTimeout, Early
<1>2. Budgets' /\ (AnsweredOnce' => AnsweredOnce /\ ~Early)
  BY <1>1, SpendStep DEF LeaseInv
<1>3. SUFFICES ASSUME AnsweredOnce, ~Early PROVE Exchange(s)'
  BY <1>2 DEF LeaseInv
<1>4. Leased(s) /\ inbox[s] = <<>>
  BY <1>1, <1>3 DEF LeaseInv, Exchange, Early
<1>5. Leased(s)' /\ Silent(s)'
  BY <1>1, <1>4 DEF Leased, Silent
<1> QED BY <1>1, <1>5 DEF Exchange

\* The application's calls.
LEMMA StartLease ==
  ASSUME NEW s, LeaseInv(s), DHCPInit \/ DHCPTerminate
  PROVE  LeaseInv(s)'
<1>1. /\ st' \in {"StartDISCOVER", "DISABLED"}
      /\ UNCHANGED budget \/ Spend("stops", st # "DISABLED")
  BY DEF DHCPInit, DHCPTerminate
<1>2. Exchange(s)'
  BY <1>1 DEF Exchange
<1>3. Spend("stops", st # "DISABLED") => Budgets'
  BY SpendStep DEF LeaseInv
<1> QED BY <1>1, <1>2, <1>3, SameBudget DEF LeaseInv

\* A declined address: the client starts again.
LEMMA DeclineLease ==
  ASSUME NEW s, LeaseInv(s), Decline
  PROVE  LeaseInv(s)'
<1>1. st' = "RetryDISCOVER" /\ UNCHANGED budget
  BY DEF Decline
<1>2. Exchange(s)'
  BY <1>1 DEF Exchange
<1> QED BY <1>1, <1>2, SameBudget DEF LeaseInv

LEMMA ArpLease ==
  ASSUME NEW s, LeaseInv(s), NEW a, LLArpServiceTimers(a) \/ ARPProcess(a)
  PROVE  LeaseInv(s)'
<1>1. UNCHANGED <<st, mem, ipMy, age, queue, inbox, srv, budget>>
  BY DEF LLArpServiceTimers, ARPProcess
<1>2. Exchange(s) => Exchange(s)'
  BY <1>1 DEF Exchange, Offering, Undecided, Mine, Silent, Asked, Acked, Refused, Leased
<1> QED BY <1>1, <1>2, SameBudget DEF LeaseInv

\* A message lost is one that is not answered.
LEMMA LoseLease ==
  ASSUME IInv, NEW s \in Servers, LeaseInv(s), Lose(s)
  PROVE  LeaseInv(s)'
<1>1. /\ UNCHANGED <<st, mem, ipMy, age, queue, srv>> /\ Spend("losses", TRUE)
      /\ inbox[s] # <<>> /\ inbox'[s] = Tail(inbox[s])
  BY DEF Lose, client, IInv, ServerTypes
<1>2. Budgets' /\ (AnsweredOnce' => AnsweredOnce)
  BY <1>1, SpendStep DEF LeaseInv
<1>3. SUFFICES ASSUME Exchange(s) PROVE Exchange(s)'
  BY <1>2 DEF LeaseInv
<1>4. inbox[s] \in Seq(Outgoing) /\ queue \in Seq(Incoming)
  BY DEF IInv, ClientTypes, ServerTypes
<1>5. ~Silent(s) /\ ~Refused(s) /\ ~Acked(mem.req, s) /\ ~Acked(ipMy, s)
  BY <1>1 DEF Silent, Acked, Refused
<1>6. Asked(mem.req, s) \/ Asked(ipMy, s) => Silent(s)'
  BY <1>1, <1>4, OneLeft DEF Asked, Silent
<1>7. Offering(s) => Offering(s)'
  <2> SUFFICES ASSUME Offering(s) PROVE Offering(s)'
    OBVIOUS
  <2>1. \A i \in DOMAIN queue : ~queue[i].mine
    BY <1>1 DEF Offering
  <2>2. ASSUME NEW i \in DOMAIN inbox'[s], inbox'[s][i].mine
        PROVE  inbox'[s][i].type = "DISCOVER" /\ i = Len(inbox'[s])
    <3>1. /\ Len(inbox[s]) \in Nat /\ Len(inbox'[s]) = Len(inbox[s]) - 1 /\ i \in Nat
          /\ i + 1 \in DOMAIN inbox[s] /\ inbox'[s][i] = inbox[s][i + 1]
      BY <1>1, <1>4, RestOf
    <3>2. inbox[s][i + 1].type = "DISCOVER" /\ i + 1 = Len(inbox[s])
      BY <2>2, <3>1 DEF Offering
    <3> QED BY <3>1, <3>2
  <2> QED BY <1>1, <2>1, <2>2 DEF Offering
<1>8. Leased(s) => Leased(s)'
  BY <1>1 DEF Leased
<1>9. Undecided => Undecided'
  BY <1>1 DEF Undecided, Mine
<1>10. CASE st \in {"OFFER", "REQUEST", "ACK", "ARPWait", "ACCEPT"}
  BY <1>1, <1>3, <1>5, <1>6, <1>7, <1>9, <1>10 DEF Exchange
<1>11. CASE st = "BOUND" \/ st = "RENEW"
  BY <1>1, <1>3, <1>5, <1>6, <1>8, <1>11 DEF Exchange
<1>12. CASE st \notin {"OFFER", "REQUEST", "ACK", "ARPWait", "ACCEPT", "BOUND", "RENEW"}
  BY <1>1, <1>12 DEF Exchange
<1> QED BY <1>10, <1>11, <1>12

\* Time passes for both, and only when nothing is on its way.
LEMMA TickLease ==
  ASSUME IInv, NEW s \in Servers, LeaseInv(s), Tick
  PROVE  LeaseInv(s)'
<1>1. /\ UNCHANGED <<st, mem, ipMy, queue, inbox, budget>> /\ st \in Connected
      /\ st = "RENEW" => queue = <<>>
      /\ inbox[s] = <<>> /\ age' = age + MinRenewTime
      /\ srv'[s] = [srv[s] EXCEPT !.age = Min({@ + MinRenewTime, LeaseTime + MinRenewTime})]
  BY DEF Tick
<1>2. SUFFICES ASSUME AnsweredOnce PROVE Exchange(s)'
  BY <1>1, SameBudget DEF LeaseInv
<1>3. MinRenewTime \in Nat /\ LeaseTime \in Nat /\ age \in Nat
      /\ srv[s] \in Grants /\ srv[s].age \in Nat
  BY DhcpAssumption DEF IInv, ClientTypes, ServerTypes, Grants
<1>4. srv'[s].age <= srv[s].age + MinRenewTime
  <2> DEFINE x == srv[s].age + MinRenewTime
             y == LeaseTime + MinRenewTime
  <2>1. srv'[s].age = Min({x, y})
    BY <1>1, <1>3 DEF Grants
  <2>2. x \in Int /\ y \in Int
    BY <1>3
  <2> HIDE DEF x, y
  <2>3. \E z \in {x, y} : \A w \in {x, y} : z <= w
    BY <2>2
  <2>4. Min({x, y}) <= x
    BY <2>3 DEF Min
  <2> QED BY <2>1, <2>4 DEF x
<1>5. srv'[s].granted = srv[s].granted /\ srv'[s].nak = srv[s].nak /\ srv'[s].age \in Int
  <2>1. srv'[s] \in Grants
    BY TickStep DEF IInv, ServerTypes
  <2>2. srv'[s].age \in Int
    BY <2>1 DEF Grants
  <2>3. \A x : LET g == [srv[s] EXCEPT !.age = x]
              IN  g.granted = srv[s].granted /\ g.nak = srv[s].nak
    BY <1>3 DEF Grants
  <2> QED BY <1>1, <2>2, <2>3
<1>6. Leased(s) => Leased(s)'
  BY <1>1, <1>3, <1>4, <1>5 DEF Leased
<1>7. queue = <<>> => Silent(s)'
  BY <1>1 DEF Silent
<1>8. st = "BOUND" => Silent(s)
  BY <1>2 DEF LeaseInv, Exchange
<1>9. CASE st = "BOUND"
  BY <1>1, <1>2, <1>6, <1>7, <1>9 DEF LeaseInv, Exchange, Silent
<1>10. CASE st = "RENEW"
  BY <1>1, <1>2, <1>6, <1>7, <1>10 DEF LeaseInv, Exchange
<1> QED BY <1>1, <1>9, <1>10 DEF Connected

\* What a server answers, and what it then holds for the client.
LEMMA AnswersLease ==
  ASSUME NEW s \in Servers, srv[s] \in Grants, NEW m \in Outgoing, NEW r \in Answers(s, m)
  PROVE  /\ \/ r.out = <<>>
            \/ /\ Len(r.out) = 1 /\ r.out[1].mine = m.mine
               /\ m.type = "DISCOVER" => r.out[1].type = "OFFER"
         /\ m.type = "REQUEST" =>
              \/ r.out = <<>> /\ r.srv = srv[s]
                 /\ ~(m.server = NoAddr /\ m.addr = srv[s].granted)
              \/ /\ Len(r.out) = 1 /\ r.out[1].mine = m.mine
                 /\ \/ /\ r.out[1].type = "ACK" /\ r.out[1].addr = m.addr
                       /\ r.srv.granted = m.addr /\ r.srv.age = 0
                    \/ /\ r.out[1].type = "NAK"
                       /\ r.srv.granted = srv[s].granted /\ r.srv.nak
<1>1. \A t, a : /\ Len(Reply(m, t, a, s)) = 1 /\ Reply(m, t, a, s)[1].mine = m.mine
                /\ Reply(m, t, a, s)[1].type = t /\ Reply(m, t, a, s)[1].addr = a
  BY DEF Reply
<1>2. CASE m.type = "DISCOVER" /\ srv[s].declined # Addrs
  <2>1. PICK a \in Addrs :
          r = [out |-> Reply(m, "OFFER", a, s), srv |-> srv[s], nak |-> FALSE]
    BY <1>2 DEF Answers
  <2>2. r.out = Reply(m, "OFFER", a, s)
    BY <2>1
  <2> QED BY <1>1, <1>2, <2>2
<1>3. CASE /\ m.type = "REQUEST"
           /\ m.server = s \/ (m.server = NoAddr /\ m.addr = srv[s].granted)
  <2>0. m.type # "DISCOVER"
    BY <1>3
  <2>1. \/ r = [out |-> Reply(m, "ACK", m.addr, s),
                srv |-> [srv[s] EXCEPT !.granted = m.addr, !.age = 0, !.nak = FALSE],
                nak |-> FALSE]
        \/ \E a \in {m.addr, NoAddr} :
             r = [out |-> Reply(m, "NAK", a, s), srv |-> [srv[s] EXCEPT !.nak = TRUE],
                  nak |-> TRUE]
    BY <2>0, <1>3 DEF Answers
  <2>2. CASE r = [out |-> Reply(m, "ACK", m.addr, s),
                  srv |-> [srv[s] EXCEPT !.granted = m.addr, !.age = 0, !.nak = FALSE],
                  nak |-> FALSE]
    <3>1. r.out = Reply(m, "ACK", m.addr, s) /\ r.srv.granted = m.addr /\ r.srv.age = 0
      BY <2>2 DEF Grants
    <3> QED BY <1>1, <2>0, <3>1
  <2>3. CASE \E a \in {m.addr, NoAddr} :
               r = [out |-> Reply(m, "NAK", a, s), srv |-> [srv[s] EXCEPT !.nak = TRUE],
                    nak |-> TRUE]
    <3>1. PICK a \in {m.addr, NoAddr} :
             r = [out |-> Reply(m, "NAK", a, s), srv |-> [srv[s] EXCEPT !.nak = TRUE],
                  nak |-> TRUE]
      BY <2>3
    <3>2. r.out = Reply(m, "NAK", a, s) /\ r.srv.nak /\ r.srv.granted = srv[s].granted
      BY <3>1 DEF Grants
    <3> QED BY <1>1, <2>0, <3>2
  <2> QED BY <2>1, <2>2, <2>3
<1>4. CASE m.type = "DECLINE" /\ m.server = s
  <2>1. r = [out |-> <<>>, nak |-> FALSE,
             srv |-> [srv[s] EXCEPT !.granted = NoAddr, !.declined = @ \cup {m.addr}]]
    BY <1>4 DEF Answers
  <2> QED BY <1>4, <2>1
<1>5. CASE /\ ~(m.type = "DISCOVER" /\ srv[s].declined # Addrs)
           /\ ~(/\ m.type = "REQUEST"
                /\ m.server = s \/ (m.server = NoAddr /\ m.addr = srv[s].granted))
           /\ ~(m.type = "DECLINE" /\ m.server = s)
  <2>1. r = [out |-> <<>>, srv |-> srv[s], nak |-> FALSE]
    BY <1>5 DEF Answers
  <2> QED BY <1>5, <2>1
<1> QED BY <1>2, <1>3, <1>4, <1>5

LEMMA ServeLease ==
  ASSUME IInv, NEW s, Servers = {s}, LeaseInv(s), Serve(s)
  PROVE  LeaseInv(s)'
<1>1. PICK r \in Answers(s, Head(inbox[s])), keep \in BOOLEAN :
        /\ inbox[s] # <<>> /\ UNCHANGED <<st, mem, ipMy, age>>
        /\ r.nak => budget.refusals > 0
        /\ keep => budget.duplicates > 0
        /\ budget' = [budget EXCEPT !.refusals = IF r.nak THEN @ - 1 ELSE @,
                                    !.duplicates = IF keep THEN @ - 1 ELSE @]
        /\ srv' = [srv EXCEPT ![s] = r.srv]
        /\ inbox' = IF keep THEN inbox ELSE [inbox EXCEPT ![s] = Tail(@)]
        /\ queue' = Enqueue(queue, r.out)
  BY DEF Serve
<1>2. Budgets' /\ (AnsweredOnce' => AnsweredOnce /\ ~keep)
  <2>1. MaxTimeouts \in Nat /\ MaxDuplicates \in Nat /\ Budgets
    BY DhcpAssumption DEF LeaseInv
  <2>2. /\ budget.duplicates \in 0 .. MaxDuplicates /\ budget.refusals \in Nat
    BY <2>1 DEF Budgets
  <2> DEFINE refusals == IF r.nak THEN budget.refusals - 1 ELSE budget.refusals
             duplicates == IF keep THEN budget.duplicates - 1 ELSE budget.duplicates
  <2>3. refusals \in Nat /\ duplicates \in 0 .. MaxDuplicates
        /\ (duplicates = MaxDuplicates => budget.duplicates = MaxDuplicates /\ ~keep)
    BY <1>1, <2>1, <2>2
  <2>4. budget' = [budget EXCEPT !.refusals = refusals, !.duplicates = duplicates]
    BY <1>1
  <2> HIDE DEF refusals, duplicates
  <2>5. Budgets' /\ budget'.duplicates = duplicates /\ budget'.timeouts = budget.timeouts
    BY <2>1, <2>3, <2>4 DEF Budgets
  <2> QED BY <2>3, <2>5 DEF AnsweredOnce
<1>3. SUFFICES ASSUME Exchange(s), ~keep PROVE Exchange(s)'
  BY <1>2 DEF LeaseInv
<1> DEFINE m == Head(inbox[s])
<1>4. /\ inbox[s] \in Seq(Outgoing) /\ queue \in Seq(Incoming) /\ srv[s] \in Grants
      /\ QueueSize \in Nat \ {0}
  BY DhcpAssumption DEF IInv, ClientTypes, ServerTypes
<1>5. m \in Outgoing /\ m = inbox[s][1]
  BY <1>1, <1>4
<1>6. r.out \in Seq(Incoming) /\ Len(r.out) <= 1
  BY <1>1, <1>4, <1>5, AnswersType
<1>7. inbox'[s] = Tail(inbox[s]) /\ srv'[s] = r.srv
  BY <1>1, <1>3 DEF IInv, ServerTypes
<1>8. ~Silent(s) /\ ~Refused(s) /\ ~Acked(mem.req, s) /\ ~Acked(ipMy, s)
  BY <1>1 DEF Silent, Acked, Refused
<1>9. CASE st = "OFFER"
  <2>1. Offering(s)
    BY <1>3, <1>9 DEF Exchange
  <2>2. \A i \in DOMAIN queue : ~queue[i].mine
    BY <1>1, <2>1 DEF Offering
  <2>3. ASSUME NEW i \in DOMAIN inbox'[s], inbox'[s][i].mine
        PROVE  inbox'[s][i].type = "DISCOVER" /\ i = Len(inbox'[s])
    <3>1. /\ Len(inbox[s]) \in Nat /\ Len(inbox'[s]) = Len(inbox[s]) - 1 /\ i \in Nat
          /\ i + 1 \in DOMAIN inbox[s] /\ inbox'[s][i] = inbox[s][i + 1]
      BY <1>1, <1>4, <1>7, RestOf
    <3>2. inbox[s][i + 1].type = "DISCOVER" /\ i + 1 = Len(inbox[s])
      BY <2>1, <2>3, <3>1 DEF Offering
    <3> QED BY <3>1, <3>2
  <2>4. ASSUME NEW i \in DOMAIN queue', queue'[i].mine
        PROVE  Len(r.out) = 1 /\ queue'[i] = r.out[1]
    <3>1. \A j \in DOMAIN (queue \o r.out) :
             \/ j \in DOMAIN queue /\ (queue \o r.out)[j] = queue[j]
             \/ j - Len(queue) \in 1 .. Len(r.out) /\ (queue \o r.out)[j] = r.out[j - Len(queue)]
      BY <1>4, <1>6
    <3>2. CASE queue' = queue
      BY <2>2, <2>4, <3>2
    <3>3. CASE queue' = queue \o r.out
      <4>1. i - Len(queue) \in 1 .. Len(r.out) /\ queue'[i] = r.out[i - Len(queue)]
        BY <2>2, <2>4, <3>1, <3>3
      <4> DEFINE j == i - Len(queue)
                 k == Len(r.out)
      <4>2. k \in Nat /\ k <= 1 /\ j \in 1 .. k
        BY <1>6, <4>1
      <4> HIDE DEF j, k
      <4>3. j = 1 /\ k = 1
        BY <4>2
      <4> QED BY <4>1, <4>3 DEF j, k
    <3> QED BY <1>1, <3>2, <3>3 DEF Enqueue
  <2>5. ASSUME NEW i \in DOMAIN queue', queue'[i].mine
        PROVE  queue'[i].type = "OFFER" /\ inbox'[s] = <<>>
    <3>1. Len(r.out) = 1 /\ queue'[i] = r.out[1]
      BY <2>4, <2>5
    <3>2. r.out # <<>>
      BY <3>1, <1>6
    <3>3. r.out[1].mine = m.mine /\ (m.type = "DISCOVER" => r.out[1].type = "OFFER")
      BY <1>1, <1>4, <1>5, <3>2, AnswersLease
    <3>4. 1 \in DOMAIN inbox[s]
      BY <1>1, <1>4
    <3>5. m.type = "DISCOVER" /\ Len(inbox[s]) = 1
      BY <1>5, <2>1, <2>5, <3>1, <3>3, <3>4 DEF Offering
    <3> QED BY <1>4, <1>7, <3>1, <3>3, <3>5, OneLeft
  <2> QED BY <1>1, <1>9, <2>3, <2>5 DEF Exchange, Offering
<1>10. ASSUME NEW a, Asked(a, s), st # "DISABLED"
      PROVE  \/ /\ Silent(s)' /\ srv'[s] = srv[s]
                /\ ~(inbox[s][1].server = NoAddr /\ srv[s].granted = a)
             \/ Acked(a, s)'
             \/ Refused(s)' /\ srv'[s].granted = srv[s].granted
  <2>1. queue = <<>> /\ m.type = "REQUEST" /\ m.addr = a /\ Len(inbox[s]) = 1
    BY <1>5, <1>10 DEF Asked
  <2>2. queue' = r.out
    <3>1. queue \o r.out = r.out /\ Len(queue) = 0
      BY <1>6, <2>1
    <3>2. Len(queue) < QueueSize
      BY <1>4, <3>1
    <3> QED BY <1>1, <1>10, <3>1, <3>2 DEF Enqueue
  <2>3. inbox'[s] = <<>>
    BY <1>4, <1>7, <2>1, OneLeft
  <2>4. \/ r.out = <<>> /\ r.srv = srv[s]
           /\ ~(m.server = NoAddr /\ m.addr = srv[s].granted)
        \/ /\ Len(r.out) = 1 /\ r.out[1].mine = m.mine
           /\ \/ /\ r.out[1].type = "ACK" /\ r.out[1].addr = m.addr
                 /\ r.srv.granted = m.addr /\ r.srv.age = 0
              \/ /\ r.out[1].type = "NAK"
                 /\ r.srv.granted = srv[s].granted /\ r.srv.nak
    BY <1>1, <1>4, <1>5, <2>1, AnswersLease
  <2>5. CASE /\ r.out = <<>> /\ r.srv = srv[s]
             /\ ~(m.server = NoAddr /\ m.addr = srv[s].granted)
    BY <1>5, <1>7, <2>1, <2>2, <2>3, <2>5 DEF Silent
  <2>6. CASE /\ Len(r.out) = 1 /\ r.out[1].mine = m.mine
             /\ r.out[1].type = "ACK" /\ r.out[1].addr = m.addr
             /\ r.srv.granted = m.addr /\ r.srv.age = 0
    <3>1. m.mine
      BY <1>5, <1>10 DEF Asked
    <3> QED BY <1>7, <2>1, <2>2, <2>3, <2>6, <3>1 DEF Acked
  <2>7. CASE /\ Len(r.out) = 1 /\ r.out[1].type = "NAK"
             /\ r.srv.granted = srv[s].granted /\ r.srv.nak
    BY <1>7, <2>2, <2>3, <2>7 DEF Refused
  <2> QED BY <2>4, <2>5, <2>6, <2>7
<1>11. queue # <<>> => queue' # <<>> /\ Head(queue') = Head(queue)
  BY <1>1, <1>6, EnqueueType
<1>12. Undecided => Undecided'
  BY <1>1, <1>11 DEF Undecided, Mine
<1>13. CASE st = "REQUEST"
  BY <1>1, <1>3, <1>8, <1>12, <1>13 DEF Exchange
<1>14. CASE st = "ACK"
  <2>1. CASE Undecided
    BY <1>1, <1>12, <1>14, <2>1 DEF Exchange
  <2>2. CASE Asked(mem.req, s)
    <3>0. PICK a : a = mem.req
      OBVIOUS
    <3>1. Silent(s)' \/ Acked(mem.req, s)' \/ Refused(s)'
      <4>1. st # "DISABLED" /\ Asked(a, s)
        BY <1>14, <2>2, <3>0
      <4>2. Silent(s)' \/ Acked(a, s)' \/ Refused(s)'
        BY <1>10, <4>1, Zenon
      <4> QED BY <1>1, <3>0, <4>2 DEF Acked
    <3>2. Refused(s)' => Undecided'
      <4>1. queue' \in Seq(Incoming)
        BY ServeStep DEF IInv, ClientTypes
      <4>2. Len(queue') = 1 => queue' # <<>> /\ Head(queue') = queue'[1]
        BY <4>1, OneLeft
      <4> QED BY <4>2 DEF Refused, Undecided
    <3> QED BY <1>1, <1>14, <3>1, <3>2 DEF Exchange
  <2> QED BY <1>3, <1>8, <1>14, <2>1, <2>2 DEF Exchange
<1>15. CASE st = "RENEW"
  <2>1. Asked(ipMy, s) /\ inbox[s][1].server = NoAddr /\ Leased(s)
    BY <1>3, <1>8, <1>15 DEF Exchange
  <2>2. \/ Acked(ipMy, s)'
        \/ Refused(s)' /\ srv'[s].granted = srv[s].granted
    <3>0. PICK a : a = ipMy
      OBVIOUS
    <3>1. st # "DISABLED" /\ srv[s].granted = a /\ Asked(a, s)
      BY <1>15, <2>1, <3>0 DEF Leased
    <3>2. \/ Acked(a, s)'
          \/ Refused(s)' /\ srv'[s].granted = srv[s].granted
      BY <1>10, <2>1, <3>1, Zenon
    <3> QED BY <1>1, <3>0, <3>2 DEF Acked
  <2>3. Leased(s)'
    <3>1. age \in Nat
      BY DEF IInv, ClientTypes
    <3> QED BY <1>1, <2>1, <2>2, <3>1 DEF Leased, Acked, Refused
  <2> QED BY <1>1, <1>3, <1>15, <2>2, <2>3 DEF Exchange
<1>16. CASE st \in {"ARPWait", "ACCEPT", "BOUND"}
  BY <1>3, <1>8, <1>16 DEF Exchange
<1>17. CASE st \notin {"OFFER", "REQUEST", "ACK", "ARPWait", "ACCEPT", "BOUND", "RENEW"}
  BY <1>1, <1>17 DEF Exchange
<1> QED BY <1>9, <1>13, <1>14, <1>15, <1>16, <1>17

LEMMA LeaseStep ==
  ASSUME IInv, NEW s, Servers = {s}, LeaseInv(s), [Next]_vars
  PROVE  LeaseInv(s)'
<1>1. CASE DHCPInit \/ DHCPTerminate
  BY <1>1, StartLease
<1>2. CASE DHCPStateMachine
  BY <1>2, DiscoverLease, OfferLease, RequestLease, AckLease, ArpWaitLease, AcceptLease,
     DeclineLease, BoundLease, RenewLease, RenewTimeoutLease DEF DHCPStateMachine
<1>3. CASE Tick
  BY <1>3, TickLease
<1>4. CASE \E a \in Addrs : LLArpServiceTimers(a) \/ ARPProcess(a)
  BY <1>4, ArpLease
<1>5. CASE \E t \in Servers : Serve(t) \/ Lose(t)
  BY <1>5, ServeLease, LoseLease
<1>6. CASE UNCHANGED vars
  <2>1. UNCHANGED <<st, mem, ipMy, age, queue, inbox, srv, budget>>
    BY <1>6 DEF vars
  <2>2. Exchange(s) => Exchange(s)'
    BY <2>1 DEF Exchange, Offering, Undecided, Mine, Silent, Asked, Acked, Refused, Leased
  <2> QED BY <2>1, <2>2, SameBudget DEF LeaseInv
<1> QED BY <1>1, <1>2, <1>3, <1>4, <1>5, <1>6 DEF Next

\* With one server, the lease of an address the client has did not start before
\* the client's reckoning of it, or the server has refused the address since,
\* whatever is lost, refused or cannot be sent, before the lease is over and
\* after, as long as no request has been repeated or answered twice.
THEOREM LeaseReckoned ==
  ASSUME NEW s, Servers = {s}
  PROVE  Spec => []LeaseNotOverstated
<1>1. Init => LeaseInv(s)
  BY LeaseInit
<1>2. IInv /\ LeaseInv(s) /\ [Next]_vars => IInv' /\ LeaseInv(s)'
  BY InvStep, LeaseStep
<1>3. ASSUME IInv, LeaseInv(s) PROVE LeaseNotOverstated
  <2> SUFFICES ASSUME AnsweredOnce, st \in Connected
               PROVE  srv[s].nak \/ (srv[s].granted = ipMy /\ srv[s].age <= age)
    BY DEF LeaseNotOverstated
  <2>1. Leased(s)
    BY <1>3 DEF LeaseInv, Exchange, Connected
  <2> QED BY <2>1 DEF Leased
<1> QED BY <1>1, <1>2, <1>3, InvInit, PTL DEF Spec
=============================================================================
