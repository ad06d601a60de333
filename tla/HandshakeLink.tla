--------------------------- MODULE HandshakeLink ---------------------------
(***************************************************************************)
(* HandshakeData between a sender that respects iRdy and a receiver that   *)
(* takes oData on every OutClk edge at which oValid is high, the contract  *)
(* of the header of HandshakeData.vhd.  "pending" is a history variable:   *)
(* the words pushed and not yet taken.                                     *)
(***************************************************************************)
EXTENDS HandshakeData, Sequences

VARIABLE pending

linkVars == <<vars, pending>>

Accepted(p) == IF iPushRising THEN Append(p, iData) ELSE p
Taken(p)    == IF oValid = 1 /\ p # <<>> THEN Tail(p) ELSE p

LinkInit == Init /\ pending = <<>>

LinkNext ==
  \/ AssertReset /\ pending' = <<>>
  \/ (ReleaseReset \/ SenderInReset) /\ UNCHANGED pending
  \/ InClk /\ pending' = Accepted(pending)
  \/ OutClk /\ pending' = Taken(pending)
  \/ BothClks /\ pending' = Accepted(Taken(pending))

LinkSpec == LinkInit /\ [][LinkNext]_linkVars

\* Both clocks run, a reset does not last, the sender lowers iPush, and the
\* receiver acknowledges a word it has been shown.
Fairness ==
  /\ WF_linkVars(LinkNext /\ (InClk \/ BothClks))
  /\ WF_linkVars(LinkNext /\ (InClk \/ BothClks) /\ iPush' = 0)
  /\ WF_linkVars(LinkNext /\ (OutClk \/ BothClks))
  /\ WF_linkVars(LinkNext /\ (OutClk \/ BothClks) /\ OutEdge(1))
  /\ WF_linkVars(LinkNext /\ ReleaseReset)

FairLinkSpec == LinkSpec /\ Fairness
-----------------------------------------------------------------------------
\* "The data will appear on oData and is valid when oValid pulses high": the
\* clock that shows oValid shows the one word pushed and not yet taken, so
\* that each push is taken exactly once, unmixed and in order.
PulseShowsPending == oValid = 1 => pending = <<oData>>

\* Every word pushed is taken, unless a reset clears it on its way.
EveryPushTaken == pending # <<>> ~> pending = <<>>

\* The sender is always invited again, whatever is in flight and however
\* often the link is reset: the handshake cannot lock up.
ReadyAgain == []<>(iRdy = 1 \/ aReset = 1)
-----------------------------------------------------------------------------
(* The channel: idle when the toggle has come all the way back; delivered    *)
(* when the output domain has seen it.                                       *)

Phase == IF iPushTBack = iPushT /\ oPushT_q = iPushT THEN "idle"
         ELSE IF oPushT_q # iPushT THEN "pushed" ELSE "delivered"

Channel == INSTANCE PushChannel WITH phase <- Phase, word <- iData_int, out <- oData

\* The registers and synchronizers implement the one-word channel.
ImplementsChannel == Channel!ChanSpec
=============================================================================
