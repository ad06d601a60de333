---------------------------- MODULE PushChannel ----------------------------
(***************************************************************************)
(* What HandshakeData promises: a channel for one word.  A word is pushed  *)
(* when the channel is idle, appears once at the output, and the channel   *)
(* is idle again when the receiver's acknowledgement has come back.        *)
(***************************************************************************)
CONSTANTS Data, NoData

VARIABLES phase,   \* "idle", "pushed" or "delivered"
          word,    \* the word in the channel
          out      \* the word shown at the output

chanVars == <<phase, word, out>>

ChanInit == phase = "idle" /\ word = NoData /\ out = NoData

Push(d) ==
  /\ phase = "idle" /\ phase' = "pushed"
  /\ word' = d
  /\ UNCHANGED out

Deliver ==
  /\ phase = "pushed" /\ phase' = "delivered"
  /\ out' = word
  /\ UNCHANGED word

Return == phase = "delivered" /\ phase' = "idle" /\ UNCHANGED <<word, out>>

Clear == phase' = "idle" /\ word' = NoData /\ out' = NoData

ChanNext == (\E d \in Data : Push(d)) \/ Deliver \/ Return \/ Clear

ChanSpec == ChanInit /\ [][ChanNext]_chanVars
=============================================================================
