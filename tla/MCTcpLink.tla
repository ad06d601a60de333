----------------------------- MODULE MCTcpLink -----------------------------
(***************************************************************************)
(* Instances of TcpLink.  Both ends start near the end of the sequence     *)
(* space, so that it wraps in the first bytes of the connection.           *)
(***************************************************************************)
EXTENDS TcpLink

CONSTANTS ClientBytes, ServerBytes

MCInitialSeq == (Client :> W - 2) @@ (Server :> W - 1)
MCMaxBytes == (Client :> ClientBytes) @@ (Server :> ServerBytes)
MCSendFails == {TRUE, FALSE}
MCSendWorks == {TRUE}
=============================================================================
