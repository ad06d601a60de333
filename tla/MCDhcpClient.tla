---------------------------- MODULE MCDhcpClient ----------------------------
(***************************************************************************)
(* Instances of DhcpClient.  The times are the ones of the code, the lease *)
(* is of eight minutes.                                                    *)
(***************************************************************************)
EXTENDS DhcpClient

MCSendWorks == {TRUE}
=============================================================================
