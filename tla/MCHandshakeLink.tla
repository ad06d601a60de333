-------------------------- MODULE MCHandshakeLink --------------------------
(* Instances of HandshakeLink for TLC. *)
EXTENDS HandshakeLink
=============================================================================
