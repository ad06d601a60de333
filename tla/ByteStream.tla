----------------------------- MODULE ByteStream -----------------------------
(***************************************************************************)
(* What a TCP connection promises its two users: each reads what the other *)
(* one wrote, in order and once.  A user may stop at any time.             *)
(***************************************************************************)
EXTENDS Naturals, Sequences, SequencesExt

CONSTANTS Ends, Peer(_)

VARIABLES written,   \* what each user has written
          delivered  \* what each user has read

vars == <<written, delivered>>

Init == /\ written   = [e \in Ends |-> <<>>]
        /\ delivered = [e \in Ends |-> <<>>]

Write(e) == /\ IsStrictPrefix(written[e], written'[e])
            /\ written' = [written EXCEPT ![e] = written'[e]]
            /\ UNCHANGED delivered

\* Read returns the next bytes of what the other user wrote.
Read(e) == /\ \E s \in Prefixes(written[Peer(e)]) :
                /\ IsStrictPrefix(delivered[e], s)
                /\ delivered' = [delivered EXCEPT ![e] = s]
           /\ UNCHANGED written

Next == \E e \in Ends : Write(e) \/ Read(e)

Spec == Init /\ [][Next]_vars
=============================================================================
