------------------------------- MODULE MCAodv -------------------------------
(* Small networks for TLC: the topologies and flows the configurations use. *)
EXTENDS Aodv

CONSTANTS S, A, B, D   \* nodes

Both(L) == L \cup {<<l[2], l[1]>> : l \in L}

Line4   == Both({<<S, A>>, <<A, B>>, <<B, D>>})
Ring3   == Both({<<S, A>>, <<A, D>>, <<S, D>>})

OneWay   == {<<S, D>>}
Exchange == {<<S, D>>, <<S, A>>, <<D, S>>}
BothWay  == {<<S, D>>, <<D, S>>}
Three    == {<<S, D>>, <<A, D>>, <<D, S>>}

\* Bound: only the numbers of A and D, whose tables expire, are followed
\* beyond 4, and only while one packet was sent.
FewNumbers == \A n \in Node : seqno[n] > 4 => n \in {A, D} /\ nsent = 1
=============================================================================
