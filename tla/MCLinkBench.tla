---------------------------- MODULE MCLinkBench ----------------------------
(* Small instances of LinkBench. *)
EXTENDS LinkBench

(* What a requester asks for: it adds visible links, hides them and reads  *)
(* them.                                                                   *)
RequestCalls ==
    {AddLink(l, "DEFAULT", d) : l \in Links, d \in Data}
    \cup {DeleteLink(l, FALSE) : l \in Links} \cup {GetLink(l) : l \in Links}

FewRequests ==
    {AddLink(l, "DEFAULT", d) : l \in {<<1, 0>>, <<1, 1>>}, d \in Data}
    \cup {DeleteLink(<<1, 0>>, FALSE)} \cup {GetLink(<<1, 0>>)}

TwoIds == 1 .. 2

(* Two links of the first id1, one of the second. *)
TwoAndOne == [k \in TwoIds |-> 3 - k]
=============================================================================
