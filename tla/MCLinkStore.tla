---------------------------- MODULE MCLinkStore ----------------------------
(* Small instances of LinkStore. *)
EXTENDS LinkStore

(* What a requester of LinkBench asks for (LinkBenchRequest.java). *)
RequestCalls ==
    {AddLink(l, "DEFAULT", d) : l \in Links, d \in Data} \cup {DeleteLink(l, FALSE) : l \in Links}
=============================================================================
