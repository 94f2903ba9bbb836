----------------------------- MODULE LinkGraph -----------------------------
(***************************************************************************)
(* What the stores of LinkBench promise: a graph of links with a count per *)
(* id1, in which a request changes a link and its count in one step.  Only *)
(* while the graph is being loaded are links and counts stored apart.  For *)
(* an id1 in doubted the count may miss a change.                          *)
(***************************************************************************)
EXTENDS Integers

CONSTANTS Id1s, Id2s, Data, Null

VARIABLES links, counts, doubted, loading

graph == <<links, counts, doubted, loading>>

Links == Id1s \X Id2s

Init ==
    /\ links = [l \in Links |-> Null]
    /\ counts = [k \in Id1s |-> Null]
    /\ doubted = {}
    /\ loading = TRUE

(* The number a link adds to its count. *)
Weight(row) == IF row # Null /\ row.visibility = "DEFAULT" THEN 1 ELSE 0

(* A count that moves by n: 0 if there is none, and never below 0.         *)
Moved(count, n) ==
    LET sum == n + IF count = Null THEN 0 ELSE count
    IN  IF sum < 0 THEN 0 ELSE sum

(* Link l becomes row, and its count follows. *)
Change(l, row) ==
    LET k    == l[1]
        n    == Weight(row) - Weight(links[l])
        Move(m) == counts' = IF m = 0 THEN counts ELSE [counts EXCEPT ![k] = Moved(@, m)]
    IN  /\ links' = [links EXCEPT ![l] = row]
        /\ IF k \in doubted THEN \E m \in {-1, 0, 1} : Move(m) ELSE Move(n)
        /\ UNCHANGED <<doubted, loading>>

AddLink(l, d) == Change(l, [visibility |-> "DEFAULT", data |-> d])

HideLink(l) == links[l] # Null /\ Change(l, [links[l] EXCEPT !.visibility = "HIDDEN"])

(* A batch of links; one that is there keeps its data. *)
AddBulkLinks ==
    /\ loading /\ links' # links /\ UNCHANGED <<counts, doubted, loading>>
    /\ \E S \in SUBSET Links, d \in Data :
         links' = [l \in Links |-> IF l \notin S THEN links[l]
                                   ELSE IF links[l] = Null
                                   THEN [visibility |-> "DEFAULT", data |-> d]
                                   ELSE [links[l] EXCEPT !.visibility = "DEFAULT"]]

AddBulkCounts ==
    /\ loading /\ counts' # counts /\ UNCHANGED <<links, doubted, loading>>
    /\ \A k \in Id1s : counts'[k] = counts[k] \/ counts'[k] \in Nat

Doubt(k) == doubted' = doubted \cup {k} /\ UNCHANGED <<links, counts, loading>>

EndLoad == loading /\ loading' = FALSE /\ UNCHANGED <<links, counts, doubted>>

Next ==
    \/ \E l \in Links, d \in Data : AddLink(l, d)
    \/ \E l \in Links : HideLink(l)
    \/ AddBulkLinks \/ AddBulkCounts
    \/ \E k \in Id1s : Doubt(k)
    \/ EndLoad

Spec == Init /\ [][Next]_graph
=============================================================================
