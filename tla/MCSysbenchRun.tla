--------------------------- MODULE MCSysbenchRun ---------------------------
(* Small instances of SysbenchRun. *)
EXTENDS SysbenchRun

Run(threads, requests, time, rate, interval, checkpoints) ==
    [num_threads |-> threads, max_requests |-> requests, max_time |-> time, force_shutdown |-> FALSE, timeout |-> 0,
     tx_rate |-> rate, report_interval |-> interval, checkpoints |-> checkpoints]

Forced(o, seconds) == [o EXCEPT !.force_shutdown = TRUE, !.timeout = seconds]

(* By number of requests, and by time. *)
Paced == {Run(2, 1, 0, 1, 0, <<>>), Run(2, 3, 1, 1, 0, <<>>)}

(* The default --tx-rate, 0: by itself, or ended by force. *)
Unpaced == {Run(2, 3, 1, 0, 0, <<>>)}
Ended   == {Forced(o, 1) : o \in Unpaced}

(* Intermediate reports alone, and beside checkpoint reports. *)
Reported         == {Run(1, 1, 0, 1, 1, <<>>)}
Mixed(requests)  == {Run(1, requests, 2, 1, 1, <<1>>)}
TwoReports       == Mixed(2)

(* A checkpoint report that wipes the locks of two runners. *)
Wiped == {Run(2, 1, 2, 1, 0, <<1>>)}

AllRuns == Paced \cup Unpaced \cup Ended \cup Mixed(1) \cup Wiped
=============================================================================
