----------------------------- MODULE JobStatus -----------------------------
(***************************************************************************)
(* What the backtest API promises about a job's status, whichever manager  *)
(* process answers the poll: it only moves forward, an answer it has given *)
(* ("completed", "failed") is never taken back, "completed" is reached     *)
(* only by a run, and only a finished job is ever forgotten.  A restart    *)
(* may send an unfinished job back to "pending" or fail it.                *)
(***************************************************************************)
CONSTANT Jobs

Unfinished == {"pending", "downloading", "running"}
Terminal   == {"completed", "failed"}
Statuses   == {"absent"} \cup Unfinished \cup Terminal

VARIABLE status

Init == status = [j \in Jobs |-> "absent"]

Submit(j) ==
    status[j] = "absent" /\ status' = [status EXCEPT ![j] = "pending"]

Advance(j) ==
    \/ /\ status[j] = "pending"
       /\ status' = [status EXCEPT ![j] = "downloading"]
    \/ /\ status[j] \in {"pending", "downloading"}
       /\ status' = [status EXCEPT ![j] = "running"]

Fail(j) ==
    status[j] \in Unfinished /\ status' = [status EXCEPT ![j] = "failed"]

Complete(j) ==
    status[j] = "running" /\ status' = [status EXCEPT ![j] = "completed"]

\* The process dies: what was unfinished will be pending or failed.
Interrupt ==
    /\ status' \in [Jobs -> Statuses]
    /\ \A j \in Jobs : IF status[j] \in Unfinished
                       THEN status'[j] \in {"pending", "failed"}
                       ELSE status'[j] = status[j]

\* Finished jobs are forgotten.
Prune(S) ==
    /\ \A j \in S : status[j] \in Terminal
    /\ status' = [j \in Jobs |-> IF j \in S THEN "absent" ELSE status[j]]

Next ==
    \/ \E j \in Jobs : Submit(j) \/ Advance(j) \/ Fail(j) \/ Complete(j)
    \/ Interrupt
    \/ \E S \in SUBSET Jobs : Prune(S)

Spec == Init /\ [][Next]_status
=============================================================================
