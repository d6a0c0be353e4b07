------------------------------ MODULE TaskCycle ------------------------------
(* What GelatoCore promises the user who submits a cycle or a chain of      *)
(* tasks, as it is seen between transactions.  A transaction may carry      *)
(* several submissions and executions, so one step can do several runs.     *)
EXTENDS Naturals

VARIABLES
    status,     \* "absent", "open": waiting for its next run, or "closed"
    requested,  \* runs requested in all; 0 stands for no limit
    runs,       \* tasks executed so far
    stops       \* cancellations and executions that failed for good

cycleVars == <<status, requested, runs, stops>>

Init ==
    /\ status = "absent"
    /\ requested = 0 /\ runs = 0 /\ stops = 0

\* A cycle is never reopened, nothing is asked of it after it has closed, it
\* ends by its last run or by one stop and for no other reason, and it never
\* runs more often than requested.
Transaction ==
    /\ <<status, status'>> \in {<<"absent", "open">>, <<"absent", "closed">>,
                                <<"open", "open">>, <<"open", "closed">>}
    /\ status = "open" => requested' = requested
    /\ runs' >= runs
    /\ requested' # 0 => runs' <= requested'
    /\ stops = 0 /\ stops' \in {0, 1}
    /\ status' = "closed" <=> (stops' = 1 \/ (requested' # 0 /\ runs' = requested'))

Spec == Init /\ [][Transaction]_cycleVars
=============================================================================
