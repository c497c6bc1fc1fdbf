---------------------------- MODULE RunLifecycle ----------------------------
(***************************************************************************)
(* What a user of the scan history is promised, whatever happens to the    *)
(* web workers and the engines in between: a run that was recorded gets at *)
(* most one verdict, "completed" only with a finished report, and the      *)
(* webhook receiver is told at most once and only of a completed run.      *)
(*                                                                         *)
(* ScanRecovery implements it when workers restart together; see           *)
(* ScanRecoveryProofs.                                                     *)
(***************************************************************************)
EXTENDS Naturals

CONSTANT Runs

VARIABLES
    verdict,   \* what the history says of the run
    ready,     \* its report is finished
    notices    \* webhook deliveries for it

vars == <<verdict, ready, notices>>

Verdicts == {"completed", "failed", "stopped"}

TypeOK ==
    /\ verdict \in [Runs -> {"absent", "running"} \cup Verdicts]
    /\ ready \in [Runs -> BOOLEAN]
    /\ notices \in [Runs -> {0, 1}]

Init ==
    /\ verdict = [r \in Runs |-> "absent"]
    /\ ready = [r \in Runs |-> FALSE]
    /\ notices = [r \in Runs |-> 0]

Start(r) ==
    /\ verdict[r] = "absent"
    /\ verdict' = [verdict EXCEPT ![r] = "running"]
    /\ UNCHANGED <<ready, notices>>

\* The engine may be done before the row is written, and after a verdict that
\* a dead worker's successor gave.
FinishReport(r) ==
    /\ ~ready[r]
    /\ ready' = [ready EXCEPT ![r] = TRUE]
    /\ UNCHANGED <<verdict, notices>>

Settle(r, v) ==
    /\ verdict[r] = "running"
    /\ v = "completed" => ready[r]
    /\ verdict' = [verdict EXCEPT ![r] = v]
    /\ UNCHANGED <<ready, notices>>

Notify(r) ==
    /\ verdict[r] = "completed" /\ notices[r] = 0
    /\ notices' = [notices EXCEPT ![r] = 1]
    /\ UNCHANGED <<verdict, ready>>

Next ==
    \E r \in Runs :
        \/ Start(r) \/ FinishReport(r) \/ Notify(r)
        \/ \E v \in Verdicts : Settle(r, v)

Spec == Init /\ [][Next]_vars

=============================================================================
