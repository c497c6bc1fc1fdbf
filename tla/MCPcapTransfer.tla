-------------------------- MODULE MCPcapTransfer --------------------------
(* Small instances of PcapTransfer for TLC. *)
EXTENDS PcapTransfer

CONSTANT FewFileFaults   \* the faults when one file is written

\* The files of a run rotate in one session; every session has its own lock
\* and row.
MCSessionOf == [f \in Files |-> CHOOSE s \in Sessions : TRUE]

\* One file is sent over links that drop, two files of one session without
\* faults: the uploads of the second need only the lock of the first.
MCMaxFaults ==
    [fs \in SUBSET Files |-> IF Cardinality(fs) = 1 /\ (CHOOSE f \in Files : TRUE) \in fs
                            THEN FewFileFaults ELSE 0]

=============================================================================
