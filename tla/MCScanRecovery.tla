--------------------------- MODULE MCScanRecovery ---------------------------
(* Small instances of ScanRecovery for TLC. *)
EXTENDS ScanRecovery, TLC

\* Runs, workers and pids are interchangeable; no property names one of them.
\* Used by the runs without liveness properties only.
Symmetry == Permutations(Runs) \cup Permutations(Workers) \cup Permutations(Pids)


\* All scans are of one upload: --pcap is the same, -o is not.
OneUpload == [r \in Runs |-> {<<"report", r>>, <<"upload">>}]

=============================================================================
