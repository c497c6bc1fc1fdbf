--------------------------- MODULE MCLiveCapture ---------------------------
(* Small instances of LiveCapture for TLC. *)
EXTENDS LiveCapture, TLC

\* Session ids are uuids; no invariant names one of them.
Symmetry == Permutations(Sessions)

=============================================================================
