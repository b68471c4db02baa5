----------------------------- MODULE MCScanLock -----------------------------
(* A small instance of ScanLock for TLC. *)
EXTENDS ScanLock, TLC

CONSTANTS a1, a2, a3, p1, p2

ThreeScans == {a1, a2, a3}
TwoProcesses == {p1, p2}

\* One process runs two of the scans.
TwoAndOne == a1 :> p1 @@ a2 :> p1 @@ a3 :> p2

=============================================================================
