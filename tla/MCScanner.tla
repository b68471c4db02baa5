----------------------------- MODULE MCScanner ------------------------------
(* Small instances of Scanner for TLC. *)
EXTENDS Scanner, TLC

CONSTANTS a1, a2, p1, c1, c2, s1, s2, s3, BTC, ETH

OneScan == {a1}
TwoScans == {a1, a2}
OneProcess == {p1}
FirstInOne == a1 :> p1
BothInOne == a1 :> p1 @@ a2 :> p1

OneCall == {c1}
TwoCalls == {c1, c2}
TwoSignals == {s1, s2}
ThreeSignals == {s1, s2, s3}
OneSymbol == {BTC}
TwoSymbols == {BTC, ETH}
AllBtc == s1 :> BTC @@ s2 :> BTC @@ s3 :> BTC
OwnSymbol == s1 :> BTC @@ s2 :> ETH
Singles == [s \in Signals |-> 1]
LongAndShort == s1 :> "LONG" @@ s2 :> "SHORT"
TwoLongsOneShort == s1 :> "LONG" @@ s2 :> "LONG" @@ s3 :> "SHORT"

\* The scans are of one process, the first two signals of one direction.
ScanSymmetry == Permutations(TwoScans) \cup Permutations(TwoSignals)

=============================================================================
