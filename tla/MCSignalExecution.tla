------------------------- MODULE MCSignalExecution --------------------------
(* Small instances of SignalExecution for TLC. *)
EXTENDS SignalExecution, TLC

CONSTANTS c1, c2, c3, s1, s2, BTC, ETH

TwoCalls == {c1, c2}
ThreeCalls == {c1, c2, c3}
OneSignal == {s1}
TwoSignals == {s1, s2}
OneSymbol == {BTC}
TwoSymbols == {BTC, ETH}

\* Two signals for one symbol, the second too small for two take-profits.
SameSymbol == s1 :> BTC @@ s2 :> BTC
OwnSymbol == s1 :> BTC @@ s2 :> ETH
OnlyBtc == s1 :> BTC
SplitAndSingle == s1 :> 2 @@ s2 :> 1
SplitAndNothing == s1 :> 2 @@ s2 :> 0
SingleOnly == s1 :> 1
Singles == s1 :> 1 @@ s2 :> 1

CallSymmetry == Permutations(Calls)

=============================================================================
