--------------------------- MODULE MCLiveTrading ----------------------------
(* Small instances of LiveTrading for TLC. *)
EXTENDS LiveTrading, TLC

CONSTANTS c1, c2, i1, i2, s1, s2, BTC, ETH

OneCall == {c1}
TwoCalls == {c1, c2}
NoImport == {}
OneImport == {i1}
OneSignal == {s1}
TwoSignals == {s1, s2}
OneSymbol == {BTC}
TwoSymbols == {BTC, ETH}

OnlyBtc == s1 :> BTC
SameSymbol == s1 :> BTC @@ s2 :> BTC
OwnSymbol == s1 :> BTC @@ s2 :> ETH
SingleOnly == s1 :> 1
SplitOnly == s1 :> 2
Singles == s1 :> 1 @@ s2 :> 1

CallSymmetry == Permutations(Calls)

=============================================================================
