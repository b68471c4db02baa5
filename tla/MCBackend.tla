----------------------------- MODULE MCBackend ------------------------------
(* Small instances of Backend for TLC. *)
EXTENDS Backend

CONSTANTS g1, m1, m2, b1, u1, u2, k1, k2, w1, w2, n1, n2, l1, l2, l3, p1, p2

AllRequests == {g1, m1, m2, b1}
Kinds == g1 :> "signed" @@ m1 :> "mode" @@ m2 :> "mode" @@ b1 :> "balance"
AllSupervisors == {u1, u2}
TwoSockets == {k1, k2}
TwoWallets == {w1, w2}
TwoNonces == {n1, n2}
AllLogins == {l1, l2, l3}
OldLogin == {l3}
AllPatches == {p1, p2}
Followed ==
    {"mode", "realTradingEnabled", "requireDashboardConfirmation",
     "minPositionUsd", "maxPositionUsd", "minRiskReward", "breakoutTp2Multiplier"}

\* Overlapping requests around a ban; the stream beside them; overlapping cron
\* jobs; one beside changes of the mode; overlapping logins; a login and its
\* session; PATCHes of pairs; PATCHes while a trade opens.
ClientScenario == {m1, m2, b1}
BanScenario == {g1, b1, u1}
StreamScenario == {u1, u2}
ModeScenario == {u1, p1}
LoginScenario == {l1, l2}
SessionScenario == {l1, p1}
RulesScenario == {p1, p2}
TradeScenario == {p1, p2, "approveLive"}
AllScenarios ==
    {ClientScenario, BanScenario, StreamScenario, ModeScenario, LoginScenario,
     SessionScenario, RulesScenario, TradeScenario}
OnlyBan == {BanScenario}

\* Bodies of the settings form: one side of a pair or both, a bad one of each.
SomeBodies ==
    ModeScenario :> {"mode" :> "live", "mode" :> "testnet"}
    @@ SessionScenario :> {"maxPositionUsd" :> 300}
    @@ RulesScenario :>
        {"maxPositionUsd" :> 300, "maxPositionUsd" :> 50,
         [minPositionUsd |-> 400, maxPositionUsd |-> 300],
         [minRiskReward |-> 250, breakoutTp2Multiplier |-> 240], MicroPreset}
    @@ TradeScenario :> {"mode" :> "live", "enableRealTrading" :> FALSE, MicroPreset}
    @@ [s \in {ClientScenario, BanScenario, StreamScenario, LoginScenario} |-> {}]

\* Where nobody asks for the position mode, or for the mode of the settings, one
\* of them is enough.
MCInit ==
    /\ Init
    /\ {m1, m2} \cap callers = {} => account = "one-way"
    /\ callers \in {LoginScenario, SessionScenario, RulesScenario} => stored["mode"] = "testnet"

MCSpec == MCInit /\ [][Next]_vars
MCFairSpec == MCSpec /\ Fairness

=============================================================================
