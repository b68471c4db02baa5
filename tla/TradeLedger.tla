---------------------------- MODULE TradeLedger -----------------------------
(***************************************************************************)
(* What the Trade table promises the rest of the bot, whoever writes it:   *)
(* a trade is opened once, for a symbol nobody holds, and once closed it   *)
(* stays closed.  How the bot learns that a trade is over, and which of    *)
(* its final statuses it then records, is left to the components.          *)
(***************************************************************************)
CONSTANTS TradeIds, SymbolNames, NoSymbol

VARIABLES phase,    \* "unopened", "open" or "closed"
          market    \* the symbol of a trade that was opened

vars == <<phase, market>>

Init ==
    /\ phase = [t \in TradeIds |-> "unopened"]
    /\ market = [t \in TradeIds |-> NoSymbol]

Open(t, m) ==
    /\ phase[t] = "unopened"
    /\ \A u \in TradeIds : phase[u] = "open" => market[u] # m
    /\ phase' = [phase EXCEPT ![t] = "open"]
    /\ market' = [market EXCEPT ![t] = m]

Close(t) ==
    /\ phase[t] = "open"
    /\ phase' = [phase EXCEPT ![t] = "closed"]
    /\ UNCHANGED market

Next == \E t \in TradeIds : Close(t) \/ \E m \in SymbolNames : Open(t, m)

Spec == Init /\ [][Next]_vars

=============================================================================
