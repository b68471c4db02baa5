------------------------------ MODULE Backend -------------------------------
(***************************************************************************)
(* What the dashboard's requests and the cron jobs share in a backend: the *)
(* sessions, the settings, the stream and the client of Binance.           *)
(* DashboardController's requests on the settings pass AuthGuard, read,    *)
(* validate and write with awaits in between; the mode they write decides  *)
(* which exchange the client and the stream talk to.                       *)
(***************************************************************************)
EXTENDS Authentication, SettingsRules, StreamSupervisor

CONSTANTS
    Patches,    \* PATCH requests, used again when they return
    Fields,     \* the fields of the settings an instance follows
    Standing,   \* tokens issued before
    Scenarios,  \* who may call in a behaviour
    BodiesOf    \* what the PATCHes of a scenario may contain

ASSUME BackendAssumption ==
    /\ Fields \subseteq DOMAIN SchemaDefaults
    /\ {"mode", "realTradingEnabled", "requireDashboardConfirmation"} \subseteq Fields
    /\ Standing \subseteq Logins
    /\ Scenarios \subseteq DOMAIN BodiesOf
    /\ \A s \in Scenarios : \A body \in BodiesOf[s] :
         "mode" \in DOMAIN body => body["mode"] \in Exchanges    \* @IsIn

VARIABLES
    callers,    \* the scenario of this behaviour
    stored,     \* the BotSettings row
    patch,      \* the await each PATCH is suspended at, and what it has read
    trading,    \* a call of approveLive: whether it has seen live settings
    tradeOpen,  \* there is a live_open trade
    together    \* history: pairs of fields one PATCH has written last

settingsVars == <<stored, patch, trading, tradeOpen, together>>

vars == <<authVars, clientVars, streamVars, callers, settingsVars>>

NoPatch ==
    [pc |-> "idle", token |-> Nobody, late |-> FALSE, actor |-> Nobody,
     body |-> <<>>, existing |-> <<>>, sawOpen |-> FALSE]

Init ==
    /\ AuthInit(Standing) /\ ClientInit /\ StreamInit
    /\ callers \in Scenarios
    /\ \E m \in Exchanges :
         stored = [f \in Fields |-> CASE f = "mode" -> m
                                      [] f = "realTradingEnabled" -> m = "live"
                                      [] OTHER -> SchemaDefaults[f]]
    /\ patch = [p \in Patches |-> NoPatch]
    /\ trading = FALSE /\ tradeOpen = FALSE
    /\ together = {}

PatchAt(p, pc) == patch[p].pc = pc
PatchGoto(p, pc) == patch' = [patch EXCEPT ![p].pc = pc]
PatchReturns(p) == patch' = [patch EXCEPT ![p] = NoPatch]

Critical(settings) == <<settings["mode"], settings["realTradingEnabled"]>>

\* What the later checks need of the settings that getSettings returned.
Seen == [f \in BlockedKeys |-> Serialized(stored)[f]]

-----------------------------------------------------------------------------
\* A PATCH arrives with the token of a login, which may have ended since.
SendPatch(p, l, body) ==
    /\ PatchAt(p, "idle")
    /\ LoginAt(l, "done")
    /\ patch' = [patch EXCEPT ![p].pc = "guard", ![p].token = l,
                              ![p].late = l \in ended, ![p].body = body]
    /\ UNCHANGED <<stored, trading, tradeOpen, together>>

\* AuthGuard, first await: is there a session?
Guard(p) ==
    /\ PatchAt(p, "guard")
    /\ IF ValidSession(patch[p].token) THEN PatchGoto(p, "address") ELSE PatchReturns(p)
    /\ UNCHANGED <<stored, trading, tradeOpen, together>>

\* Second await: whose?  Then the validation pipe sees the body.
GuardAddress(p) ==
    /\ PatchAt(p, "address")
    /\ IF ValidSession(patch[p].token) /\ WithinRanges(patch[p].body)
       THEN patch' = [patch EXCEPT ![p].pc = "read",
                                   ![p].actor = session[patch[p].token]]
       ELSE PatchReturns(p)
    /\ UNCHANGED <<stored, trading, tradeOpen, together>>

\* getSettings, then validateSettingsConsistency.
ReadExisting(p) ==
    /\ PatchAt(p, "read")
    /\ IF Consistent(patch[p].body)
       THEN patch' = [patch EXCEPT ![p].pc = "count", ![p].existing = Seen]
       ELSE PatchReturns(p)
    /\ UNCHANGED <<stored, trading, tradeOpen, together>>

\* assertNoUnsafeLiveMutation.
CountOpenTrades(p) ==
    /\ PatchAt(p, "count")
    /\ IF tradeOpen /\ Unsafe(patch[p].existing, patch[p].body)
       THEN PatchReturns(p)
       ELSE patch' = [patch EXCEPT ![p].pc = "write", ![p].sawOpen = tradeOpen]
    /\ UNCHANGED <<stored, trading, tradeOpen, together>>

\* Fields the instance does not follow are written to columns it leaves out.
WriteSettings(p) ==
    /\ PatchAt(p, "write")
    /\ LET new == Normalized(patch[p].body)
       IN /\ stored' = [f \in Fields |-> IF f \in DOMAIN new THEN new[f] ELSE stored[f]]
          /\ together' =
               {pair \in together : DOMAIN new \cap {pair[1], pair[2]} = {}}
                   \cup {pair \in Pairs : Names(new, pair)}
    /\ PatchReturns(p)
    /\ UNCHANGED <<trading, tradeOpen>>

PatchStep(p) ==
    Guard(p) \/ GuardAddress(p) \/ ReadExisting(p) \/ CountOpenTrades(p) \/ WriteSettings(p)

-----------------------------------------------------------------------------
(* approveLive and the closing of trades, as far as the settings see them. *)

SeeLiveSettings ==
    /\ ~trading /\ ~tradeOpen
    /\ Critical(stored) = <<"live", TRUE>>
    /\ trading' = TRUE
    /\ UNCHANGED <<stored, patch, tradeOpen, together>>

OpenTrade ==
    /\ trading
    /\ trading' = FALSE
    /\ tradeOpen' \in BOOLEAN
    /\ UNCHANGED <<stored, patch, together>>

CloseTrade ==
    /\ tradeOpen
    /\ tradeOpen' = FALSE
    /\ UNCHANGED <<stored, patch, trading, together>>

-----------------------------------------------------------------------------
(* A caller acts only in scenarios that name it. *)

\* Logins, logouts and the clock of redis.
AuthStep ==
    /\ \/ \E l \in Logins \cap callers :
            \/ \E w \in Wallets, n \in Nonces : BeginLogin(l, w, n)
            \/ LoginStep(l) \/ Logout(l) \/ SessionExpires(l)
       \/ \E w \in Wallets : NonceDropped(w)
       \/ Logins \cap callers # {} /\ \E w \in Wallets : GenerateNonce(w)
       \/ \E n \in Nonces : NonceAges(n)
    /\ UNCHANGED <<clientVars, streamVars, callers, settingsVars>>

SettingsStep ==
    /\ \/ \E p \in Patches \cap callers :
            \/ \E l \in Standing \cup (Logins \cap callers), body \in BodiesOf[callers] : SendPatch(p, l, body)
            \/ PatchStep(p)
       \/ "approveLive" \in callers /\ (SeeLiveSettings \/ OpenTrade \/ CloseTrade)
    /\ UNCHANGED <<authVars, clientVars, streamVars, callers>>

ClientCall(r) == CallGuarded(r) \/ CallBalance(r) \/ GetPositionMode(r)

ClientReturn(r) == ChooseBalance(r, stored["mode"] = "live") \/ RequestStep(r)

ClientStep ==
    /\ \/ \E r \in Requests \cap callers : ClientCall(r) \/ ClientReturn(r)
       \/ Tick
       \/ ModeExpires
    /\ UNCHANGED <<authVars, streamVars, callers, settingsVars>>

StreamStep ==
    /\ \/ \E u \in Supervisors \cap callers : Supervise(u) \/ SuperviseStep(u, stored["mode"])
       \/ SocketStep(stored["mode"])
    /\ UNCHANGED <<authVars, clientVars, callers, settingsVars>>

ListenKeyStep ==
    /\ UnguardedStep(stored["mode"])
    /\ UNCHANGED <<backoff, req, accidents, modeVars, authVars, callers, settingsVars>>

\* The process dies; the database and redis do not.
Restart ==
    /\ ClientDies /\ StreamDies
    /\ patch' = [p \in Patches |-> NoPatch] /\ trading' = FALSE
    /\ login' = [l \in Logins |-> IF login[l].pc \in {"idle", "done"} THEN login[l]
                                  ELSE [login[l] EXCEPT !.pc = "refused"]]
    /\ UNCHANGED <<nonce, aged, unissued, session, spent, ended, callers, stored,
                   tradeOpen, together>>

Next == AuthStep \/ SettingsStep \/ ClientStep \/ StreamStep \/ ListenKeyStep \/ Restart

Spec == Init /\ [][Next]_vars

\* Requests carry a timeout and are answered; the cron job fires; the clock goes
\* on.  A request for a key that is not refused succeeds now and then, and
\* Binance ends a socket whose key is gone: after a day at the latest.
Fairness ==
    /\ \A r \in Requests : WF_vars(ClientReturn(r) /\ ClientStep)
    /\ WF_vars(Tick /\ ClientStep)
    /\ \A u \in Supervisors :
         /\ WF_vars(Supervise(u) /\ StreamStep)
         /\ WF_vars(SuperviseStep(u, stored["mode"]) /\ StreamStep)
         /\ SF_vars(KeyIssued(u) /\ sup'[u] # "warn" /\ StreamStep)
         /\ WF_vars(KeyRefused(u) /\ ListenKeyStep)
    /\ \A s \in Sockets : WF_vars(socket[s] = "deaf" /\ SocketCloses(s) /\ StreamStep)

FairSpec == Spec /\ Fairness

-----------------------------------------------------------------------------
TypeOK ==
    /\ AuthTypeOK /\ ClientTypeOK /\ StreamTypeOK
    /\ callers \in Scenarios
    /\ DOMAIN stored = Fields /\ stored["mode"] \in Exchanges
    /\ \A p \in Patches :
         /\ patch[p].pc \in {"idle", "guard", "address", "read", "count", "write"}
         /\ patch[p].actor \in Wallets \cup {Nobody}
    /\ trading \in BOOLEAN /\ tradeOpen \in BOOLEAN
    /\ together \subseteq Pairs

\* Past the guard is only who showed the session of the allowed wallet, and
\* nobody whose logout had returned before the request came: the guard (24, 27)
\* and the logout (106) speak of the same key.
WriteIsAuthorised ==
    \A p \in Patches :
        patch[p].pc \in {"read", "count", "write"}
            => ~patch[p].late /\ patch[p].actor = AllowedWallet

\* "Cannot modify critical live-trading settings while live trades are open"
\* (634): this does happen, but only to a PATCH that counted no open trade, or
\* that compared its body with settings another PATCH has changed since (166).
UnsafeChangeHadCause ==
    [][Critical(stored') # Critical(stored) /\ tradeOpen
          => \E p \in Patches :
                /\ PatchAt(p, "write") /\ patch'[p].pc = "idle"
                /\ \/ ~patch[p].sawOpen
                   \/ Critical(patch[p].existing) # Critical(stored)]_vars

\* The comparisons of validateSettingsConsistency hold between what one PATCH
\* has written, whatever others were validated and written meanwhile.  Two
\* PATCHes that name one field of a pair each can break them.
WrittenTogetherFits ==
    \A pair \in together :
        {pair[1], pair[2]} \subseteq Fields => stored[pair[1]] <= stored[pair[2]]

\* The breaker never knows of a shorter ban than Binance has announced (145,
\* 151), in whatever order overlapping answers come in: what it does not know yet is
\* in an answer under way, or has got lost.
NothingForgotten ==
    \/ unaware
    \/ backoff >= ban
    \/ \E r \in Requests : req[r].pc = "answer" /\ BackoffTold(r) >= ban

\* A cached position mode that is not the account's stems from a failed read
\* (320), which is also what the breaker makes of a read during a ban.
WrongModeWasUnread == fresh /\ cached # account => misread

\* Nobody listens on a socket but the one teardown would close: overlapping
\* cron jobs and late close events do not leave a second one behind.
OneSocket == Attached = {ws} \ {NoSocket}

\* "The fix for a ban is to go completely silent until it lifts ... Every
\* request path (get() and signedRequest()) checks this before making a call"
\* (59-63): while the breaker knows of a ban, nothing is sent to Binance.  It is
\* violated: GET /balance in live mode and the requests for listen keys do not
\* ask, and a signed request asks before it awaits the settings.
SilentWhileBanned ==
    [][backoff > 0
          => /\ \A r \in Requests : req'[r].pc = "sent" => req[r].pc = "sent"
             /\ \A u \in Supervisors : sup'[u] = "live" => sup[u] = "live"]_vars

UnguardedRequest ==
    \/ ListenKeyStep
    \/ \E r \in Requests : KindOf[r] = "balance" /\ Arrive(r)

\* "The fix for a ban is to go completely silent until it lifts" (59-63): the
\* breaker brings that about, but for the requests that do not ask it.
BanEnds == []<>(ban = 0) \/ []<><<UnguardedRequest>>_vars

\* "Reconnects if a prior connection dropped" (50-54): in live mode there is a
\* working stream again and again, unless Binance bans the address or goes on
\* dropping keys (a late closeListenKey makes it do so).
StreamRecovers ==
    <>[](stored["mode"] = "live" /\ ban = 0) /\ callers \cap Supervisors # {}
        => \/ []<>(ws # NoSocket /\ socket[ws] = "live")
           \/ []<><<key /\ ~key'>>_vars

\* "Tears it down otherwise": out of live mode no socket stays.
StreamStops ==
    <>[](stored["mode"] # "live") /\ callers \cap Supervisors # {}
        => <>[](Attached = {})

=============================================================================
