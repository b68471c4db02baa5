--------------------------- MODULE BackendProofs ----------------------------
(***************************************************************************)
(* What is proved of a backend, for any number of requests, cron jobs,     *)
(* logins and PATCHes: its types and each safety property the runs check.  *)
(* Each part of the state changes in few of the steps, which the lemmas of *)
(* the first section tell; the sections after it take one part each.       *)
(***************************************************************************)
EXTENDS Backend, TLAPS

-----------------------------------------------------------------------------
(* Who changes what.                                                       *)

LEMMA AuthSteps ==
    [Next]_vars => AuthStep \/ Restart \/ UNCHANGED authVars
  BY DEF Next, vars, SettingsStep, ClientStep, StreamStep, ListenKeyStep

LEMMA ClientSteps ==
    [Next]_vars => ClientStep \/ ListenKeyStep \/ Restart \/ UNCHANGED clientVars
  BY DEF Next, vars, AuthStep, SettingsStep, StreamStep

LEMMA StreamSteps ==
    [Next]_vars => StreamStep \/ ListenKeyStep \/ Restart \/ UNCHANGED streamVars
  BY DEF Next, vars, AuthStep, SettingsStep, ClientStep

LEMMA SettingsSteps ==
    [Next]_vars => \/ SettingsStep
                   \/ Restart
                   \/ UNCHANGED settingsVars
  BY DEF Next, vars, AuthStep, ClientStep, StreamStep, ListenKeyStep

LEMMA CallersStay == [Next]_vars => callers' = callers
  BY DEF Next, vars, AuthStep, SettingsStep, ClientStep, StreamStep, ListenKeyStep, Restart

-----------------------------------------------------------------------------
(* Nonces and sessions.                                                    *)

\* A nonce is stored for one wallet and is neither used nor yet to come; so a
\* login about to delete its nonce deletes the only one there is.
NonceInv ==
    /\ AuthTypeOK
    /\ (spent \cup aged) \cap unissued = {}
    /\ \A w \in Wallets : nonce[w] \notin spent \cup unissued
    /\ \A v, w \in Wallets : v # w /\ nonce[v] # Nobody => nonce[v] # nonce[w]
    /\ \A l \in Logins :
         /\ login[l].dead \subseteq spent \cup aged
         /\ login[l].signed \notin unissued
         /\ login[l].pc = "delete" =>
              /\ login[l].signed # Nobody
              /\ \A w \in Wallets : w # login[l].wallet => nonce[w] # login[l].signed
    /\ NonceBuysOneLogin

\* The sessions that exist are the allowed wallet's and have not been ended.
SessionInv ==
    \A l \in Logins :
        /\ session[l] \in {Nobody, AllowedWallet}
        /\ login[l].pc \in {"delete", "store"} => login[l].wallet = AllowedWallet
        /\ l \in ended => login[l].pc = "done" /\ session[l] = Nobody

AuthInv == NonceInv /\ SessionInv

LEMMA InitAuthInv == Init => AuthInv
  BY AuthAssumption, BackendAssumption
     DEF Init, AuthInit, AuthInv, NonceInv, SessionInv, AuthTypeOK, Login, NonceBuysOneLogin

LEMMA GenerateNonceKeeps ==
    ASSUME AuthInv, NEW w \in Wallets, GenerateNonce(w)
    PROVE  AuthInv'
  BY AuthAssumption
     DEF GenerateNonce, AuthInv, NonceInv, SessionInv, AuthTypeOK, Login, NonceBuysOneLogin

LEMMA NonceEndsKeeps ==
    ASSUME AuthInv,
           (\E n \in Nonces : NonceAges(n)) \/ (\E w \in Wallets : NonceDropped(w))
    PROVE  AuthInv'
  BY AuthAssumption
     DEF NonceAges, NonceDropped, AuthInv, NonceInv, SessionInv, AuthTypeOK, Login,
         NonceBuysOneLogin

LEMMA BeginLoginKeeps ==
    ASSUME AuthInv, NEW l \in Logins, NEW w \in Wallets, NEW n \in Nonces, BeginLogin(l, w, n)
    PROVE  AuthInv'
  BY AuthAssumption
     DEF BeginLogin, LoginAt, AuthInv, NonceInv, SessionInv, AuthTypeOK, Login,
         NonceBuysOneLogin

\* The step that decides: the nonce read here is the one signed, and was used by
\* nobody when the login began.
LEMMA CheckNonceKeeps ==
    ASSUME AuthInv, NEW l \in Logins, CheckNonce(l)
    PROVE  AuthInv'
  BY AuthAssumption
     DEF CheckNonce, LoginAt, LoginGoto, AuthInv, NonceInv, SessionInv, AuthTypeOK, Login,
         NonceBuysOneLogin

LEMMA DropNonceKeeps ==
    ASSUME AuthInv, NEW l \in Logins, DropNonce(l)
    PROVE  AuthInv'
  BY AuthAssumption
     DEF DropNonce, LoginAt, LoginGoto, AuthInv, NonceInv, SessionInv, AuthTypeOK, Login,
         NonceBuysOneLogin

LEMMA DeleteNonceKeeps ==
    ASSUME AuthInv, NEW l \in Logins, DeleteNonce(l)
    PROVE  AuthInv'
  BY AuthAssumption
     DEF DeleteNonce, LoginAt, LoginGoto, AuthInv, NonceInv, SessionInv, AuthTypeOK, Login,
         NonceBuysOneLogin

LEMMA SessionStepsKeep ==
    ASSUME AuthInv, NEW l \in Logins, StoreSession(l) \/ Logout(l) \/ SessionExpires(l)
    PROVE  AuthInv'
  BY AuthAssumption
     DEF StoreSession, Logout, SessionExpires, LoginAt, LoginGoto, AuthInv, NonceInv,
         SessionInv, AuthTypeOK, Login, NonceBuysOneLogin

LEMMA RestartKeepsAuthInv == AuthInv /\ Restart => AuthInv'
  BY AuthAssumption
     DEF Restart, AuthInv, NonceInv, SessionInv, AuthTypeOK, Login, NonceBuysOneLogin

LEMMA NextAuthInv == AuthInv /\ [Next]_vars => AuthInv'
<1> SUFFICES ASSUME AuthInv, [Next]_vars PROVE AuthInv'
  OBVIOUS
<1>1. CASE AuthStep
  BY <1>1, GenerateNonceKeeps, NonceEndsKeeps, BeginLoginKeeps, CheckNonceKeeps,
     DropNonceKeeps, DeleteNonceKeeps, SessionStepsKeep DEF AuthStep, LoginStep
<1>2. CASE Restart
  BY <1>2, RestartKeepsAuthInv
<1>3. CASE UNCHANGED authVars
  BY <1>3 DEF authVars, AuthInv, NonceInv, SessionInv, AuthTypeOK, NonceBuysOneLogin
<1>4. QED  BY <1>1, <1>2, <1>3, AuthSteps

\* A login that begins after its nonce was used, or has expired, gets no session,
\* whatever other logins, nonces and restarts do in between.
THEOREM NonceGoodForOneLogin == Spec => []NonceBuysOneLogin
<1>1. AuthInv => NonceBuysOneLogin  BY DEF AuthInv, NonceInv
<1>2. QED  BY InitAuthInv, NextAuthInv, <1>1, PTL DEF Spec

-----------------------------------------------------------------------------
(* PATCHes of the settings.                                                *)

\* What a PATCH under way has been found to be.  A token that came too late has
\* ended, and what was counted and compared was compared with one reading.
PatchOK(v) ==
    /\ v \in [pc : {"idle", "guard", "address", "read", "count", "write"},
              token : Logins \cup {Nobody}, late : BOOLEAN, actor : Wallets \cup {Nobody},
              body : {v.body}, existing : {v.existing}, sawOpen : BOOLEAN]
    /\ v.pc # "idle" =>
         /\ v.token \in Logins
         /\ v.late => v.token \in ended
         /\ "mode" \in DOMAIN v.body => v.body["mode"] \in Exchanges
    /\ v.pc \in {"read", "count", "write"} => ~v.late /\ v.actor = AllowedWallet
    /\ v.pc \in {"count", "write"} =>
         /\ Consistent(v.body)
         /\ v.existing["enableRealTrading"] = v.existing["realTradingEnabled"]
    /\ v.pc = "write" /\ v.sawOpen => ~Unsafe(v.existing, v.body)

PatchInv ==
    /\ patch = [p \in Patches |-> patch[p]]
    /\ \A p \in Patches : PatchOK(patch[p])

StoredInv ==
    /\ stored = [f \in Fields |-> stored[f]]
    /\ stored["mode"] \in Exchanges
    /\ callers \in Scenarios
    /\ trading \in BOOLEAN /\ tradeOpen \in BOOLEAN
    /\ together \subseteq Pairs

\* The pairs of fields are columns, which normalizing leaves as they are.
LEMMA NormalizedKeeps ==
    ASSUME NEW body, NEW f,
           f \notin Aliases \cup {"realTradingEnabled", "requireDashboardConfirmation"}
    PROVE  /\ f \in DOMAIN Normalized(body) <=> f \in DOMAIN body
           /\ f \in DOMAIN body => Normalized(body)[f] = body[f]
  BY DEF Normalized, Aliases

\* The alias of real trading wins over the column.
LEMMA NormalizedRealTrading ==
    ASSUME NEW body
    PROVE  LET new == Normalized(body)
               f == "realTradingEnabled"
           IN /\ f \in DOMAIN new <=> {f, "enableRealTrading"} \cap DOMAIN body # {}
              /\ "enableRealTrading" \in DOMAIN body => new[f] = body["enableRealTrading"]
              /\ "enableRealTrading" \notin DOMAIN body /\ f \in DOMAIN body
                   => new[f] = body[f]
  BY DEF Normalized, Aliases

\* What getSettings returns: the alias repeats the column.
LEMMA SeenSettings ==
    ASSUME StoredInv
    PROVE  /\ Seen["mode"] = stored["mode"]
           /\ Seen["realTradingEnabled"] = stored["realTradingEnabled"]
           /\ Seen["enableRealTrading"] = stored["realTradingEnabled"]
<1>1. DOMAIN stored = Fields
  BY DEF StoredInv
<1>2. {"mode", "realTradingEnabled"} \subseteq Fields
  BY BackendAssumption
<1>3. /\ Serialized(stored)["mode"] = stored["mode"]
      /\ Serialized(stored)["realTradingEnabled"] = stored["realTradingEnabled"]
      /\ Serialized(stored)["enableRealTrading"] = stored["realTradingEnabled"]
  BY <1>1, <1>2 DEF Serialized, Aliases
<1>4. QED  BY <1>3 DEF Seen, BlockedKeys

\* The pairs are compared column by column.
LEMMA PairsAreColumns ==
    ASSUME NEW pair \in Pairs, NEW f \in {pair[1], pair[2]}
    PROVE  f \notin Aliases \cup {"realTradingEnabled", "requireDashboardConfirmation"}
  BY DEF Pairs, Aliases

LEMMA ConsistentStays ==
    ASSUME NEW body, Consistent(body), NEW pair \in Pairs, Names(Normalized(body), pair)
    PROVE  Normalized(body)[pair[1]] <= Normalized(body)[pair[2]]
<1>1. /\ pair[1] \in DOMAIN body /\ Normalized(body)[pair[1]] = body[pair[1]]
      /\ pair[2] \in DOMAIN body /\ Normalized(body)[pair[2]] = body[pair[2]]
  BY PairsAreColumns, NormalizedKeeps DEF Names
<1>2. QED  BY <1>1 DEF Consistent, Names

PatchTyped == AuthInv /\ PatchInv /\ StoredInv

\* A logout is never undone.
LEMMA EndedStays == [Next]_vars => ended \subseteq ended'
<1>1. AuthStep => ended \subseteq ended'
  BY DEF AuthStep, LoginStep, BeginLogin, CheckNonce, DropNonce, DeleteNonce, StoreSession,
         Logout, SessionExpires, NonceDropped, GenerateNonce, NonceAges
<1>2. QED  BY <1>1, AuthSteps DEF Restart, authVars

\* A step of one PATCH: what it becomes decides.
LEMMA OnePatchChanges ==
    ASSUME PatchTyped, NEW p \in Patches, NEW v, PatchOK(v), ended \subseteq ended',
           patch' = [patch EXCEPT ![p] = v]
    PROVE  PatchInv'
<1>1. patch' = [q \in Patches |-> IF q = p THEN v ELSE patch[q]]
  BY DEF PatchTyped, PatchInv
<1>2. \A u : PatchOK(u) => PatchOK(u)'
  BY DEF PatchOK
<1>3. QED  BY <1>1, <1>2 DEF PatchTyped, PatchInv

LEMMA NoPatchIsOK == PatchOK(NoPatch)
  BY AuthAssumption DEF PatchOK, NoPatch

LEMMA InitPatchTyped == Init => PatchTyped
<1> SUFFICES ASSUME Init PROVE PatchTyped
  OBVIOUS
<1>1. PatchInv
  BY NoPatchIsOK DEF Init, PatchInv
<1>2. StoredInv
  BY BackendAssumption DEF Init, StoredInv
<1>3. QED  BY <1>1, <1>2, InitAuthInv DEF PatchTyped

\* Each step of a PATCH; a PATCH that returns leaves nothing behind.
LEMMA ReturnKeeps ==
    ASSUME PatchTyped, NEW p \in Patches, PatchReturns(p), ended \subseteq ended'
    PROVE  PatchInv'
  BY NoPatchIsOK, OnePatchChanges DEF PatchReturns

LEMMA SendPatchKeeps ==
    ASSUME PatchTyped, NEW p \in Patches, NEW l \in Logins, NEW body \in BodiesOf[callers],
           SendPatch(p, l, body), ended \subseteq ended'
    PROVE  PatchInv'
<1> DEFINE late == l \in ended
           v == [patch[p] EXCEPT !.pc = "guard", !.token = l, !.late = late, !.body = body]
<1>1. "mode" \in DOMAIN body => body["mode"] \in Exchanges
  BY BackendAssumption DEF PatchTyped, StoredInv
<1>2. late \in BOOLEAN /\ (late => l \in ended)
  OBVIOUS
<1>3. patch' = [patch EXCEPT ![p] = v]
  BY DEF SendPatch
<1> HIDE DEF late
<1>4. PatchOK(v)
  BY <1>1, <1>2 DEF PatchOK, PatchTyped, PatchInv
<1> HIDE DEF v
<1>5. QED  BY <1>3, <1>4, OnePatchChanges

\* Both awaits of the guard: who has no session, or one that ended, is refused.
LEMMA GuardKeeps ==
    ASSUME PatchTyped, NEW p \in Patches, Guard(p) \/ GuardAddress(p), ended \subseteq ended'
    PROVE  PatchInv'
<1>1. PatchOK(patch[p])
  BY DEF PatchTyped, PatchInv
<1>2. CASE PatchReturns(p)
  BY <1>2, ReturnKeeps
<1>3. CASE Guard(p) /\ PatchGoto(p, "address")
  <2>1. PatchOK([patch[p] EXCEPT !.pc = "address"])
    BY <1>1, <1>3 DEF PatchOK, Guard, PatchAt
  <2>2. patch' = [patch EXCEPT ![p] = [patch[p] EXCEPT !.pc = "address"]]
    BY <1>3 DEF PatchGoto
  <2>3. QED  BY <2>1, <2>2, OnePatchChanges
<1>4. CASE GuardAddress(p) /\ ~PatchReturns(p)
  <2> DEFINE v == [patch[p] EXCEPT !.pc = "read", !.actor = session[patch[p].token]]
  <2>1. ValidSession(patch[p].token) /\ patch[p].pc = "address"
    BY <1>4 DEF GuardAddress, PatchAt
  <2>2. patch' = [patch EXCEPT ![p] = v]
    BY <1>4 DEF GuardAddress
  <2>3. session[patch[p].token] = AllowedWallet /\ ~patch[p].late
    BY <1>1, <2>1 DEF PatchOK, PatchTyped, AuthInv, SessionInv, ValidSession
  <2>4. PatchOK(v)
    BY <1>1, <2>1, <2>3, AuthAssumption DEF PatchOK
  <2> HIDE DEF v
  <2>5. QED  BY <2>2, <2>4, OnePatchChanges
<1>5. QED  BY <1>2, <1>3, <1>4 DEF Guard

\* getSettings and the comparisons of the body.
LEMMA ReadExistingKeeps ==
    ASSUME PatchTyped, NEW p \in Patches, ReadExisting(p), ended \subseteq ended'
    PROVE  PatchInv'
<1>1. PatchOK(patch[p])
  BY DEF PatchTyped, PatchInv
<1>2. CASE PatchReturns(p)
  BY <1>2, ReturnKeeps
<1>3. CASE ~PatchReturns(p)
  <2> DEFINE v == [patch[p] EXCEPT !.pc = "count", !.existing = Seen]
  <2>1. Consistent(patch[p].body) /\ patch[p].pc = "read"
    BY <1>3 DEF ReadExisting, PatchAt
  <2>2. patch' = [patch EXCEPT ![p] = v]
    BY <1>3 DEF ReadExisting
  <2>3. Seen["enableRealTrading"] = Seen["realTradingEnabled"]
    BY SeenSettings DEF PatchTyped
  <2>4. PatchOK(v)
    BY <1>1, <2>1, <2>3 DEF PatchOK
  <2> HIDE DEF v
  <2>5. QED  BY <2>2, <2>4, OnePatchChanges
<1>4. QED  BY <1>2, <1>3

\* assertNoUnsafeLiveMutation.
LEMMA CountKeeps ==
    ASSUME PatchTyped, NEW p \in Patches, CountOpenTrades(p), ended \subseteq ended'
    PROVE  PatchInv'
<1>1. PatchOK(patch[p])
  BY DEF PatchTyped, PatchInv
<1>2. CASE PatchReturns(p)
  BY <1>2, ReturnKeeps
<1>3. CASE ~PatchReturns(p)
  <2> DEFINE v == [patch[p] EXCEPT !.pc = "write", !.sawOpen = tradeOpen]
  <2>1. ~(tradeOpen /\ Unsafe(patch[p].existing, patch[p].body)) /\ patch[p].pc = "count"
    BY <1>3 DEF CountOpenTrades, PatchAt
  <2>2. patch' = [patch EXCEPT ![p] = v]
    BY <1>3 DEF CountOpenTrades
  <2>3. PatchOK(v)
    BY <1>1, <2>1 DEF PatchOK, PatchTyped, StoredInv
  <2> HIDE DEF v
  <2>4. QED  BY <2>2, <2>3, OnePatchChanges
<1>4. QED  BY <1>2, <1>3

\* Only the write changes the row; everything else leaves StoredInv alone.
LEMMA WriteKeepsStored ==
    ASSUME PatchTyped, NEW p \in Patches, WriteSettings(p), callers' = callers
    PROVE  StoredInv'
<1> DEFINE body == patch[p].body
<1>1. patch[p].pc = "write" /\ PatchOK(patch[p])
  BY DEF WriteSettings, PatchAt, PatchTyped, PatchInv
<1>2. stored' = [f \in Fields |-> IF f \in DOMAIN Normalized(body) THEN Normalized(body)[f]
                                                                  ELSE stored[f]]
  BY DEF WriteSettings
<1>3. "mode" \in DOMAIN Normalized(body) => Normalized(body)["mode"] \in Exchanges
  BY <1>1, NormalizedKeeps DEF PatchOK, Aliases
<1>4. "mode" \in Fields
  BY BackendAssumption
<1>5. together' \subseteq Pairs
  BY DEF WriteSettings, PatchTyped, StoredInv
<1>6. UNCHANGED <<trading, tradeOpen>>
  BY DEF WriteSettings
<1> HIDE DEF body
<1>7. QED  BY <1>2, <1>3, <1>4, <1>5, <1>6 DEF PatchTyped, StoredInv

\* No other step touches the row or a PATCH, except that a restart ends them.
LEMMA NextPatchTyped == PatchTyped /\ [Next]_vars => PatchTyped'
<1> SUFFICES ASSUME PatchTyped, [Next]_vars PROVE PatchTyped'
  OBVIOUS
<1>1. AuthInv' /\ ended \subseteq ended' /\ callers' = callers
  BY NextAuthInv, EndedStays, CallersStay DEF PatchTyped
<1>2. CASE SettingsStep
  <2>1. ASSUME NEW p \in Patches, NEW l \in Logins, NEW body \in BodiesOf[callers],
               SendPatch(p, l, body)
        PROVE  PatchInv' /\ StoredInv'
    BY <1>1, <2>1, SendPatchKeeps DEF SendPatch, PatchTyped, StoredInv
  <2>2. ASSUME NEW p \in Patches, Guard(p) \/ GuardAddress(p)
        PROVE  PatchInv' /\ StoredInv'
    BY <1>1, <2>2, GuardKeeps DEF Guard, GuardAddress, PatchTyped, StoredInv
  <2>3. ASSUME NEW p \in Patches, ReadExisting(p)
        PROVE  PatchInv' /\ StoredInv'
    BY <1>1, <2>3, ReadExistingKeeps DEF ReadExisting, PatchTyped, StoredInv
  <2>4. ASSUME NEW p \in Patches, CountOpenTrades(p)
        PROVE  PatchInv' /\ StoredInv'
    BY <1>1, <2>4, CountKeeps DEF CountOpenTrades, PatchTyped, StoredInv
  <2>5. ASSUME NEW p \in Patches, WriteSettings(p)
        PROVE  PatchInv' /\ StoredInv'
    <3>1. PatchReturns(p)
      BY <2>5 DEF WriteSettings
    <3>2. QED  BY <1>1, <2>5, <3>1, ReturnKeeps, WriteKeepsStored
  <2>6. CASE SeeLiveSettings \/ OpenTrade \/ CloseTrade
    <3>1. patch' = patch /\ StoredInv'
      BY <1>1, <2>6 DEF SeeLiveSettings, OpenTrade, CloseTrade, PatchTyped, StoredInv
    <3>2. \A u : PatchOK(u) => PatchOK(u)'
      BY <1>1 DEF PatchOK
    <3>3. PatchInv
      BY DEF PatchTyped
    <3>4. PatchInv'
      BY <3>1, <3>2, <3>3 DEF PatchInv
    <3>5. QED  BY <1>1, <3>1, <3>4 DEF PatchTyped
  <2>7. QED
    BY <1>1, <1>2, <2>1, <2>2, <2>3, <2>4, <2>5, <2>6, BackendAssumption
       DEF SettingsStep, PatchStep, PatchTyped
<1>3. CASE Restart
  <2>1. PatchOK(NoPatch)'
    BY AuthAssumption DEF PatchOK, NoPatch
  <2>2. patch' = [p \in Patches |-> NoPatch]
    BY <1>3 DEF Restart
  <2>3. PatchInv'
    BY <2>1, <2>2 DEF PatchInv
  <2>4. QED  BY <1>1, <1>3, <2>3 DEF Restart, PatchTyped, StoredInv
<1>4. CASE UNCHANGED settingsVars
  <2>1. \A u : PatchOK(u) => PatchOK(u)'
    BY <1>1 DEF PatchOK
  <2>2. PatchInv' /\ StoredInv'
    BY <1>1, <1>4, <2>1 DEF settingsVars, PatchTyped, PatchInv, StoredInv
  <2>3. QED  BY <1>1, <2>2 DEF PatchTyped
<1>5. QED  BY <1>2, <1>3, <1>4, SettingsSteps

\* Who writes the settings has shown the session of the allowed wallet after the
\* request began, and no logout of it had returned when the request was sent.
THEOREM WritesAreAuthorised == Spec => []WriteIsAuthorised
<1>1. PatchTyped => WriteIsAuthorised
  BY DEF PatchTyped, PatchInv, PatchOK, WriteIsAuthorised
<1>2. QED  BY InitPatchTyped, NextPatchTyped, <1>1, PTL DEF Spec

\* With trades open, mode and real trading change only by a PATCH that counted
\* none, or that compared its body with settings changed since (622-637).
THEOREM UnsafeChangesHaveCause == Spec => UnsafeChangeHadCause
<1> DEFINE Cause ==
      Critical(stored') # Critical(stored) /\ tradeOpen
          => \E p \in Patches :
                /\ PatchAt(p, "write") /\ patch'[p].pc = "idle"
                /\ \/ ~patch[p].sawOpen
                   \/ Critical(patch[p].existing) # Critical(stored)
<1>1. ASSUME PatchTyped, [Next]_vars PROVE Cause
  <2>1. ASSUME NEW p \in Patches, WriteSettings(p)
        PROVE  \/ Critical(stored') = Critical(stored)
               \/ /\ PatchAt(p, "write") /\ patch'[p].pc = "idle"
                  /\ \/ ~patch[p].sawOpen
                     \/ Critical(patch[p].existing) # Critical(stored)
    <3> DEFINE body == patch[p].body
               existing == patch[p].existing
               new == Normalized(body)
    <3> SUFFICES ASSUME patch[p].sawOpen, Critical(existing) = Critical(stored)
                 PROVE  Critical(stored') = Critical(stored)
      <4>1. PatchAt(p, "write")
        BY <2>1 DEF WriteSettings
      <4>2. patch'[p].pc = "idle"
        BY <1>1, <2>1 DEF WriteSettings, PatchReturns, NoPatch, PatchTyped, PatchInv
      <4>3. QED  BY <4>1, <4>2
    <3>1. patch[p].pc = "write" /\ PatchOK(patch[p])
      BY <1>1, <2>1 DEF WriteSettings, PatchAt, PatchTyped, PatchInv
    <3>2. /\ ~Unsafe(existing, body)
          /\ existing["enableRealTrading"] = existing["realTradingEnabled"]
      BY <3>1 DEF PatchOK
    <3>3. /\ existing["mode"] = stored["mode"]
          /\ existing["realTradingEnabled"] = stored["realTradingEnabled"]
      BY DEF Critical
    <3>4. "mode" \in DOMAIN new => new["mode"] = stored["mode"]
      BY <3>2, <3>3, NormalizedKeeps DEF Unsafe, BlockedKeys, Aliases
    <3>5. "realTradingEnabled" \in DOMAIN new
            => new["realTradingEnabled"] = stored["realTradingEnabled"]
      BY <3>2, <3>3, NormalizedRealTrading DEF Unsafe, BlockedKeys
    <3>6. stored' = [f \in Fields |-> IF f \in DOMAIN new THEN new[f] ELSE stored[f]]
      BY <2>1 DEF WriteSettings
    <3> HIDE DEF new, existing, body
    <3>7. QED  BY <3>4, <3>5, <3>6, BackendAssumption DEF Critical
  <2>2. stored' = stored \/ \E p \in Patches : WriteSettings(p)
    BY <1>1, SettingsSteps
       DEF SettingsStep, PatchStep, SendPatch, Guard, GuardAddress, ReadExisting,
           CountOpenTrades, SeeLiveSettings, OpenTrade, CloseTrade, Restart, settingsVars
  <2>3. QED  BY <2>1, <2>2 DEF Critical
<1>2. QED
  BY InitPatchTyped, NextPatchTyped, <1>1, PTL DEF Spec, UnsafeChangeHadCause

\* Fields that one PATCH wrote together still compare as it was validated.
THEOREM TogetherFits == Spec => []WrittenTogetherFits
<1>1. Init => WrittenTogetherFits
  BY DEF Init, WrittenTogetherFits
<1>2. PatchTyped /\ WrittenTogetherFits /\ [Next]_vars => WrittenTogetherFits'
  <2> SUFFICES ASSUME PatchTyped, WrittenTogetherFits, [Next]_vars
               PROVE  WrittenTogetherFits'
    OBVIOUS
  <2>1. ASSUME NEW p \in Patches, WriteSettings(p) PROVE WrittenTogetherFits'
    <3> DEFINE new == Normalized(patch[p].body)
    <3> SUFFICES ASSUME NEW pair \in together', {pair[1], pair[2]} \subseteq Fields
                 PROVE  stored'[pair[1]] <= stored'[pair[2]]
      BY DEF WrittenTogetherFits
    <3>1. Consistent(patch[p].body)
      BY <2>1 DEF WriteSettings, PatchAt, PatchTyped, PatchInv, PatchOK
    <3>2. stored' = [f \in Fields |-> IF f \in DOMAIN new THEN new[f] ELSE stored[f]]
      BY <2>1 DEF WriteSettings
    <3>3. CASE pair \in Pairs /\ Names(new, pair)
      <4>1. new[pair[1]] <= new[pair[2]]
        BY <3>1, <3>3, ConsistentStays
      <4>2. QED  BY <3>2, <3>3, <4>1 DEF Names
    <3>4. CASE pair \in together /\ DOMAIN new \cap {pair[1], pair[2]} = {}
      BY <3>2, <3>4 DEF WrittenTogetherFits
    <3>5. QED  BY <2>1, <3>3, <3>4 DEF WriteSettings
  <2>2. UNCHANGED <<stored, together>> \/ \E p \in Patches : WriteSettings(p)
    BY SettingsSteps
       DEF SettingsStep, PatchStep, SendPatch, Guard, GuardAddress, ReadExisting,
           CountOpenTrades, SeeLiveSettings, OpenTrade, CloseTrade, Restart, settingsVars
  <2>3. QED  BY <2>1, <2>2 DEF WrittenTogetherFits
<1>3. QED  BY InitPatchTyped, NextPatchTyped, <1>1, <1>2, PTL DEF Spec

-----------------------------------------------------------------------------
(* The requests to Binance and its bans.                                   *)

\* What was read of the position mode and is not remembered yet is right.
ModeInv ==
    \A r \in Requests :
        KindOf[r] = "mode" /\ req[r].pc = "answer" /\ req[r].says \in Modes
            => req[r].says = account

ClientInv == ClientTypeOK /\ NothingForgotten /\ ModeInv /\ WrongModeWasUnread

LEMMA InitClientInv == Init => ClientInv
<1> SUFFICES ASSUME Init PROVE ClientInv
  OBVIOUS
<1>1. ClientTypeOK
  <2>1. Idle \in Request
    BY ClientAssumption DEF Idle, Request
  <2>2. ban \in 0..MaxBan /\ backoff \in 0..MaxBan /\ accidents \in 0..MaxAccidents
    BY ClientAssumption DEF Init, ClientInit
  <2>3. req \in [Requests -> Request]
    BY <2>1 DEF Init, ClientInit
  <2>4. QED  BY <2>2, <2>3 DEF Init, ClientInit, ClientTypeOK
<1>2. NothingForgotten /\ ModeInv /\ WrongModeWasUnread
  BY DEF Init, ClientInit, NothingForgotten, ModeInv, WrongModeWasUnread, Idle
<1>3. QED  BY <1>1, <1>2 DEF ClientInv

\* A request under a ban prolongs it, others may start one; it ends nowhere but
\* in Tick.
LEMMA LimitsAreBounded ==
    ASSUME ClientTypeOK
    PROVE  LimitsOnRequest \subseteq 0..MaxBan
  BY ClientAssumption DEF LimitsOnRequest, Smaller, ClientTypeOK

LEMMA CallsKeep ==
    ASSUME ClientInv, NEW r \in Requests,
           CallGuarded(r) \/ CallBalance(r) \/ ReadSettings(r)
    PROVE  ClientInv'
  BY ClientAssumption
     DEF CallGuarded, CallBalance, ReadSettings, Goto, banVars, modeVars, ClientInv,
         ClientTypeOK, NothingForgotten, BackoffTold, ModeInv, WrongModeWasUnread, Request

LEMMA ChooseBalanceKeeps ==
    ASSUME ClientInv, NEW r \in Requests, NEW live \in BOOLEAN, ChooseBalance(r, live)
    PROVE  ClientInv'
  BY ClientAssumption
     DEF ChooseBalance, banVars, modeVars, ClientInv, ClientTypeOK, NothingForgotten,
         BackoffTold, ModeInv, WrongModeWasUnread, Request, Idle

LEMMA GetPositionModeKeeps ==
    ASSUME ClientInv, NEW r \in Requests, GetPositionMode(r)
    PROVE  ClientInv'
  BY ClientAssumption
     DEF GetPositionMode, Remember, Goto, banVars, modeVars, ClientInv, ClientTypeOK,
         NothingForgotten, BackoffTold, ModeInv, WrongModeWasUnread, Request, Modes

\* An answer under way tells of a ban at least as long as the one it caused.
LEMMA ArriveKeeps ==
    ASSUME ClientInv, NEW r \in Requests, Arrive(r)
    PROVE  ClientInv'
<1> PICK n \in LimitsOnRequest :
      /\ ban' = n
      /\ \E answer \in IF n = 0 THEN Answers(r) ELSE Announcements(n) :
           req' = [req EXCEPT ![r] = answer]
  BY DEF Arrive
<1>1. PICK answer \in IF n = 0 THEN Answers(r) ELSE Announcements(n) :
        ban' = n /\ req' = [req EXCEPT ![r] = answer]
  OBVIOUS
<1>2. n \in 0..MaxBan
  BY LimitsAreBounded DEF ClientInv
<1>3. answer \in Request
  BY <1>2, ClientAssumption
     DEF Answers, Announcements, Request, Modes, BanSays, ClientInv, ClientTypeOK
<1>4. req \in [Requests -> Request] /\ req'[r] = answer
  BY <1>1 DEF ClientInv, ClientTypeOK
<1>5. /\ unaware' = FALSE
      /\ UNCHANGED <<backoff, accidents, cached, fresh, account, misread>>
  BY DEF Arrive, modeVars
<1>6. ClientTypeOK'
  BY <1>1, <1>2, <1>3, <1>5 DEF ClientInv, ClientTypeOK
<1>7. NothingForgotten'
  <2>1. CASE n = 0
    BY <1>1, <1>5, <2>1 DEF ClientInv, ClientTypeOK, NothingForgotten
  <2>2. CASE n # 0
    <3>1. answer.pc = "answer" /\ \/ answer.says = "until" /\ answer.told = n
                                  \/ answer.says = "vague" /\ n <= DefaultBackoff
      BY <1>1, <2>2 DEF Announcements
    <3>2. BackoffTold(r)' >= n
      BY <1>2, <1>4, <3>1, ClientAssumption DEF BackoffTold
    <3>3. QED  BY <1>1, <1>4, <3>1, <3>2 DEF NothingForgotten
  <2>3. QED  BY <2>1, <2>2
<1>8. answer.says \in Modes /\ KindOf[r] = "mode" => answer.says = account
  BY <1>1 DEF Answers, Announcements, Modes
<1>9. ModeInv' /\ WrongModeWasUnread'
  BY <1>1, <1>4, <1>5, <1>8 DEF ClientInv, ModeInv, WrongModeWasUnread
<1>10. QED  BY <1>6, <1>7, <1>9 DEF ClientInv

LEMMA ArriveUnansweredKeeps ==
    ASSUME ClientInv, NEW r \in Requests, ArriveUnanswered(r)
    PROVE  ClientInv'
<1>1. ban' \in 0..MaxBan
  BY LimitsAreBounded DEF ArriveUnanswered, ClientInv
<1>2. ClientTypeOK'
  BY <1>1, ClientAssumption
     DEF ArriveUnanswered, modeVars, ClientInv, ClientTypeOK, Request
<1>3. NothingForgotten'
  <2>1. backoff' = backoff /\ backoff \in Nat /\ ban' \in Nat
    BY <1>1, ClientAssumption DEF ArriveUnanswered, ClientInv, ClientTypeOK
  <2>2. unaware' = (ban' > 0)
    BY DEF ArriveUnanswered
  <2>3. CASE ban' > 0
    BY <2>2, <2>3 DEF NothingForgotten
  <2>4. CASE ~(ban' > 0)
    BY <2>1, <2>4 DEF NothingForgotten
  <2>5. QED  BY <2>3, <2>4
<1>4. ModeInv' /\ WrongModeWasUnread'
  BY DEF ArriveUnanswered, modeVars, ClientInv, ClientTypeOK, ModeInv, WrongModeWasUnread,
         Modes
<1>5. QED  BY <1>2, <1>3, <1>4 DEF ClientInv

\* handleError takes the longer of what it knows and what it is told.
LEMMA ReturnAnswerKeeps ==
    ASSUME ClientInv, NEW r \in Requests, Return(r)
    PROVE  ClientInv'
<1>1. /\ backoff' = Larger(backoff, BackoffTold(r)) /\ ban' = ban /\ unaware' = unaware
      /\ req' = [req EXCEPT ![r] = Idle] /\ req \in [Requests -> Request]
      /\ account' = account /\ accidents' = accidents
  BY DEF Return, HandleError, Remember, banVars, modeVars, ClientInv, ClientTypeOK
<1>2. BackoffTold(r) \in 0..MaxBan
  BY <1>1, ClientAssumption DEF BackoffTold, Request
<1>3. /\ backoff' \in 0..MaxBan /\ backoff' >= backoff /\ backoff' >= BackoffTold(r)
  BY <1>1, <1>2 DEF Larger, ClientInv, ClientTypeOK
<1>4. /\ cached' \in Modes \cup {"none"}
      /\ fresh' \in BOOLEAN /\ misread' \in BOOLEAN
  BY DEF Return, Remember, modeVars, ClientInv, ClientTypeOK, Modes
<1>5. ClientTypeOK'
  <2>1. Idle \in Request
    BY ClientAssumption DEF Idle, Request
  <2>2. QED  BY <1>1, <1>3, <1>4, <2>1 DEF ClientInv, ClientTypeOK
<1>6. NothingForgotten'
  <2>1. CASE unaware \/ backoff >= ban
    BY <1>1, <1>3, <2>1 DEF NothingForgotten, ClientInv, ClientTypeOK
  <2>2. ASSUME NEW q \in Requests, req[q].pc = "answer", BackoffTold(q) >= ban
        PROVE  NothingForgotten'
    <3>1. CASE q = r
      BY <1>1, <1>2, <1>3, <2>2, <3>1 DEF NothingForgotten, ClientInv, ClientTypeOK
    <3>2. CASE q # r
      BY <1>1, <2>2, <3>2 DEF NothingForgotten, BackoffTold
    <3>3. QED  BY <3>1, <3>2
  <2>3. QED  BY <2>1, <2>2 DEF ClientInv, NothingForgotten
<1>7. ModeInv'
  BY <1>1 DEF ClientInv, ModeInv, Idle, Modes
<1>8. WrongModeWasUnread'
  BY DEF Return, Remember, modeVars, ClientInv, ModeInv, WrongModeWasUnread
<1>9. QED  BY <1>5, <1>6, <1>7, <1>8 DEF ClientInv

\* A unit passes only while no answer is under way.
LEMMA TimeKeeps ==
    ASSUME ClientInv, Tick \/ ModeExpires
    PROVE  ClientInv'
<1>1. CASE Tick
  <2>1. ClientTypeOK'
    <3>1. ban' \in 0..MaxBan /\ backoff' \in 0..MaxBan
      BY <1>1, ClientAssumption DEF Tick, Before, ClientInv, ClientTypeOK
    <3>2. unaware' \in BOOLEAN
      BY <1>1 DEF Tick
    <3>3. QED  BY <1>1, <3>1, <3>2 DEF Tick, modeVars, ClientInv, ClientTypeOK
  <2>2. unaware \/ backoff >= ban
    BY <1>1 DEF Tick, Quiet, ClientInv, NothingForgotten
  <2>3. NothingForgotten'
    BY <1>1, <2>2 DEF Tick, Before, ClientInv, ClientTypeOK, NothingForgotten
  <2>4. ModeInv' /\ WrongModeWasUnread'
    BY <1>1 DEF Tick, modeVars, ClientInv, ModeInv, WrongModeWasUnread
  <2>5. QED  BY <2>1, <2>3, <2>4 DEF ClientInv
<1>2. CASE ModeExpires
  BY <1>2 DEF ModeExpires, banVars, ClientInv, ClientTypeOK, NothingForgotten, BackoffTold,
              ModeInv, WrongModeWasUnread
<1>3. QED  BY <1>1, <1>2

\* The requests for listen keys change the ban, never what is under way.
LEMMA ListenKeyKeeps ==
    ASSUME ClientInv, ListenKeyStep
    PROVE  ClientInv'
<1>1. UNCHANGED <<backoff, req, accidents, cached, fresh, account, misread>>
  BY DEF ListenKeyStep, modeVars
<1>2. (\E u \in Supervisors : KeyRefused(u)) \/ Unheard
  BY DEF ListenKeyStep, UnguardedStep, DeleteArrives, KeepAlive
<1>3. /\ ban' \in 0..MaxBan
      /\ unaware' \in BOOLEAN
      /\ unaware' \/ ban' = 0
  <2>1. ASSUME NEW u \in Supervisors, KeyRefused(u)
        PROVE  ban' \in 0..MaxBan /\ unaware' = TRUE
    BY <2>1, LimitsAreBounded DEF KeyRefused, ClientInv
  <2>2. CASE Unheard
    <3>1. ban \in 0..MaxBan /\ MaxBan \in Nat
      BY ClientAssumption DEF ClientInv, ClientTypeOK
    <3>2. CASE ban > 0
      <4>1. ban' = Smaller(ban + 1, MaxBan)
        BY <2>2, <3>2 DEF Unheard
      <4>2. ban' \in 0..MaxBan
        BY <3>1, <4>1 DEF Smaller
      <4>3. unaware' = TRUE
        BY <2>2, <3>2 DEF Unheard
      <4>4. QED  BY <4>2, <4>3
    <3>3. CASE ban = 0
      BY <2>2, <3>1, <3>3 DEF Unheard
    <3>4. QED  BY <3>1, <3>2, <3>3
  <2>3. QED  BY <1>2, <2>1, <2>2
<1>4. ClientTypeOK'
  BY <1>1, <1>3 DEF ClientInv, ClientTypeOK
<1>5. NothingForgotten'
  BY <1>1, <1>3 DEF ClientInv, ClientTypeOK, NothingForgotten
<1>6. ModeInv' /\ WrongModeWasUnread'
  BY <1>1 DEF ClientInv, ModeInv, WrongModeWasUnread
<1>7. QED  BY <1>4, <1>5, <1>6 DEF ClientInv

LEMMA RestartKeepsClientInv ==
    ASSUME ClientInv, Restart
    PROVE  ClientInv'
<1>1. Idle \in Request /\ Idle.pc = "idle"
  BY ClientAssumption DEF Idle, Request
<1>2. /\ req' = [r \in Requests |-> Idle] /\ backoff' = 0 /\ ban' = ban
      /\ cached' = "none" /\ fresh' = FALSE /\ misread' = FALSE /\ account' = account
      /\ unaware' = (ban > 0)
  BY DEF Restart, ClientDies
<1>3. accidents' \in 0..MaxAccidents
  BY ClientAssumption DEF Restart, ClientDies, ClientInv, ClientTypeOK
<1>4. ClientTypeOK'
  <2>1. 0 \in 0..MaxBan
    BY ClientAssumption
  <2>2. unaware' \in BOOLEAN
    BY <1>2
  <2>3. req' \in [Requests -> Request]
    BY <1>1, <1>2
  <2>4. QED  BY <1>2, <1>3, <2>1, <2>2, <2>3 DEF ClientInv, ClientTypeOK
<1>5. NothingForgotten'
  <2>1. ban \in Nat
    BY ClientAssumption DEF ClientInv, ClientTypeOK
  <2>2. CASE ban > 0
    BY <1>2, <2>2 DEF NothingForgotten
  <2>3. CASE ~(ban > 0)
    BY <1>2, <2>1, <2>3 DEF NothingForgotten
  <2>4. QED  BY <2>2, <2>3
<1>6. ModeInv' /\ WrongModeWasUnread'
  BY <1>1, <1>2 DEF ModeInv, WrongModeWasUnread
<1>7. QED  BY <1>4, <1>5, <1>6 DEF ClientInv

LEMMA NextClientInv == ClientInv /\ [Next]_vars => ClientInv'
<1> SUFFICES ASSUME ClientInv, [Next]_vars PROVE ClientInv'
  OBVIOUS
<1>1. CASE ClientStep
  <2>1. (stored["mode"] = "live") \in BOOLEAN
    OBVIOUS
  <2>2. QED
    BY <1>1, <2>1, CallsKeep, ChooseBalanceKeeps, GetPositionModeKeeps, ArriveKeeps,
       ArriveUnansweredKeeps, ReturnAnswerKeeps, TimeKeeps
       DEF ClientStep, ClientCall, ClientReturn, RequestStep
<1>2. CASE ListenKeyStep
  BY <1>2, ListenKeyKeeps
<1>3. CASE Restart
  BY <1>3, RestartKeepsClientInv
<1>4. CASE UNCHANGED clientVars
  BY <1>4 DEF clientVars, ClientInv, ClientTypeOK, NothingForgotten, BackoffTold, ModeInv,
              WrongModeWasUnread
<1>5. QED  BY <1>1, <1>2, <1>3, <1>4, ClientSteps

\* However answers overlap, the breaker knows of a ban as long as any announced
\* one, unless the answer is still under way or got lost (145-159).
THEOREM BreakerForgetsNothing == Spec => []NothingForgotten
<1>1. ClientInv => NothingForgotten  BY DEF ClientInv
<1>2. QED  BY InitClientInv, NextClientInv, <1>1, PTL DEF Spec

\* A cached mode that is wrong is the default of a failed read (312-327).
THEOREM WrongModeWasDefaulted == Spec => []WrongModeWasUnread
<1>1. ClientInv => WrongModeWasUnread  BY DEF ClientInv
<1>2. QED  BY InitClientInv, NextClientInv, <1>1, PTL DEF Spec

-----------------------------------------------------------------------------
(* The sockets.                                                            *)

\* A supervise that has decided to connect.
IsConnecting(u) == sup[u] \notin {"idle", "settings"}

\* At most one supervise is connecting, and only while there is no socket.
OneConnecting ==
    /\ connecting => ws = NoSocket
    /\ \A u \in Supervisors : IsConnecting(u) => connecting
    /\ \A u, v \in Supervisors : IsConnecting(u) /\ IsConnecting(v) => u = v

StreamInv ==
    /\ StreamTypeOK
    /\ \A s \in Sockets : socket[s] # "free" <=> s = ws
    /\ OneConnecting

LEMMA InitStreamInv == Init => StreamInv
  BY StreamAssumption
     DEF Init, StreamInit, StreamInv, StreamTypeOK, OneConnecting, IsConnecting

LEMMA TeardownKeeps ==
    ASSUME StreamInv, Teardown, UNCHANGED connecting, key' \in BOOLEAN, expiring' \in BOOLEAN,
           sup' = sup \/ \E u \in Supervisors : sup' = [sup EXCEPT ![u] = "idle"]
    PROVE  StreamInv'
<1>1. StreamTypeOK'
  BY StreamAssumption DEF Teardown, StreamInv, StreamTypeOK, Exchanges
<1>2. \A s \in Sockets : socket'[s] # "free" <=> s = ws'
  BY StreamAssumption DEF Teardown, StreamInv, StreamTypeOK
<1>3. OneConnecting'
  BY DEF Teardown, StreamInv, StreamTypeOK, OneConnecting, IsConnecting
<1>4. QED  BY <1>1, <1>2, <1>3 DEF StreamInv

LEMMA SuperviseKeeps ==
    ASSUME StreamInv, NEW u \in Supervisors, NEW mode \in Exchanges,
           Supervise(u) \/ SuperviseStep(u, mode)
    PROVE  StreamInv'
<1> USE DEF SupAt, SupGoto, connection
<1>1. CASE Supervise(u) \/ ChooseExchange(u, mode) \/ KeyIssued(u)
  <2>1. UNCHANGED <<connecting, connection, expiring>> /\ key' \in BOOLEAN
    BY <1>1 DEF Supervise, ChooseExchange, KeyIssued, StreamInv, StreamTypeOK
  <2>2. PICK pc \in {"settings", "testnet", "live", "gotTestnet", "gotLive", "warn"} :
          /\ sup' = [sup EXCEPT ![u] = pc]
          /\ IsConnecting(u) <=> pc # "settings"
    BY <1>1 DEF Supervise, ChooseExchange, KeyIssued, IsConnecting, Exchanges
  <2>3. StreamTypeOK'
    BY <2>1, <2>2 DEF StreamInv, StreamTypeOK
  <2>4. OneConnecting'
    BY <2>1, <2>2 DEF StreamInv, StreamTypeOK, OneConnecting, IsConnecting
  <2>5. QED  BY <2>1, <2>3, <2>4 DEF StreamInv
<1>2. CASE Decide(u, mode)
  <2>1. CASE mode = "live" /\ ws = NoSocket /\ ~connecting
    <3>1. /\ connecting' = TRUE /\ sup' = [sup EXCEPT ![u] = "http"]
          /\ UNCHANGED <<connection, key, expiring>>
      BY <1>2, <2>1 DEF Decide
    <3>2. StreamTypeOK'
      BY <3>1 DEF StreamInv, StreamTypeOK
    <3>3. OneConnecting'
      BY <2>1, <3>1 DEF StreamInv, StreamTypeOK, OneConnecting, IsConnecting
    <3>4. QED  BY <3>1, <3>2, <3>3 DEF StreamInv
  <2>2. CASE ~(mode = "live" /\ ws = NoSocket /\ ~connecting)
    <3>1. /\ sup' = [sup EXCEPT ![u] = "idle"] /\ UNCHANGED <<connecting, key, expiring>>
          /\ Teardown \/ UNCHANGED connection
      BY <1>2, <2>2 DEF Decide
    <3>2. CASE Teardown
      BY <3>1, <3>2, TeardownKeeps DEF StreamInv, StreamTypeOK
    <3>3. CASE UNCHANGED connection
      BY <3>1, <3>3 DEF StreamInv, StreamTypeOK, OneConnecting, IsConnecting
    <3>4. QED  BY <3>1, <3>2, <3>3
  <2>3. QED  BY <2>1, <2>2
<1>3. CASE Connect(u)
  <2>1. ws = NoSocket /\ IsConnecting(u)
    BY <1>3 DEF Connect, StreamInv, OneConnecting, IsConnecting
  <2>2. PICK s \in Sockets, how \in {"live", "deaf"} :
          /\ ws' = s /\ socket' = [socket EXCEPT ![s] = how]
    BY <1>3 DEF Connect
  <2>3. /\ listenKey' \in Exchanges /\ connecting' = FALSE
        /\ sup' = [sup EXCEPT ![u] = "idle"] /\ UNCHANGED <<key, deletes, expiring>>
    BY <1>3 DEF Connect, Exchanges
  <2>4. StreamTypeOK'
    BY <2>2, <2>3 DEF StreamInv, StreamTypeOK
  <2>5. \A t \in Sockets : socket'[t] # "free" <=> t = ws'
    BY <2>1, <2>2, StreamAssumption DEF StreamInv, StreamTypeOK
  <2>6. OneConnecting'
    BY <2>1, <2>3 DEF StreamInv, StreamTypeOK, OneConnecting, IsConnecting
  <2>7. QED  BY <2>4, <2>5, <2>6 DEF StreamInv
<1>4. CASE GiveUp(u)
  <2>1. /\ connecting' = FALSE /\ sup' = [sup EXCEPT ![u] = "idle"]
        /\ UNCHANGED <<connection, key, expiring>>
        /\ IsConnecting(u)
    BY <1>4 DEF GiveUp, IsConnecting
  <2>2. StreamTypeOK'
    BY <2>1 DEF StreamInv, StreamTypeOK
  <2>3. OneConnecting'
    BY <2>1 DEF StreamInv, StreamTypeOK, OneConnecting, IsConnecting
  <2>4. QED  BY <2>1, <2>2, <2>3 DEF StreamInv
<1>5. QED  BY <1>1, <1>2, <1>3, <1>4 DEF SuperviseStep

LEMMA DeafenedKeeps ==
    ASSUME StreamInv
    PROVE  /\ Deafened \in [Sockets -> {"free", "live", "deaf"}]
           /\ \A s \in Sockets : Deafened[s] # "free" <=> s = ws
  BY DEF Deafened, StreamInv, StreamTypeOK

LEMMA SocketStepKeeps ==
    ASSUME StreamInv, NEW mode \in Exchanges, SocketStep(mode)
    PROVE  StreamInv'
<1>1. ASSUME NEW s \in Sockets, SocketCloses(s) PROVE StreamInv'
  <2>1. s = ws
    BY <1>1 DEF SocketCloses, Attached, StreamInv
  <2>2. StreamTypeOK'
    BY <1>1 DEF SocketCloses, StreamInv, StreamTypeOK
  <2>3. \A t \in Sockets : socket'[t] # "free" <=> t = ws'
    BY <1>1, <2>1, StreamAssumption DEF SocketCloses, StreamInv, StreamTypeOK
  <2>4. OneConnecting'
    BY <1>1 DEF SocketCloses, StreamInv, OneConnecting, IsConnecting
  <2>5. QED  BY <2>2, <2>3, <2>4 DEF StreamInv
<1>2. ASSUME NEW s \in Sockets, KeyExpiredMessage(s) PROVE StreamInv'
  BY <1>2 DEF KeyExpiredMessage, connection, StreamInv, StreamTypeOK, OneConnecting,
              IsConnecting
<1>3. CASE HandleExpired
  BY <1>3, TeardownKeeps DEF HandleExpired, StreamInv, StreamTypeOK
<1>4. CASE RouteDelete(mode)
  BY <1>4 DEF RouteDelete, StreamInv, StreamTypeOK, OneConnecting, IsConnecting, Exchanges
<1>5. CASE KeyExpires
  BY <1>5, DeafenedKeeps DEF KeyExpires, StreamInv, StreamTypeOK, OneConnecting, IsConnecting
<1>6. QED  BY <1>1, <1>2, <1>3, <1>4, <1>5 DEF SocketStep

LEMMA ListenKeyKeepsStream ==
    ASSUME StreamInv, ListenKeyStep
    PROVE  StreamInv'
<1>1. ASSUME NEW u \in Supervisors, KeyRefused(u) PROVE StreamInv'
  <2>1. /\ sup' = [sup EXCEPT ![u] = "warn"] /\ IsConnecting(u)
        /\ UNCHANGED <<connecting, connection, key, expiring>>
    BY <1>1 DEF KeyRefused, SupAt, SupGoto, IsConnecting
  <2>2. StreamTypeOK'
    BY <2>1 DEF connection, StreamInv, StreamTypeOK
  <2>3. OneConnecting'
    BY <2>1 DEF connection, StreamInv, StreamTypeOK, OneConnecting, IsConnecting
  <2>4. QED  BY <2>1, <2>2, <2>3 DEF connection, StreamInv
<1>2. CASE DeleteArrives
  BY <1>2, DeafenedKeeps
     DEF DeleteArrives, StreamInv, StreamTypeOK, OneConnecting, IsConnecting
<1>3. ASSUME NEW mode, KeepAlive(mode) PROVE StreamInv'
  BY <1>3 DEF KeepAlive, connection, StreamInv, StreamTypeOK, OneConnecting, IsConnecting
<1>4. QED  BY <1>1, <1>2, <1>3 DEF ListenKeyStep, UnguardedStep

LEMMA NextStreamInv == StoredInv /\ StreamInv /\ [Next]_vars => StreamInv'
<1> SUFFICES ASSUME StoredInv, StreamInv, [Next]_vars PROVE StreamInv'
  OBVIOUS
<1>1. CASE StreamStep
  BY <1>1, SuperviseKeeps, SocketStepKeeps DEF StreamStep, StoredInv
<1>2. CASE ListenKeyStep
  BY <1>2, ListenKeyKeepsStream
<1>3. CASE Restart
  BY <1>3, StreamAssumption
     DEF Restart, StreamDies, StreamInv, StreamTypeOK, OneConnecting, IsConnecting
<1>4. CASE UNCHANGED streamVars
  BY <1>4 DEF streamVars, StreamInv, StreamTypeOK, OneConnecting, IsConnecting
<1>5. QED  BY <1>1, <1>2, <1>3, <1>4, StreamSteps

\* However many cron jobs overlap, only the socket that teardown would close has
\* listeners (49-75, 96-115).
THEOREM OneSocketAttached == Spec => []OneSocket
<1>1. StreamInv => OneSocket
  BY StreamAssumption DEF StreamInv, StreamTypeOK, OneSocket, Attached
<1>2. PatchTyped => StoredInv  BY DEF PatchTyped
<1>3. QED
  BY InitPatchTyped, NextPatchTyped, InitStreamInv, NextStreamInv, <1>1, <1>2, PTL DEF Spec

\* The types of all of it.
THEOREM BackendTypeCorrect == Spec => []TypeOK
<1>1. PatchTyped /\ ClientInv /\ StreamInv => TypeOK
  BY DEF PatchTyped, AuthInv, NonceInv, PatchInv, PatchOK, StoredInv, ClientInv, StreamInv,
         TypeOK
<1>2. PatchTyped => StoredInv  BY DEF PatchTyped
<1>3. QED
  BY InitPatchTyped, NextPatchTyped, InitClientInv, NextClientInv, InitStreamInv,
     NextStreamInv, <1>1, <1>2, PTL DEF Spec

=============================================================================
