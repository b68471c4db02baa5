--------------------------- MODULE BinanceClient ----------------------------
(***************************************************************************)
(* What BinanceService remembers between requests: bannedUntilMs, the      *)
(* breaker that keeps requests back while Binance bans the address, and    *)
(* the cached position mode.  Times are what is left of them: a unit is    *)
(* longer than a request may take (axios gives up after ten seconds), so   *)
(* no unit passes while Binance or handleError is at work on a request.    *)
(***************************************************************************)
EXTENDS Naturals, FiniteSets

CONSTANTS
    Requests,       \* invocations of the client, used again when they return
    KindOf,         \* "get", "signed", "mode" (getPositionMode), "balance"
    MaxBan,         \* the longest ban, in units
    DefaultBackoff, \* the sixty seconds of handleError, in units
    MaxAccidents    \* answers that may get lost and restarts of the backend

ASSUME ClientAssumption ==
    /\ KindOf \in [Requests -> {"get", "signed", "mode", "balance"}]
    /\ MaxBan \in Nat /\ MaxAccidents \in Nat
    /\ DefaultBackoff \in 1..MaxBan

VARIABLES
    ban,        \* what is left of the ban, at Binance
    backoff,    \* what is left until bannedUntilMs, 0 when it has passed
    req,        \* the await each request is suspended at, and its answer
    cached,     \* cachedPositionMode
    fresh,      \* positionModeCachedAt lies less than an hour back
    account,    \* the position mode of the account, at Binance
    accidents,  \* accidents still to come
    unaware,    \* history: the last request under the ban brought no answer
    misread     \* history: the cached mode is the default of a failed read

clientVars == <<ban, backoff, req, cached, fresh, account, accidents, unaware, misread>>

Modes == {"one-way", "hedge"}

\* How Binance says that it limits: until when, or without a word of it.
BanSays == {"until", "vague"}

Idle == [pc |-> "idle", says |-> "none", told |-> 0]

Request ==
    [pc : {"idle", "choose", "settings", "sent", "answer"},
     says : Modes \cup BanSays \cup {"none", "data", "error"},
     told : 0..MaxBan]

ClientTypeOK ==
    /\ ban \in 0..MaxBan /\ backoff \in 0..MaxBan
    /\ req \in [Requests -> Request]
    /\ cached \in Modes \cup {"none"}
    /\ fresh \in BOOLEAN
    /\ account \in Modes
    /\ accidents \in 0..MaxAccidents
    /\ unaware \in BOOLEAN /\ misread \in BOOLEAN

ClientInit ==
    /\ ban = 0 /\ backoff = 0
    /\ req = [r \in Requests |-> Idle]
    /\ cached = "none" /\ fresh = FALSE
    /\ account \in Modes
    /\ accidents = MaxAccidents
    /\ unaware = FALSE /\ misread = FALSE

banVars == <<ban, unaware>>
modeVars == <<cached, fresh, account, misread>>

Goto(r, pc) == req' = [req EXCEPT ![r].pc = pc]
Larger(m, n) == IF m < n THEN n ELSE m
Smaller(m, n) == IF m < n THEN m ELSE n
Before(n) == IF n = 0 THEN 0 ELSE n - 1

-----------------------------------------------------------------------------
\* Faulty variant: the breaker is not asked.
MaySendAlways == TRUE

\* assertNotBanned.
MaySend == backoff = 0

\* get() sends at once; signedRequest() awaits the settings (getHttp) first.
CallGuarded(r) ==
    /\ req[r].pc = "idle" /\ KindOf[r] \in {"get", "signed"}
    /\ MaySend
    /\ Goto(r, IF KindOf[r] = "get" THEN "sent" ELSE "settings")
    /\ UNCHANGED <<banVars, backoff, accidents, modeVars>>

\* GET /api/balance reads the settings to choose between the two requests.
CallBalance(r) ==
    /\ req[r].pc = "idle" /\ KindOf[r] = "balance"
    /\ Goto(r, "choose")
    /\ UNCHANGED <<banVars, backoff, accidents, modeVars>>

\* In live mode it is fetchLiveAccountBalance, which does not ask the breaker.
ChooseBalance(r, live) ==
    /\ req[r].pc = "choose"
    /\ req' = [req EXCEPT ![r] = CASE live -> [@ EXCEPT !.pc = "sent"]
                                   [] ~live /\ MaySend -> [@ EXCEPT !.pc = "settings"]
                                   [] OTHER -> Idle]
    /\ UNCHANGED <<banVars, backoff, accidents, modeVars>>

\* Faulty variant: the readings are mixed up.
RememberSwapped(says) ==
    /\ cached' = IF says = "hedge" THEN "one-way" ELSE "hedge"
    /\ fresh' = TRUE
    /\ misread' = (says \notin Modes)
    /\ UNCHANGED account

\* The answer, or the default when there is none; good for an hour either way.
Remember(says) ==
    /\ cached' = IF says \in Modes THEN says ELSE "one-way"
    /\ fresh' = TRUE
    /\ misread' = (says \notin Modes)
    /\ UNCHANGED account

\* A request the breaker refuses counts as a failed read.
GetPositionMode(r) ==
    /\ req[r].pc = "idle" /\ KindOf[r] = "mode"
    /\ ~fresh
    /\ IF MaySend THEN Goto(r, "settings") /\ UNCHANGED modeVars
                  ELSE Remember("error") /\ UNCHANGED req
    /\ UNCHANGED <<banVars, backoff, accidents>>

ReadSettings(r) ==
    /\ req[r].pc = "settings"
    /\ Goto(r, "sent")
    /\ UNCHANGED <<banVars, backoff, accidents, modeVars>>

-----------------------------------------------------------------------------
(* Binance.  A request under a ban prolongs it; any other may start one.   *)

LimitsOnRequest == IF ban > 0 THEN {Smaller(ban + 1, MaxBan)} ELSE 0..MaxBan

\* A ban that outlasts the default is announced with its end.
Announcements(n) ==
    {[pc |-> "answer", says |-> "until", told |-> n]}
        \cup {v \in {[pc |-> "answer", says |-> "vague", told |-> 0]} : n <= DefaultBackoff}

Answers(r) ==
    [pc : {"answer"},
     says : {"error", IF KindOf[r] = "mode" THEN account ELSE "data"}, told : {0}]

Arrive(r) ==
    /\ req[r].pc = "sent"
    /\ \E n \in LimitsOnRequest :
         /\ ban' = n
         /\ \E answer \in IF n = 0 THEN Answers(r) ELSE Announcements(n) :
              req' = [req EXCEPT ![r] = answer]
    /\ unaware' = FALSE
    /\ UNCHANGED <<backoff, accidents, modeVars>>

\* The request arrives, its answer does not: the client sees a timeout.
ArriveUnanswered(r) ==
    /\ req[r].pc = "sent"
    /\ accidents > 0 /\ accidents' = accidents - 1
    /\ ban' \in LimitsOnRequest
    /\ unaware' = (ban' > 0)
    /\ req' = [req EXCEPT ![r] = [pc |-> "answer", says |-> "error", told |-> 0]]
    /\ UNCHANGED <<backoff, modeVars>>

-----------------------------------------------------------------------------
BackoffTold(r) ==
    CASE req[r].says = "until" -> req[r].told
      [] req[r].says = "vague" -> DefaultBackoff
      [] OTHER -> 0

\* Faulty variant: the last answer counts, not the longest ban.
HandleErrorLast(r) ==
    backoff' = IF req[r].says \in BanSays THEN BackoffTold(r) ELSE backoff

\* Faulty variant: an announced ban is added to the one that is known.
HandleErrorAdds(r) == backoff' = backoff + BackoffTold(r)

\* handleError.
HandleError(r) == backoff' = Larger(backoff, BackoffTold(r))

Return(r) ==
    /\ req[r].pc = "answer"
    /\ HandleError(r)
    /\ req' = [req EXCEPT ![r] = Idle]
    /\ IF KindOf[r] = "mode" THEN Remember(req[r].says) ELSE UNCHANGED modeVars
    /\ UNCHANGED <<banVars, accidents>>

-----------------------------------------------------------------------------
\* Nobody is talking to Binance.
Quiet == \A r \in Requests : req[r].pc \notin {"sent", "answer"}

Tick ==
    /\ Quiet
    /\ ban + backoff > 0
    /\ ban' = Before(ban) /\ backoff' = Before(backoff)
    /\ unaware' = (unaware /\ ban > 1)
    /\ UNCHANGED <<req, accidents, modeVars>>

ModeExpires ==
    /\ fresh
    /\ fresh' = FALSE
    /\ UNCHANGED <<banVars, backoff, req, accidents, cached, account, misread>>

\* A new process remembers nothing, not even that it is banned.
ClientDies ==
    /\ accidents > 0 /\ accidents' = accidents - 1
    /\ req' = [r \in Requests |-> Idle]
    /\ backoff' = 0
    /\ cached' = "none" /\ fresh' = FALSE /\ misread' = FALSE
    /\ unaware' = (ban > 0)
    /\ UNCHANGED <<ban, account>>

\* The requests that go on by themselves.
RequestStep(r) == ReadSettings(r) \/ Arrive(r) \/ ArriveUnanswered(r) \/ Return(r)

=============================================================================
