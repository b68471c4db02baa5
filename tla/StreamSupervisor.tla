-------------------------- MODULE StreamSupervisor --------------------------
(***************************************************************************)
(* How UserDataStreamService keeps its socket: supervise every thirty      *)
(* seconds, keepAlive every thirty minutes, teardown, and the messages     *)
(* that end a stream.  The requests for listen keys go to Binance like     *)
(* those of BinanceClient, but neither ask its breaker nor tell it.  An    *)
(* action with the parameter mode reads settings.mode.                     *)
(***************************************************************************)
EXTENDS BinanceClient

CONSTANTS
    Supervisors,    \* invocations of supervise, used again when they return
    Sockets,        \* names for sockets, used again when they are closed
    NoSocket

ASSUME StreamAssumption == NoSocket \notin Sockets /\ Sockets # {}

VARIABLES
    sup,        \* the await each supervise is suspended at
    connecting, \* the flag of that name
    ws,         \* this.ws
    socket,     \* sockets with listeners: does their key still work?
    listenKey,  \* this.listenKey: none, or the exchange that issued it
    key,        \* the account has a listen key at the live exchange
    deletes,    \* requests of closeListenKey under way
    expiring    \* a listenKeyExpired handler is at its await

streamVars == <<sup, connecting, ws, socket, listenKey, key, deletes, expiring>>

Exchanges == {"testnet", "live"}

StreamTypeOK ==
    /\ sup \in [Supervisors -> {"idle", "settings", "http", "testnet", "live",
                                "gotTestnet", "gotLive", "warn"}]
    /\ connecting \in BOOLEAN
    /\ ws \in Sockets \cup {NoSocket}
    /\ socket \in [Sockets -> {"free", "live", "deaf"}]
    /\ listenKey \in {"none"} \cup Exchanges
    /\ key \in BOOLEAN
    /\ deletes \subseteq {"http", "live"}
    /\ expiring \in BOOLEAN

StreamInit ==
    /\ sup = [u \in Supervisors |-> "idle"]
    /\ connecting = FALSE
    /\ ws = NoSocket
    /\ socket = [s \in Sockets |-> "free"]
    /\ listenKey = "none"
    /\ key = FALSE
    /\ deletes = {}
    /\ expiring = FALSE

connection == <<ws, socket, listenKey, deletes>>

SupAt(u, pc) == sup[u] = pc
SupGoto(u, pc) == sup' = [sup EXCEPT ![u] = pc]

Attached == {s \in Sockets : socket[s] # "free"}

\* The sockets when their key no longer works: they stay open and silent.
Deafened == [s \in Sockets |-> IF socket[s] = "live" THEN "deaf" ELSE socket[s]]

\* teardown: the listeners go, the socket and (later) the key are closed.
Teardown ==
    /\ socket' = [s \in Sockets |-> IF s = ws THEN "free" ELSE socket[s]]
    /\ ws' = NoSocket
    /\ deletes' = IF listenKey = "none" THEN deletes ELSE deletes \cup {"http"}
    /\ listenKey' = "none"

-----------------------------------------------------------------------------
\* The cron job fires, whether or not the last supervise has returned.
Supervise(u) ==
    /\ SupAt(u, "idle")
    /\ SupGoto(u, "settings")
    /\ UNCHANGED <<connecting, connection, key, expiring>>

\* Faulty variant: a supervise that is connecting holds no other back.
DecideUnflagged(u, mode) ==
    /\ SupAt(u, "settings")
    /\ IF mode = "live" /\ ws = NoSocket
       THEN connecting' = TRUE /\ SupGoto(u, "http") /\ UNCHANGED connection
       ELSE /\ SupGoto(u, "idle")
            /\ IF mode # "live" /\ ws # NoSocket THEN Teardown ELSE UNCHANGED connection
            /\ UNCHANGED connecting
    /\ UNCHANGED <<key, expiring>>

\* Faulty variant: out of live mode nothing is done.
DecideLiveOnly(u, mode) ==
    /\ SupAt(u, "settings")
    /\ IF mode = "live" /\ ws = NoSocket /\ ~connecting
       THEN connecting' = TRUE /\ SupGoto(u, "http")
       ELSE SupGoto(u, "idle") /\ UNCHANGED connecting
    /\ UNCHANGED <<connection, key, expiring>>

\* Out of live mode the stream is closed; in it, it is opened unless there is
\* a socket or another supervise at it.
Decide(u, mode) ==
    /\ SupAt(u, "settings")
    /\ IF mode = "live" /\ ws = NoSocket /\ ~connecting
       THEN connecting' = TRUE /\ SupGoto(u, "http") /\ UNCHANGED connection
       ELSE /\ SupGoto(u, "idle")
            /\ IF mode # "live" /\ ws # NoSocket THEN Teardown ELSE UNCHANGED connection
            /\ UNCHANGED connecting
    /\ UNCHANGED <<key, expiring>>

\* createListenKey reads the settings again (getHttp).
ChooseExchange(u, mode) ==
    /\ SupAt(u, "http")
    /\ SupGoto(u, mode)
    /\ UNCHANGED <<connecting, connection, key, expiring>>

\* Binance prolongs the key there is or issues one; the answer may get lost.
KeyIssued(u) ==
    /\ \/ SupAt(u, "testnet") /\ UNCHANGED key /\ \E pc \in {"gotTestnet", "warn"} : SupGoto(u, pc)
       \/ /\ SupAt(u, "live") /\ ban = 0
          /\ key' = TRUE
          /\ \E pc \in {"gotLive", "warn"} : SupGoto(u, pc)
    /\ UNCHANGED <<connecting, connection, expiring>>

\* Binance refuses it and bans the address, or prolongs the ban.
KeyRefused(u) ==
    /\ SupAt(u, "live")
    /\ ban' \in LimitsOnRequest \ {0}
    /\ unaware' = TRUE
    /\ SupGoto(u, "warn")
    /\ UNCHANGED <<connecting, connection, key, expiring>>

\* connect(): the socket opens on the live stream, whoever issued the key.
Connect(u) ==
    /\ sup[u] \in {"gotTestnet", "gotLive"}
    /\ listenKey' = IF SupAt(u, "gotLive") THEN "live" ELSE "testnet"
    /\ \E s \in Sockets \ Attached :
         /\ ws' = s
         /\ socket' = [socket EXCEPT ![s] =
                         IF SupAt(u, "gotLive") /\ key THEN "live" ELSE "deaf"]
    /\ connecting' = FALSE
    /\ SupGoto(u, "idle")
    /\ UNCHANGED <<key, deletes, expiring>>

\* Faulty variant: the flag is reset where connecting succeeds, not in the
\* finally block.
GiveUpFlagged(u) ==
    /\ SupAt(u, "warn")
    /\ SupGoto(u, "idle")
    /\ UNCHANGED <<connecting, connection, key, expiring>>

\* The failure is logged, then the finally block resets the flag.
GiveUp(u) ==
    /\ SupAt(u, "warn")
    /\ connecting' = FALSE
    /\ SupGoto(u, "idle")
    /\ UNCHANGED <<connection, key, expiring>>

-----------------------------------------------------------------------------
\* The close handler forgets this.ws, and keeps the key.
SocketCloses(s) ==
    /\ s \in Attached
    /\ socket' = [socket EXCEPT ![s] = "free"]
    /\ ws' = NoSocket
    /\ UNCHANGED <<sup, connecting, listenKey, key, deletes, expiring>>

\* A listenKeyExpired message; its handler logs before it tears down.
KeyExpiredMessage(s) ==
    /\ socket[s] = "deaf"
    /\ expiring' = TRUE
    /\ UNCHANGED <<sup, connecting, connection, key>>

HandleExpired ==
    /\ expiring
    /\ expiring' = FALSE
    /\ Teardown
    /\ UNCHANGED <<sup, connecting, key>>

\* closeListenKey goes to the exchange of the mode at that time; only the live
\* one has a key to lose.
RouteDelete(mode) ==
    /\ "http" \in deletes
    /\ deletes' = (deletes \ {"http"}) \cup ({"live"} \cap {mode})
    /\ UNCHANGED <<sup, connecting, ws, socket, listenKey, key, expiring>>

\* A request whose failure is swallowed: under a ban it prolongs it.
Unheard ==
    /\ ban' = IF ban > 0 THEN Smaller(ban + 1, MaxBan) ELSE 0
    /\ unaware' = (ban > 0)

\* It reaches Binance, which may refuse it; under a ban it does.
DeleteArrives ==
    /\ "live" \in deletes
    /\ deletes' = deletes \ {"live"}
    /\ Unheard
    /\ \/ ban = 0 /\ key' = FALSE /\ socket' = Deafened
       \/ UNCHANGED <<key, socket>>
    /\ UNCHANGED <<sup, connecting, ws, listenKey, expiring>>

\* keepAlive asks the mode's exchange to prolong the key, if this.listenKey is set.
KeepAlive(mode) ==
    /\ listenKey # "none" /\ mode = "live"
    /\ Unheard
    /\ UNCHANGED <<sup, connecting, connection, key, expiring>>

\* Binance drops a key that has not been prolonged for an hour: keepAlive has
\* failed, which is swallowed, or has asked the testnet.
KeyExpires ==
    /\ key
    /\ key' = FALSE
    /\ socket' = Deafened
    /\ UNCHANGED <<sup, connecting, ws, listenKey, deletes, expiring>>

StreamDies ==
    /\ sup' = [u \in Supervisors |-> "idle"]
    /\ connecting' = FALSE
    /\ ws' = NoSocket
    /\ socket' = [s \in Sockets |-> "free"]
    /\ listenKey' = "none"
    /\ deletes' = {}
    /\ expiring' = FALSE
    /\ UNCHANGED key

-----------------------------------------------------------------------------
\* What goes on by itself: without a word to the live exchange, and with one,
\* which the breaker neither holds back nor hears the answer of.
SuperviseStep(u, mode) ==
    \/ Decide(u, mode) \/ ChooseExchange(u, mode) \/ KeyIssued(u) \/ Connect(u) \/ GiveUp(u)

SocketStep(mode) ==
    \/ \E s \in Sockets : SocketCloses(s) \/ KeyExpiredMessage(s)
    \/ HandleExpired \/ RouteDelete(mode) \/ KeyExpires

UnguardedStep(mode) ==
    \/ \E u \in Supervisors : KeyRefused(u)
    \/ DeleteArrives \/ KeepAlive(mode)

=============================================================================
