--------------------------- MODULE Authentication ---------------------------
(***************************************************************************)
(* AuthService and AuthGuard: a wallet asks for a nonce, signs its message *)
(* and gets a session, which every guarded request has to show.  Nonces    *)
(* and sessions are keys in redis; a command takes effect when its await   *)
(* returns.                                                                *)
(***************************************************************************)
EXTENDS Naturals, FiniteSets

CONSTANTS
    Wallets,
    AllowedWallet,  \* DASHBOARD_ALLOWED_WALLET
    Nonces,
    Logins,         \* invocations of verifyAndLogin; a token is named by its login
    Nobody

ASSUME AuthAssumption ==
    /\ AllowedWallet \in Wallets
    /\ Nobody \notin Wallets \cup Nonces

VARIABLES
    nonce,      \* auth:nonce:<wallet>
    aged,       \* nonces whose expiresAt has passed
    unissued,   \* nonces not yet generated
    login,      \* the await each login is suspended at, and what it was sent
    session,    \* session:<token>
    spent,      \* history: nonces deleted by a login that used them
    ended       \* history: tokens whose logout has returned

authVars == <<nonce, aged, unissued, login, session, spent, ended>>

Login ==
    [pc : {"idle", "get", "drop", "delete", "store", "done", "refused"},
     wallet : Wallets \cup {Nobody},
     signed : Nonces \cup {Nobody},     \* the nonce in the message it signed
     dead : SUBSET Nonces]              \* history: spent or aged at its start

AuthTypeOK ==
    /\ nonce \in [Wallets -> Nonces \cup {Nobody}]
    /\ aged \in SUBSET Nonces /\ unissued \in SUBSET Nonces
    /\ login \in [Logins -> Login]
    /\ session \in [Logins -> Wallets \cup {Nobody}]
    /\ spent \in SUBSET Nonces /\ ended \in SUBSET Logins

\* Tokens in Standing have been issued before.
AuthInit(Standing) ==
    /\ nonce = [w \in Wallets |-> Nobody]
    /\ aged = {} /\ unissued = Nonces
    /\ login = [l \in Logins |->
                  [pc |-> IF l \in Standing THEN "done" ELSE "idle",
                   wallet |-> IF l \in Standing THEN AllowedWallet ELSE Nobody,
                   signed |-> Nobody, dead |-> {}]]
    /\ session = [l \in Logins |-> IF l \in Standing THEN AllowedWallet ELSE Nobody]
    /\ spent = {} /\ ended = {}

LoginAt(l, pc) == login[l].pc = pc
LoginGoto(l, pc) == login' = [login EXCEPT ![l].pc = pc]

-----------------------------------------------------------------------------
\* generateNonce: the last nonce asked for replaces the one before.
GenerateNonce(w) ==
    /\ \E n \in unissued : nonce' = [nonce EXCEPT ![w] = n] /\ unissued' = unissued \ {n}
    /\ UNCHANGED <<aged, login, session, spent, ended>>

\* Five minutes pass; redis drops the key at that time too, but not before the
\* backend's clock may have seen it.
NonceAges(n) ==
    /\ n \notin unissued \cup aged
    /\ aged' = aged \cup {n}
    /\ UNCHANGED <<nonce, unissued, login, session, spent, ended>>

NonceDropped(w) ==
    /\ nonce[w] \in aged
    /\ nonce' = [nonce EXCEPT ![w] = Nobody]
    /\ UNCHANGED <<aged, unissued, login, session, spent, ended>>

\* A wallet logs in with a message it has signed; it may have been sent several.
BeginLogin(l, w, n) ==
    /\ LoginAt(l, "idle")
    /\ n \notin unissued
    /\ login' = [login EXCEPT ![l] = [pc |-> "get", wallet |-> w, signed |-> n,
                                      dead |-> spent \cup aged]]
    /\ UNCHANGED <<nonce, aged, unissued, session, spent, ended>>

\* The entry is read; all checks follow without another await.
CheckNonce(l) ==
    /\ LoginAt(l, "get")
    /\ LET w == login[l].wallet
           n == nonce[w]
       IN LoginGoto(l, CASE n = Nobody -> "refused"
                         [] n \in aged -> "drop"
                         [] n \notin aged \cup {Nobody} /\ n = login[l].signed
                                /\ w = AllowedWallet -> "delete"
                         [] OTHER -> "refused")
    /\ UNCHANGED <<nonce, aged, unissued, session, spent, ended>>

\* An expired nonce is deleted, and the login refused.
DropNonce(l) ==
    /\ LoginAt(l, "drop")
    /\ nonce' = [nonce EXCEPT ![login[l].wallet] = Nobody]
    /\ LoginGoto(l, "refused")
    /\ UNCHANGED <<aged, unissued, session, spent, ended>>

\* Faulty variant: the nonce stays until redis drops it.
DeleteNonceNot(l) ==
    /\ LoginAt(l, "delete")
    /\ spent' = spent \cup {login[l].signed}
    /\ LoginGoto(l, "store")
    /\ UNCHANGED <<nonce, aged, unissued, session, ended>>

\* DEL names the wallet's key: a nonce issued meanwhile goes with it.
DeleteNonce(l) ==
    /\ LoginAt(l, "delete")
    /\ nonce' = [nonce EXCEPT ![login[l].wallet] = Nobody]
    /\ spent' = spent \cup {login[l].signed}
    /\ LoginGoto(l, "store")
    /\ UNCHANGED <<aged, unissued, session, ended>>

StoreSession(l) ==
    /\ LoginAt(l, "store")
    /\ session' = [session EXCEPT ![l] = login[l].wallet]
    /\ LoginGoto(l, "done")
    /\ UNCHANGED <<nonce, aged, unissued, spent, ended>>

LoginStep(l) == CheckNonce(l) \/ DropNonce(l) \/ DeleteNonce(l) \/ StoreSession(l)

-----------------------------------------------------------------------------
\* Faulty variant: only the cookie is cleared.
LogoutCookie(l) ==
    /\ LoginAt(l, "done") /\ l \notin ended
    /\ ended' = ended \cup {l}
    /\ UNCHANGED <<nonce, aged, unissued, login, session, spent>>

Logout(l) ==
    /\ LoginAt(l, "done") /\ l \notin ended
    /\ session' = [session EXCEPT ![l] = Nobody]
    /\ ended' = ended \cup {l}
    /\ UNCHANGED <<nonce, aged, unissued, login, spent>>

\* Seven days pass.
SessionExpires(l) ==
    /\ session[l] # Nobody
    /\ session' = [session EXCEPT ![l] = Nobody]
    /\ UNCHANGED <<nonce, aged, unissued, login, spent, ended>>

\* isValidSession and getSessionAddress read the same key, one after the other.
ValidSession(l) == session[l] # Nobody

-----------------------------------------------------------------------------
\* A nonce is good for one login (line 80): who begins after it was used or
\* has expired gets no session.  Logins that overlap may share one, for it is
\* read (54) some awaits before it is deleted.
NonceBuysOneLogin ==
    \A l \in Logins : login[l].pc \in {"delete", "store", "done"} => login[l].signed \notin login[l].dead

=============================================================================
