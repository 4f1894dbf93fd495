------------------------------- MODULE Access -------------------------------
(***************************************************************************)
(* The accounts of module Accounts behind the web server that guards them  *)
(* (src/main/webserver.c), together with the override, the one setting     *)
(* every user may change.                                                  *)
(*                                                                         *)
(* Connections are kept alive: each has a context that outlives a request  *)
(* and that the handlers ask for the rights of the request they serve.     *)
(* The context is filled from the name a request gives, before the outcome *)
(* of its password is known.                                               *)
(***************************************************************************)
EXTENDS Accounts, PasswordHash

CONSTANTS
    Connections,    \* kept-alive connections to the server
    NOBODY,         \* the user of a context fresh from calloc
    Orders,         \* orders an override can force
    NONE            \* no override

ASSUME AccessAssumption ==
    /\ NOBODY \notin Users
    /\ NONE \notin Orders
    /\ NULL \notin [user : Users \cup {NOBODY}, admin : BOOLEAN]
    /\ NULL \notin [user : Users, password : Passwords]

VARIABLES
    session,        \* sess_ctx of each connection, NULL before its first request
    author,         \* the credentials of the request in service
    override,       \* override_global
    nvs_override,   \* stor_key_zone_override
    forcing         \* ofp_override_store is about to be called

guardVars == <<session, author>>
overrideVars == <<override, nvs_override, forcing>>
accessVars == <<vars, guardVars, overrideVars>>

Context == [user : Users \cup {NOBODY}, admin : BOOLEAN]
Credentials == [user : Users, password : Passwords]

AccessTypeOK ==
    /\ session \in [Connections -> Context \cup {NULL}]
    /\ author \in Credentials \cup {NULL}
    /\ override \in Orders \cup {NONE}
    /\ nvs_override \in Orders \cup {NONE}
    /\ forcing \in BOOLEAN

AccessInit ==
    /\ Init
    /\ session = [c \in Connections |-> NULL]
    /\ author = NULL
    /\ override = NONE
    /\ nvs_override = NONE
    /\ forcing = FALSE

-----------------------------------------------------------------------------
(* What every request goes through. *)

\* ofp_session_init_if_needed
InitIfNeeded(c) ==
    IF session[c] = NULL THEN [user |-> NOBODY, admin |-> FALSE] ELSE session[c]

\* Mutant: a context that names a user is kept.
IdentifiedOnce(c, who) ==
    IF Listed(who.user) /\ InitIfNeeded(c).user = NOBODY
    THEN [user |-> who.user, admin |-> who.user = Admin]
    ELSE InitIfNeeded(c)

\* The context a request with credentials who leaves: that of the user it
\* names, if there is such an account, whatever the password.
Identified(c, who) ==
    IF Listed(who.user)
    THEN [user |-> who.user, admin |-> who.user = Admin]
    ELSE InitIfNeeded(c)

PasswordVerified(who) ==
    \E i \in Entries : Holds(i, who.user) /\ accounts[i].password = who.password

\* Mutant: a connection that named the user before is not asked again.
AuthenticatedOnce(c, who) ==
    PasswordVerified(who) \/ (session[c] # NULL /\ session[c].user = who.user)

\* is_authentication_valid, on connection c
Authenticated(c, who) == PasswordVerified(who)

IsAdmin(context) == context.admin
IsAdminOrSelf(context, u) == context.admin \/ context.user = u

\* https_handler_generic hands the request on connection c to a handler.
Handed(c, who) ==
    /\ Idle
    /\ ~forcing
    /\ Authenticated(c, who)
    /\ session' = [session EXCEPT ![c] = Identified(c, who)]
    /\ author' = who

-----------------------------------------------------------------------------
(* Requests. *)

\* A request that changes nothing: without valid credentials, to a handler
\* that only reads, or refused by its handler.
ServeUnchanged(c, who) ==
    /\ Idle
    /\ ~forcing
    /\ session' = [session EXCEPT ![c] = Identified(c, who)]
    /\ UNCHANGED <<vars, author, overrideVars>>

Post(c, who, u, password) ==
    /\ Handed(c, who)
    /\ IsAdmin(Identified(c, who))
    /\ PostAccount(u, password)
    /\ UNCHANGED overrideVars

Patch(c, who, u, password) ==
    /\ Handed(c, who)
    /\ IsAdminOrSelf(Identified(c, who), u)
    /\ PatchAccount(u, password)
    /\ UNCHANGED overrideVars

Delete(c, who, u) ==
    /\ Handed(c, who)
    /\ IsAdminOrSelf(Identified(c, who), u)
    /\ DeleteAccount(u)
    /\ UNCHANGED overrideVars

\* The request is answered once its account is stored, or off the array; a
\* boot stores the administrator's account without any request.
Answer ==
    /\ StoreAccount \/ ForgetAccount
    /\ author' = NULL
    /\ UNCHANGED <<session, overrideVars>>

\* PUT /override: ofp_override_enable or ofp_override_disable...
PutOverride(c, who, order) ==
    /\ Handed(c, who)
    /\ override' = order
    /\ forcing' = TRUE
    /\ UNCHANGED <<vars, nvs_override>>

\* Mutant: nothing is written when there is no override any more.
StoreOverrideActive ==
    /\ forcing
    /\ nvs_override' = IF override # NONE THEN override ELSE nvs_override
    /\ forcing' = FALSE
    /\ author' = NULL
    /\ UNCHANGED <<vars, session, override>>

\* ...then ofp_override_store, which deletes the key when there is none.
StoreOverride ==
    /\ forcing
    /\ nvs_override' = override
    /\ forcing' = FALSE
    /\ author' = NULL
    /\ UNCHANGED <<vars, session, override>>

\* The connection ends, and its context with it.
Close(c) ==
    /\ Idle
    /\ ~forcing
    /\ session' = [session EXCEPT ![c] = NULL]
    /\ UNCHANGED <<vars, author, overrideVars>>

-----------------------------------------------------------------------------
(* Power losses and boots. *)

\* Connections, contexts and the override in memory are lost.
LosePower ==
    /\ Restart
    /\ session' = [c \in Connections |-> NULL]
    /\ author' = NULL
    /\ override' = NONE
    /\ forcing' = FALSE
    /\ UNCHANGED nvs_override

LoadAccounts ==
    /\ CreateAdmin \/ \E u \in Users : LoadAccount(u)
    /\ UNCHANGED <<guardVars, overrideVars>>

\* Mutant: what is read for a missing key is taken for an order.
LoadOverrideRaw ==
    /\ Loaded
    /\ override' = IF nvs_override = NONE THEN NULL ELSE nvs_override
    /\ UNCHANGED <<guardVars, nvs_override, forcing>>

\* ofp_override_load, the accounts being loaded; then the server starts.
LoadOverride ==
    /\ Loaded
    /\ override' = nvs_override
    /\ UNCHANGED <<guardVars, nvs_override, forcing>>

AccessNext ==
    \/ \E c \in Connections, who \in Credentials :
          \/ ServeUnchanged(c, who)
          \/ \E u \in Users, password \in Passwords :
                Post(c, who, u, password) \/ Patch(c, who, u, password)
          \/ \E u \in Users : Delete(c, who, u)
          \/ \E order \in Orders \cup {NONE} : PutOverride(c, who, order)
    \/ \E c \in Connections : Close(c)
    \/ Answer \/ StoreOverride
    \/ LosePower \/ LoadAccounts \/ LoadOverride

AccessSpec == AccessInit /\ [][AccessNext]_accessVars

-----------------------------------------------------------------------------
(* Properties. *)

\* A request in service changes user u's account.
Changes(u) == nvs'[u] # nvs[u] \/ Accepted'[u] # Accepted[u]

\* An account only changes for a request that gave the current password of the
\* administrator, or of that very account, which then existed already; the
\* override only for one that gave a current password.  Whatever went over the
\* connection before, wrong passwords for other names included, gives no rights
\* (webserver.c:40-76, 399-418; api_accounts.c:58, 121, 148).
ChangesAuthorised ==
    [][Idle /\ ~forcing /\ phase' = "running" =>
          /\ override' # override => PasswordVerified(author')
          /\ \A u \in Users : Changes(u) =>
                /\ PasswordVerified(author')
                /\ author'.user = Admin \/ author'.user = u]_accessVars

\* Between requests the override in memory is the one the next boot loads: no
\* request or power loss leaves an override that a reboot ends, or one that
\* comes back after it was ended (ofp.c:123-161, api_zones.c:325-345).
OverrideDurable == phase = "running" /\ ~forcing => override = nvs_override

HashedRepeatedly == [c \in Passwords |-> IsHashedRepeatedly(c)]
Kept == [c \in Passwords |-> IsKept(c, Passwords)]

\* Whatever the number of iterations, odd or even, the hash of an account's
\* password is its digest taken that many times: never what a buffer held that was
\* not written, or that is an iteration behind (utils.c:718-744).
AccountsHashed ==
    \A i \in Entries : accounts[i] # NULL => HashedRepeatedly[accounts[i].password]

\* An account opens with its password, and with no other, after an update to any
\* firmware that knows the digest; one that does not reads no password at all.
\* A string is written with the parameters of the build (utils.c:798, 808) but has
\* to be read with its own (utils.c:868-880).
AccountsOpen ==
    \A i \in Entries : accounts[i] # NULL => Kept[accounts[i].password]
=============================================================================
