-------------------------------- MODULE Auth --------------------------------
(***************************************************************************)
(* One person's account, sessions and tokens: the auth module (handlers.ts,*)
(* repository.ts, token-service.ts, session-service.ts) and its data, and  *)
(* one browser tab with the refresh on 401 of api-client.ts and            *)
(* auth-store.ts.  The person may also play as a guest.                    *)
(* Every command to Redis is a step of its own, and may fail.  Access      *)
(* tokens have one life time, so they expire in the order of issue; the    *)
(* refresh token issued with the n-th access token is n, too.              *)
(***************************************************************************)
EXTENDS Naturals, FiniteSets

CONSTANTS
    Calls,          \* requests the tab can have under way at a time
    MaxSessions,    \* bound: logins
    MaxIssued,      \* bound: pairs of tokens issued
    MaxLost         \* bound: requests whose answer never comes, or whose handler fails

ASSUME AuthAssumption == MaxSessions \in Nat /\ MaxIssued \in Nat /\ MaxLost \in Nat

Sessions == 1 .. MaxSessions
Tokens   == 1 .. MaxIssued
NoToken  == 0

VARIABLES
    registered,     \* table users has the account
    session,        \* session:<id> in Redis: "none", "active" or "revoked"
    userSessions,   \* user_sessions:<user> in Redis
    refreshTokens,  \* refresh:<id> in Redis: session and isUsed; session 0 when absent
    issued,         \* tokens issued so far
    expired,        \* access tokens issued first and expired
    requests,       \* the auth requests the server works on
    cookie,         \* the browser's refresh token
    user,           \* auth-store: "none", "account" or "guest"
    accessToken,    \* auth-store: number and session
    refreshPromise, \* api-client: a refresh is under way
    calls,          \* api-client: the state of each call
    lost,           \* history: the kinds of the requests whose answer was lost
    faults,         \* history: the kinds of the requests that failed, and where
    reused          \* history: a used token was presented

redisVars == <<registered, session, userSessions, refreshTokens, issued>>
tabVars == <<cookie, user, accessToken, refreshPromise, calls>>
authVars == <<redisVars, expired, requests, tabVars, lost, faults, reused>>

Absent == [session |-> 0, isUsed |-> FALSE]
NoAccess == [n |-> NoToken, session |-> 0]
Idle == [kind |-> "none", pc |-> "idle", token |-> NoAccess]

AuthInit ==
    /\ registered = FALSE
    /\ session = [s \in Sessions |-> "none"] /\ userSessions = {}
    /\ refreshTokens = [t \in Tokens |-> Absent] /\ issued = 0 /\ expired = 0
    /\ requests = {}
    /\ cookie = NoToken /\ user = "none" /\ accessToken = NoAccess
    /\ refreshPromise = FALSE /\ calls = [c \in Calls |-> Idle]
    /\ lost = {} /\ faults = {} /\ reused = FALSE

-----------------------------------------------------------------------------
(* The server.  A request is at a step of its handler (pc), knows the      *)
(* token and the session it is about, and whether the tab still listens.   *)

Request(kind, pc, call, token, s) ==
    [kind |-> kind, pc |-> pc, call |-> call, token |-> token, session |-> s,
     todo |-> {}, heard |-> TRUE]

Goes(r, next) == requests' = (requests \ {r}) \cup {next}
To(r, pc) == [r EXCEPT !.pc = pc]

\* register: the check for a duplicate, and createUser, which a duplicate made
\* since then fails
UserExists(r) ==
    /\ r.pc = "exists"
    /\ Goes(r, To(r, IF registered THEN "refused" ELSE "create"))
    /\ UNCHANGED redisVars

CreateUser(r) ==
    /\ r.pc = "create"
    /\ registered' = TRUE
    /\ Goes(r, To(r, IF registered THEN "refused" ELSE "save"))
    /\ UNCHANGED <<session, userSessions, refreshTokens, issued>>

\* guestLogin: an access token without session and refresh token
GenerateGuest(r) ==
    /\ r.pc = "guest" /\ issued < MaxIssued
    /\ issued' = issued + 1
    /\ Goes(r, [r EXCEPT !.pc = "granted", !.token = issued'])
    /\ UNCHANGED <<registered, session, userSessions, refreshTokens>>

\* createSession: the session, then its entry in the user's set
SaveSession(r) ==
    /\ r.pc = "save"
    /\ \E s \in Sessions :
        /\ session[s] = "none" /\ \A o \in 1 .. s - 1 : session[o] # "none"
        /\ session' = [session EXCEPT ![s] = "active"]
        /\ Goes(r, [r EXCEPT !.pc = "list", !.session = s])
    /\ UNCHANGED <<registered, userSessions, refreshTokens, issued>>

ListSession(r) ==
    /\ r.pc = "list"
    /\ userSessions' = userSessions \cup {r.session}
    /\ Goes(r, To(r, "generate"))
    /\ UNCHANGED <<registered, session, refreshTokens, issued>>

\* generateRefreshToken and generateAccessToken
Generate(r) ==
    /\ r.pc = "generate" /\ issued < MaxIssued
    /\ issued' = issued + 1
    /\ refreshTokens' = [refreshTokens EXCEPT ![issued'] =
                            [session |-> r.session, isUsed |-> FALSE]]
    /\ Goes(r, [r EXCEPT !.pc = "granted", !.token = issued'])
    /\ UNCHANGED <<registered, session, userSessions>>

\* refresh: verifyRefreshToken
VerifyRefreshToken(r) ==
    /\ r.pc = "verify"
    /\ LET stored == IF r.token = NoToken THEN Absent ELSE refreshTokens[r.token]
       IN  \/ stored = Absent /\ Goes(r, To(r, "refused"))
           \/ /\ stored # Absent /\ ~stored.isUsed
              /\ Goes(r, [r EXCEPT !.pc = "session", !.session = stored.session])
           \/ stored # Absent /\ stored.isUsed /\ Goes(r, To(r, "members"))
    /\ UNCHANGED redisVars

\* refresh: the session must not be revoked.
CheckSession(r) ==
    /\ r.pc = "session"
    /\ Goes(r, To(r, IF session[r.session] = "active" THEN "rotate" ELSE "refused"))
    /\ UNCHANGED redisVars

\* rotateRefreshToken: the old token is read, and written as used, which brings
\* it back if it was deleted in between (its TTL read before).
ReadOld(r) ==
    /\ r.pc = "rotate"
    /\ Goes(r, To(r, IF refreshTokens[r.token] = Absent THEN "generate" ELSE "mark"))
    /\ UNCHANGED redisVars

MarkUsed(r) ==
    /\ r.pc = "mark"
    /\ \/ refreshTokens' = [refreshTokens EXCEPT ![r.token] =
                                [session |-> r.session, isUsed |-> TRUE]]
       \/ refreshTokens[r.token] = Absent /\ UNCHANGED refreshTokens
    /\ Goes(r, To(r, "generate"))
    /\ UNCHANGED <<registered, session, userSessions, issued>>

\* A used token: revokeAllSessions, revokeAllRefreshTokensForUser
ReadMembers(r) ==
    /\ r.pc = "members"
    /\ Goes(r, [r EXCEPT !.pc = "revokeAll", !.todo = userSessions])
    /\ UNCHANGED redisVars

RevokeOne(r) ==
    /\ r.pc = "revokeAll"
    /\ \E s \in r.todo :
        /\ session' = [session EXCEPT ![s] = "revoked"]
        /\ Goes(r, [r EXCEPT !.todo = @ \ {s}])
    /\ UNCHANGED <<registered, userSessions, refreshTokens, issued>>

RevokeTokens(r) ==
    /\ r.pc = "revokeAll" /\ r.todo = {}
    /\ userSessions' = {}
    /\ refreshTokens' = [t \in Tokens |-> Absent]
    /\ Goes(r, To(r, "refused"))
    /\ UNCHANGED <<registered, session, issued>>

\* logout: revokeSession, revokeRefreshToken
RevokeSession(r) ==
    /\ r.pc = "revoke"
    /\ session' = [session EXCEPT ![r.session] = "revoked"]
    /\ Goes(r, To(r, "unlist"))
    /\ UNCHANGED <<registered, userSessions, refreshTokens, issued>>

UnlistSession(r) ==
    /\ r.pc = "unlist"
    /\ userSessions' = userSessions \ {r.session}
    /\ Goes(r, To(r, "delete"))
    /\ UNCHANGED <<registered, session, refreshTokens, issued>>

RevokeRefreshToken(r) ==
    /\ r.pc = "delete"
    /\ refreshTokens' = [t \in Tokens |-> IF t = r.token THEN Absent ELSE refreshTokens[t]]
    /\ Goes(r, To(r, "loggedOut"))
    /\ UNCHANGED <<registered, session, userSessions, issued>>

ServerStep(r) ==
    /\ \/ UserExists(r) \/ CreateUser(r) \/ GenerateGuest(r)
       \/ SaveSession(r) \/ ListSession(r) \/ Generate(r)
       \/ CheckSession(r) \/ ReadOld(r) \/ MarkUsed(r)
       \/ ReadMembers(r) \/ RevokeOne(r) \/ RevokeTokens(r)
       \/ RevokeSession(r) \/ UnlistSession(r) \/ RevokeRefreshToken(r)
    /\ UNCHANGED <<expired, tabVars, lost, faults, reused>>

\* What is lost and what fails is rare.
Disturbed == Cardinality(lost) + Cardinality(faults)

(***************************************************************************)
(* A command fails, of whatever handler but that of guests, which has      *)
(* none: the answer is 500.  (One that fails with its effect is one that   *)
(* succeeds before the next fails; a refresh token written and not         *)
(* answered is known to nobody.)                                           *)
(***************************************************************************)
CommandFails(r) ==
    /\ r.pc \notin {"guest", "granted", "refused", "loggedOut"} /\ Disturbed < MaxLost
    /\ faults' = faults \cup {<<r.kind, r.pc>>}
    /\ Goes(r, To(r, "refused"))
    /\ UNCHANGED <<redisVars, expired, tabVars, lost, reused>>

Verifies(r) ==
    /\ VerifyRefreshToken(r)
    /\ reused' = (reused \/ \E next \in requests' : next.pc = "members")
    /\ UNCHANGED <<expired, tabVars, lost, faults>>

-----------------------------------------------------------------------------
(* The tab.                                                                *)

\* selectIsAuthenticated
SignedIn == user # "none" /\ accessToken # NoAccess

\* The forms: register, login with the right password, and guestLogin.  One is
\* sent again only when the one before has been answered or has broken off.
Submit(kind, pc) ==
    /\ ~SignedIn
    /\ \A r \in requests : r.heard => r.kind \notin {"register", "login", "guest"}
    /\ requests' = requests \cup {Request(kind, pc, "none", NoToken, 0)}
    /\ UNCHANGED <<redisVars, expired, tabVars, lost, faults, reused>>

Register == Submit("register", "exists")
Login == registered /\ Submit("login", "save")
GuestLogin == Submit("guest", "guest")

\* makeRequest, and logout of auth-store.ts
Start(c, kind) ==
    /\ SignedIn /\ calls[c] = Idle /\ (kind = "logout" => user = "account")
    /\ calls' = [calls EXCEPT ![c] = [kind |-> kind, pc |-> "sent", token |-> accessToken]]
    /\ UNCHANGED <<redisVars, expired, requests, cookie, user, accessToken,
                   refreshPromise, lost, faults, reused>>

Valid(token) == token.n > expired

\* The store after a sign-out: set(initialState)
Reset == user' = "none" /\ accessToken' = NoAccess

\* logout of a guest: nothing is sent, and the cookie of an account stays.
GuestLeaves ==
    /\ SignedIn /\ user = "guest"
    /\ Reset
    /\ UNCHANGED <<redisVars, expired, requests, cookie, refreshPromise, calls, lost, faults,
                   reused>>

\* The auth middleware lets a call through; a logout goes on in its handler.
Accepted(c) ==
    /\ calls[c].pc \in {"sent", "resent"} /\ Valid(calls[c].token)
    /\ \/ /\ calls[c].kind = "api"
          /\ calls' = [calls EXCEPT ![c] = Idle]
          /\ UNCHANGED requests
       \/ /\ calls[c].kind = "logout"
          /\ calls' = [calls EXCEPT ![c].pc = "served"]
          /\ requests' = requests \cup
                 {Request("logout", "revoke", c, cookie, calls[c].token.session)}
    /\ UNCHANGED <<redisVars, expired, cookie, user, accessToken, refreshPromise,
                   lost, faults, reused>>

\* Mutant: every call refreshes for itself.
MutantNotShared(c) ==
    /\ refreshPromise' = TRUE
    /\ requests' = requests \cup {Request("refresh", "verify", c, cookie, 0)}

\* attemptTokenRefresh: a refresh under way is shared.
AttemptTokenRefresh(c) ==
    \/ refreshPromise /\ UNCHANGED <<refreshPromise, requests>>
    \/ /\ ~refreshPromise
       /\ refreshPromise' = TRUE
       /\ requests' = requests \cup {Request("refresh", "verify", "none", cookie, 0)}

\* A 401: the call waits for a refresh.
Unauthorized(c) ==
    /\ calls[c].pc = "sent" /\ ~Valid(calls[c].token)
    /\ calls' = [calls EXCEPT ![c].pc = "waiting"]
    /\ AttemptTokenRefresh(c)
    /\ UNCHANGED <<redisVars, expired, cookie, user, accessToken, lost, faults, reused>>

\* A 401 again: an error, of which logout takes no notice.
UnauthorizedAgain(c) ==
    /\ calls[c].pc = "resent" /\ ~Valid(calls[c].token)
    /\ calls' = [calls EXCEPT ![c] = Idle]
    /\ IF calls[c].kind = "logout" THEN Reset ELSE UNCHANGED <<user, accessToken>>
    /\ UNCHANGED <<redisVars, expired, requests, cookie, refreshPromise, lost, faults, reused>>

\* refreshAccessToken fails: the store is reset and the calls that wait fail.
RefreshFails ==
    /\ Reset /\ refreshPromise' = FALSE
    /\ calls' = [c \in Calls |-> IF calls[c].pc = "waiting" THEN Idle ELSE calls[c]]

\* An answer arrives.
Answered(r) ==
    /\ r.pc \in {"granted", "refused", "loggedOut"} /\ r.heard
    /\ requests' = requests \ {r}
    /\ \/ /\ r.pc = "granted"
          /\ accessToken' = [n |-> r.token, session |-> r.session]
          /\ cookie' = IF r.kind = "guest" THEN cookie ELSE r.token
          /\ \/ /\ r.kind # "refresh"
                /\ user' = IF r.kind = "guest" THEN "guest" ELSE "account"
                /\ UNCHANGED <<refreshPromise, calls>>
             \/ /\ r.kind = "refresh"
                /\ refreshPromise' = FALSE
                /\ calls' = [c \in Calls |-> IF calls[c].pc = "waiting"
                                THEN [calls[c] EXCEPT !.pc = "resent", !.token = accessToken']
                                ELSE calls[c]]
                /\ UNCHANGED user
       \/ r.pc = "refused" /\ r.kind = "refresh" /\ RefreshFails /\ UNCHANGED cookie
       \/ r.pc = "refused" /\ r.kind \in {"register", "login"} /\ UNCHANGED tabVars
       \/ /\ r.kind = "logout"
          /\ Reset
          /\ cookie' = IF r.pc = "refused" THEN cookie ELSE NoToken
          /\ calls' = [calls EXCEPT ![r.call] = Idle]
          /\ UNCHANGED refreshPromise
    /\ UNCHANGED <<redisVars, expired, lost, faults, reused>>

\* Nobody is there for the answer any more.
Unheard(r) ==
    /\ r.pc \in {"granted", "refused", "loggedOut"} /\ ~r.heard
    /\ requests' = requests \ {r}
    /\ UNCHANGED <<redisVars, expired, tabVars, lost, faults, reused>>

\* The connection of a request breaks, and the server works on.
Breaks(r) ==
    /\ r.heard /\ Disturbed < MaxLost
    /\ lost' = lost \cup {r.kind}
    /\ Goes(r, [r EXCEPT !.heard = FALSE])
    /\ \/ /\ r.kind \in {"register", "login", "guest"}
          /\ UNCHANGED <<user, accessToken, refreshPromise, calls>>
       \/ r.kind = "refresh" /\ RefreshFails
       \/ /\ r.kind = "logout"
          /\ Reset
          /\ calls' = [calls EXCEPT ![r.call] = Idle]
          /\ UNCHANGED refreshPromise
    /\ UNCHANGED <<redisVars, expired, cookie, faults, reused>>

\* Time passes.
Expire ==
    /\ expired < issued /\ issued < MaxIssued
    /\ expired' = expired + 1
    /\ UNCHANGED <<redisVars, requests, tabVars, lost, faults, reused>>

AuthNext ==
    \/ Register \/ Login \/ GuestLogin \/ GuestLeaves \/ Expire
    \/ \E c \in Calls : \/ \E kind \in {"api", "logout"} : Start(c, kind)
                        \/ Accepted(c) \/ Unauthorized(c) \/ UnauthorizedAgain(c)
    \/ \E r \in requests : \/ ServerStep(r) \/ Verifies(r) \/ CommandFails(r)
                           \/ Answered(r) \/ Unheard(r) \/ Breaks(r)

AuthSpec == AuthInit /\ [][AuthNext]_authVars

-----------------------------------------------------------------------------
(* Properties.                                                             *)

\* auth-module.md asks for one refresh at a time in the browser, because a
\* refresh token presented twice revokes all sessions.  However calls, logouts,
\* logins and guests of a tab overlap, whatever other answer is lost and
\* whichever other command fails, it never happens while no answer to a refresh
\* is lost and no refresh fails between the mark on its token and the next token.
HonestIsKept == reused => "refresh" \in lost \/ <<"refresh", "generate">> \in faults

=============================================================================
