----------------------------- MODULE AuthSessions -----------------------------
(***************************************************************************)
(* Login, logout and the requests that need a session, statement by        *)
(* statement, beside the seed commands that write the users they read and  *)
(* over the connection pool they share.  A session is named by its token.  *)
(***************************************************************************)
EXTENDS SeedUser, ConnectionPool

CONSTANTS
  Tokens,    \* bound: the tokens that logins draw
  Lifetime,  \* session_ttl_seconds
  MaxTime,   \* bound: the clock
  Actors     \* which seed commands and requests take part

ASSUME TokensAssumption == Nobody \notin Tokens
ASSUME LifetimeAssumption == Lifetime \in Nat \ {0} /\ MaxTime \in Nat

VARIABLES
  now,        \* the clock of the process
  session,    \* the sessions table by token
  loggedOut,  \* auxiliary: the tokens whose logout was answered
  request,    \* what each request does
  actors      \* auxiliary: who takes part

authVars == <<now, session, loggedOut, request, actors>>
vars == <<seedVars, held, authVars>>

NoSession == [email |-> Nobody, expiresAt |-> 0, revoked |-> FALSE]

(* The steps of a quality request once its workspace was found             *)
Evaluating == {"quality", "evaluate", "reread", "report"}

Steps ==
  {"idle", "find user", "create session", "workspaces", "find session", "revoke",
   "resolve", "load user", "owned workspace"} \cup Evaluating

(* live and enabled are auxiliary: whether the token was good when the     *)
(* request began, and its user enabled then or later.                      *)
Idle == [step |-> "idle", email |-> Nobody, token |-> Nobody, live |-> FALSE,
         enabled |-> FALSE, quality |-> FALSE]

AuthTypeOK ==
  /\ SeedTypeOK
  /\ held \in [Slots -> 0..2]
  /\ now \in 0..MaxTime
  /\ session \in [Tokens -> [email : Emails \cup {Nobody}, expiresAt : 0..MaxTime + Lifetime,
                             revoked : BOOLEAN]]
  /\ loggedOut \subseteq Tokens
  /\ request \in [Slots -> [step : Steps, email : Emails \cup {Nobody},
                            token : Tokens \cup {Nobody}, live : BOOLEAN,
                            enabled : BOOLEAN, quality : BOOLEAN]]

AuthInit ==
  /\ SeedInit /\ PoolInit
  /\ now = 0
  /\ session = [t \in Tokens |-> NoSession]
  /\ loggedOut = {}
  /\ request = [r \in Slots |-> Idle]
  /\ actors \in Actors

At(r, step) == request[r].step = step
GoTo(r, step) == request' = [request EXCEPT ![r].step = step]
Issued(t) == session[t] # NoSession
TokenOf(r) == request[r].token
UserOf(r) == session[TokenOf(r)].email

(* generate_session_token draws 48 random bytes: one never drawn before.   *)
IsFresh(t) == ~Issued(t) /\ \A q \in Slots : TokenOf(q) # t

Rows == <<seedVars, now, session, actors>>

(* The answer, whatever its status: the sessions of the request end.       *)
End(r) ==
  /\ request' = [request EXCEPT ![r] = Idle]
  /\ Release(r)
  /\ UNCHANGED <<Rows, loggedOut>>

Continue(r, step) ==
  /\ GoTo(r, step)
  /\ Statement(r, 1)
  /\ UNCHANGED <<Rows, loggedOut>>

-----------------------------------------------------------------------------
(* POST /api/auth/login                                                    *)
BeginLogin(r) ==
  /\ At(r, "idle")
  /\ \E e \in Emails, t \in Tokens :
       /\ IsFresh(t)
       /\ request' = [request EXCEPT ![r] =
            [Idle EXCEPT !.step = "find user", !.email = e, !.token = t]]
  /\ UNCHANGED <<Rows, loggedOut, held>>

(* authenticate_user; whether the password is right is up to the caller.   *)
FindUser(r) ==
  /\ At(r, "find user") /\ CanRun(r, 1)
  /\ \/ Known(request[r].email) /\ ~users[request[r].email].disabled
        /\ Continue(r, "create session")
     \/ End(r)

(* The commit returns the connection.                                      *)
CreateSession(r) ==
  /\ At(r, "create session")
  /\ session' = [session EXCEPT ![TokenOf(r)] =
       [email |-> request[r].email, expiresAt |-> now + Lifetime, revoked |-> FALSE]]
  /\ GoTo(r, "workspaces")
  /\ Release(r)
  /\ UNCHANGED <<seedVars, now, actors, loggedOut>>

(* load_owned_workspaces, and the answer with the cookie                   *)
LoadWorkspaces(r) == At(r, "workspaces") /\ CanRun(r, 1) /\ End(r)

-----------------------------------------------------------------------------
(* POST /api/auth/logout with a cookie                                     *)
BeginLogout(r) ==
  /\ At(r, "idle")
  /\ \E t \in Tokens :
       /\ Issued(t)
       /\ request' = [request EXCEPT ![r] = [Idle EXCEPT !.step = "find session", !.token = t]]
  /\ UNCHANGED <<Rows, loggedOut, held>>

FindSession(r) ==
  /\ At(r, "find session") /\ CanRun(r, 1)
  /\ IF session[TokenOf(r)].revoked
       THEN /\ request' = [request EXCEPT ![r] = Idle]
            /\ Release(r)
            /\ loggedOut' = loggedOut \cup {TokenOf(r)}
            /\ UNCHANGED Rows
       ELSE Continue(r, "revoke")

(* Wrong variant: the revocation is not committed.                         *)
RevokeUncommitted(r) ==
  /\ At(r, "revoke")
  /\ loggedOut' = loggedOut \cup {TokenOf(r)}
  /\ request' = [request EXCEPT ![r] = Idle]
  /\ Release(r)
  /\ UNCHANGED Rows

Revoke(r) ==
  /\ At(r, "revoke")
  /\ session' = [session EXCEPT ![TokenOf(r)].revoked = TRUE]
  /\ loggedOut' = loggedOut \cup {TokenOf(r)}
  /\ request' = [request EXCEPT ![r] = Idle]
  /\ Release(r)
  /\ UNCHANGED <<seedVars, now, actors>>

-----------------------------------------------------------------------------
(* Any other request of a workspace; a quality request opens a session of  *)
(* its own after its workspace was found.                                  *)
BeginRequest(r) ==
  /\ At(r, "idle")
  /\ \E t \in Tokens, quality \in BOOLEAN :
       /\ Issued(t)
       /\ request' = [request EXCEPT ![r] =
            [Idle EXCEPT !.step = "resolve", !.token = t, !.quality = quality,
                         !.live = t \notin loggedOut /\ now < session[t].expiresAt,
                         !.enabled = ~users[session[t].email].disabled]]
  /\ UNCHANGED <<Rows, loggedOut, held>>

(* resolve_current_user: the session, then its user                        *)
Resolve(r) ==
  /\ At(r, "resolve") /\ CanRun(r, 1)
  /\ IF session[TokenOf(r)].revoked \/ session[TokenOf(r)].expiresAt <= now
       THEN End(r)
       ELSE Continue(r, "load user")

LoadUser(r) ==
  /\ At(r, "load user")
  /\ IF users[UserOf(r)].disabled THEN End(r) ELSE Continue(r, "owned workspace")

(* get_owned_workspace, and what the request is for                        *)
OwnedWorkspace(r) ==
  /\ At(r, "owned workspace")
  /\ \/ /\ \E g \in Slugs : owner[g] = UserOf(r)
        /\ Continue(r, IF request[r].quality THEN "quality" ELSE "workspaces")
     \/ End(r)

(* get_quality_input_provider: the auth session's transaction stays open   *)
(* and keeps its connection.                                               *)
OpenQuality(r) ==
  /\ At(r, "quality")
  /\ Statement(r, 2)
  /\ GoTo(r, "evaluate")
  /\ UNCHANGED <<Rows, loggedOut>>

(* The inputs are refused, or no candle was fetched.                       *)
EvaluateQuality(r) == At(r, "evaluate") /\ End(r)

(* upsert_candles: its commit or its rollback returns the connection of the*)
(* quality session, and the one of the auth session stays taken.  What was *)
(* committed is read again, with a connection of the pool.                 *)
UpsertCandles(r) ==
  /\ At(r, "evaluate")
  /\ GoTo(r, "reread") \/ GoTo(r, "report")
  /\ ReleaseSecond(r)
  /\ UNCHANGED <<Rows, loggedOut>>

RereadCandles(r) ==
  /\ At(r, "reread")
  /\ Statement(r, 2)
  /\ GoTo(r, "report")
  /\ UNCHANGED <<Rows, loggedOut>>

AnswerQuality(r) == At(r, "report") /\ End(r)

-----------------------------------------------------------------------------
WaitsForConnection(r) ==
  /\ Free = 0
  /\ \/ held[r] = 0 /\ request[r].step \notin {"idle"}
     \/ request[r].step \in {"quality", "reread"} /\ held[r] = 1

(* pool_timeout: the statement fails, and with it the request.             *)
PoolTimeout(r) == WaitsForConnection(r) /\ ~At(r, "reread") /\ End(r)

(* The failure of the second reading is a warning of the report.           *)
RereadTimeout(r) ==
  /\ At(r, "reread") /\ WaitsForConnection(r)
  /\ GoTo(r, "report")
  /\ UNCHANGED <<Rows, loggedOut, held>>

-----------------------------------------------------------------------------
Tick ==
  /\ now < MaxTime
  /\ now' = now + 1
  /\ UNCHANGED <<seedVars, held, session, loggedOut, request, actors>>

(* A seed command runs in its own process, with its own connection.        *)
Beside ==
  /\ request' = [r \in Slots |->
       IF At(r, "idle") \/ TokenOf(r) = Nobody \/ ~Issued(TokenOf(r)) THEN request[r]
       ELSE [request[r] EXCEPT !.enabled = @ \/ ~users'[UserOf(r)].disabled]]
  /\ UNCHANGED <<held, now, session, loggedOut, actors>>

Seed(s) == s \in actors /\ RunSeed(s) /\ Beside
SeedBreaks(s) == s \in actors /\ SeedFails(s) /\ Beside

Disable(e) == DisableUser(e) /\ UNCHANGED <<held, authVars>>

Begin(r) == r \in actors /\ (BeginLogin(r) \/ BeginLogout(r) \/ BeginRequest(r))

Proceed(r) ==
  \/ FindUser(r) \/ CreateSession(r) \/ LoadWorkspaces(r)
  \/ FindSession(r) \/ Revoke(r)
  \/ Resolve(r) \/ LoadUser(r) \/ OwnedWorkspace(r) \/ OpenQuality(r)
  \/ EvaluateQuality(r) \/ UpsertCandles(r) \/ RereadCandles(r) \/ AnswerQuality(r)
  \/ PoolTimeout(r) \/ RereadTimeout(r)

AuthNext ==
  \/ Tick
  \/ \E r \in Slots : Begin(r) \/ Proceed(r)
  \/ \E s \in Seeds : Seed(s) \/ SeedBreaks(s)
  \/ \E e \in Emails : Disable(e)

(* Every request runs in a worker thread, every seed command to its end;   *)
(* none has to fail.                                                       *)
AuthSpec ==
  /\ AuthInit /\ [][AuthNext]_vars
  /\ \A r \in Slots : WF_vars(Proceed(r))
  /\ \A s \in Seeds : WF_vars(Seed(s))

-----------------------------------------------------------------------------
(* A request that gets past its checks had a session that was neither      *)
(* logged out nor expired when it began, and a user that was enabled then  *)
(* or later: after the answer to a logout no request is served.            *)
ServedOnlyWhileLoggedIn ==
  \A r \in Slots :
    /\ request[r].step \in {"load user", "owned workspace"} \cup Evaluating => request[r].live
    /\ request[r].step \in {"owned workspace"} \cup Evaluating => request[r].enabled

(* Requests can keep each other from going on only when every connection   *)
(* of the pool is held by a quality request that waits for its second one, *)
(* to read its inputs or to read again what it has cached; no other request*)
(* holds one while it waits, and none is lost.                             *)
Starved ==
  /\ Free = 0
  /\ \A r \in Slots : held[r] > 0 => WaitsForConnection(r)

WaitForSecond == {r \in Slots : request[r].step \in {"quality", "reread"} /\ held[r] = 1}

StarvedByQualityOnly ==
  /\ \A r \in Slots : At(r, "idle") => held[r] = 0
  /\ Starved => Cardinality(WaitForSecond) = PoolSize

(* Each request is answered and each seed command ends: whoever waits for  *)
(* a connection or for a row gets it, or its wait is over.                 *)
EverybodyIsAnswered ==
  /\ \A r \in Slots : []<>At(r, "idle")
  /\ \A s \in Seeds : s \in actors => <>(seed[s].step \in {"done", "failed"})
=============================================================================
