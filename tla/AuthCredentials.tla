--------------------------- MODULE AuthCredentials ---------------------------
(***************************************************************************)
(* The J-Quants credentials: AuthUseCase over RedisAuthRepository, and what   *)
(* leads to it: the endpoints of /auth, JQuantsClientFactory in a worker, and  *)
(* the authentication of the fetch command.                                   *)
(*                                                                          *)
(* The credentials of an email are four keys of Redis, each read, written and *)
(* deleted on its own, so that logins, logouts and workers interleave between *)
(* any two of them.  A flow of requests takes seconds and the tokens live for *)
(* hours: time passes only between the flows.                                 *)
(*                                                                          *)
(* A token is written as the time at which J-Quants stops to accept it.       *)
(***************************************************************************)
EXTENDS Integers, Sequences, FiniteSets

LOCAL INSTANCE SequencesExt

CONSTANTS
    Procs,        \* requests, tasks and commands in progress together
    IdLife,       \* 24 hours
    RefreshLife,  \* 7 days
    IdTtl,        \* ID_TOKEN_TTL, 23 hours
    RefreshTtl,   \* REFRESH_TOKEN_TTL, 7 days
    Soon,         \* threshold_minutes of is_expiring_soon, 5 minutes
    NoToken,      \* None for a token, and for a key that Redis does not have
    MaxTime       \* bound: the end of time

ASSUME LifeAssumption ==
    /\ {IdLife, RefreshLife, IdTtl, RefreshTtl, Soon, MaxTime} \subseteq Nat
    /\ NoToken \notin Nat
    /\ 0 < IdTtl /\ IdTtl < IdLife /\ IdLife <= RefreshTtl
    /\ IdTtl + Soon < IdLife

VARIABLES
    now,
    store,   \* the keys of the email in Redis
    flow,    \* per process: what its authentication does next
    token    \* per process: the id token its client was made with

authVars == <<now, store, flow, token>>

Password == "given"
Placeholder == "REDIS_STORED_CREDENTIAL"

Keys == {"metadata", "refresh", "id", "expires"}
NoKey == [value |-> NoToken, until |-> 0]
NoCredentials == [refresh |-> NoToken, id |-> NoToken, expires |-> NoToken]

\* `by' is who authenticates; `again' is set once a refresh was found necessary.
Idle == [by |-> "nobody", do |-> "nothing", key |-> "metadata", again |-> FALSE,
         password |-> Password, creds |-> NoCredentials]

Times == 0..(MaxTime + IdLife + RefreshLife + RefreshTtl)
Tokens == Times \cup {NoToken}

AuthTypeOK ==
    /\ now \in 0..MaxTime
    /\ store \in [Keys -> [value : Tokens, until : Times]]
    /\ \A k \in Keys : store[k] # NoKey => now < store[k].until
    /\ flow \in [Procs -> [by : {"nobody", "login", "refresh", "logout", "task", "command"},
                           do : {"nothing", "load", "ask", "save", "delete"},
                           key : Keys, again : BOOLEAN,
                           password : {Password, Placeholder},
                           creds : [{"refresh", "id", "expires"} -> Tokens]]]
    /\ token \in [Procs -> Tokens]

AuthInit ==
    /\ now = 0
    /\ store = [k \in Keys |-> NoKey]
    /\ flow = [p \in Procs |-> Idle]
    /\ token = [p \in Procs |-> NoToken]
-----------------------------------------------------------------------------
(* JQuantsCredentials *)

IsExpired(creds) == now >= creds.expires

IsExpiringSoon(creds) == now + Soon >= creds.expires

\* There is an id token only when both of its keys were there.
HasIdToken(creds) == creds.id # NoToken /\ creds.expires # NoToken

HasValidIdToken(creds) == HasIdToken(creds) /\ ~IsExpired(creds)

NeedsRefresh(creds) == ~HasIdToken(creds) \/ IsExpired(creds) \/ IsExpiringSoon(creds)
-----------------------------------------------------------------------------
(* AuthUseCase: what a flow does next *)

Step(f, do, key) == [f EXCEPT !.do = do, !.key = key]

Return(f) == [f EXCEPT !.do = "return"]
Raise(f) == [f EXCEPT !.do = "raise"]

\* ensure_valid_token and refresh_token, which authenticates again, with the
\* password of the credentials, when there is no refresh token
EnsureValidToken(f) ==
    LET g == [f EXCEPT !.again = TRUE] IN
    IF ~NeedsRefresh(f.creds)         THEN Return(f)
    ELSE IF f.creds.refresh # NoToken THEN Step(g, "ask", "id")
    ELSE Step([g EXCEPT !.creds = NoCredentials], "load", "metadata")

\* authenticate returns; the factory of a worker goes on to ensure_valid_token
Authenticated(f) ==
    IF f.by = "task" /\ ~f.again THEN EnsureValidToken(f) ELSE Return(f)

\* load_credentials has returned.  Credentials from Redis have the placeholder
\* for a password.
WithPlaceholder(f) == [f EXCEPT !.password = Placeholder]

\* ... in authenticate
Authenticate(f, found) ==
    IF found /\ HasValidIdToken(f.creds)
      THEN Authenticated(WithPlaceholder(f))
      ELSE Step([f EXCEPT !.creds = NoCredentials], "ask", "refresh")

\* ... in get_valid_credentials, for a request to refresh: without them it is
\* refused, with them it goes on to ensure_valid_token.
GetValidCredentials(f, found) ==
    IF found /\ HasValidIdToken(f.creds)
      THEN EnsureValidToken(WithPlaceholder(f))
      ELSE Raise(f)

Loaded(f, found) ==
    IF f.by = "refresh" /\ ~f.again THEN GetValidCredentials(f, found)
                                    ELSE Authenticate(f, found)

\* A flow that has returned to a task or a command makes a client with its token.
GoOn(p, f) ==
    /\ flow' = [flow EXCEPT ![p] = IF f.do \in {"return", "raise"} THEN Idle ELSE f]
    /\ token' = IF f.do = "return" /\ f.by \in {"task", "command"}
                  THEN [token EXCEPT ![p] = f.creds.id]
                  ELSE token
-----------------------------------------------------------------------------
(* RedisAuthRepository *)

LoadOrder == <<"metadata", "refresh", "id", "expires">>
SaveOrder == <<"refresh", "id", "expires", "metadata">>
DeleteOrder == <<"refresh", "id", "expires", "metadata">>

\* The step of f with the key after its own, or last when that was the last key
Following(f, order, last) ==
    LET n == CHOOSE n \in DOMAIN order : order[n] = f.key IN
    IF n = Len(order) THEN last ELSE Step(f, f.do, order[n + 1])

\* load_credentials, one GET
Load(p) ==
    LET f == flow[p]
        value == store[f.key].value
        g == [f EXCEPT !.creds = [k \in DOMAIN @ |-> IF k = f.key THEN value ELSE @[k]]] IN
    /\ f.do = "load"
    /\ GoOn(p, IF f.key = "metadata" /\ value = NoToken
                 THEN Loaded(f, FALSE)
                 ELSE Following(g, LoadOrder, Loaded(g, TRUE)))
    /\ UNCHANGED <<now, store>>

\* Slip: the id token is kept for as long as it lives.
TtlOfLife(key) == IF key \in {"id", "expires"} THEN IdLife ELSE RefreshTtl

Ttl(key) == IF key \in {"id", "expires"} THEN IdTtl ELSE RefreshTtl

\* save_credentials, one SETEX
Save(p) ==
    LET f == flow[p]
        value == IF f.key = "metadata" THEN now ELSE f.creds[f.key] IN
    /\ f.do = "save"
    /\ store' = [store EXCEPT ![f.key] = [value |-> value, until |-> now + Ttl(f.key)]]
    /\ GoOn(p, Following(f, SaveOrder, Authenticated(f)))
    /\ UNCHANGED now

\* delete_credentials, one DEL
Delete(p) ==
    LET f == flow[p] IN
    /\ f.do = "delete"
    /\ store' = [store EXCEPT ![f.key] = NoKey]
    /\ GoOn(p, Following(f, DeleteOrder, Return(f)))
    /\ UNCHANGED now

\* What get_refresh_token and get_id_token return, of either repository
WithRefreshToken(creds) == [creds EXCEPT !.refresh = now + RefreshLife]
WithIdToken(creds) == [creds EXCEPT !.id = now + IdLife, !.expires = now + IdLife]

\* POST /token/auth_user
GetRefreshToken(p) ==
    LET f == flow[p] IN
    /\ f.do = "ask" /\ f.key = "refresh"
    /\ GoOn(p, Step([f EXCEPT !.creds = WithRefreshToken(@)], "ask", "id"))
    /\ UNCHANGED <<now, store>>

\* POST /token/auth_refresh.  The command keeps its credentials in memory, the
\* others save them to Redis.
GetIdToken(p) ==
    LET f == flow[p]
        g == [f EXCEPT !.creds = WithIdToken(@)] IN
    /\ f.do = "ask" /\ f.key = "id"
    /\ GoOn(p, IF now >= f.creds.refresh THEN Raise(f)
               ELSE IF f.by = "command" THEN Return(g)
               ELSE Step(g, "save", "refresh"))
    /\ UNCHANGED <<now, store>>

\* Redis or J-Quants gives an error, refuses the password or the refresh token,
\* or the process is lost.
Fails(p) ==
    /\ flow[p].do # "nothing"
    /\ GoOn(p, Raise(flow[p]))
    /\ UNCHANGED <<now, store>>
-----------------------------------------------------------------------------
Begins(p, by, do, key) ==
    /\ flow[p] = Idle /\ token[p] = NoToken
    /\ flow' = [flow EXCEPT ![p] = Step([Idle EXCEPT !.by = by], do, key)]
    /\ UNCHANGED <<now, store, token>>

\* POST /auth/login, /auth/refresh and /auth/logout
Login(p) == Begins(p, "login", "load", "metadata")
RefreshToken(p) == Begins(p, "refresh", "load", "metadata")
Logout(p) == Begins(p, "logout", "delete", "refresh")

\* A fetch task and the fetch command
CreateAuthenticatedClient(p) == Begins(p, "task", "load", "metadata")
AuthenticateJQuants(p) == Begins(p, "command", "ask", "refresh")

AuthStep(p) == Load(p) \/ Save(p) \/ Delete(p) \/ GetRefreshToken(p) \/ GetIdToken(p)

\* An hour or a minute goes by, and Redis drops the keys whose time is up.
Passes ==
    /\ now < MaxTime
    /\ \A p \in Procs : flow[p] = Idle
    /\ now' = now + 1
    /\ store' = [k \in Keys |-> IF store[k].until <= now + 1 THEN NoKey ELSE store[k]]
    /\ UNCHANGED <<flow, token>>
-----------------------------------------------------------------------------
\* The placeholder that stands for the password in credentials from Redis is
\* never sent to J-Quants, whatever logouts and failures do to the four keys
\* while a worker or a refresh request goes from one to the next
\* (load_credentials, refresh_token).
PlaceholderNeverSent ==
    \A p \in Procs :
        flow[p].do = "ask" /\ flow[p].key = "refresh" => flow[p].password = Password

=============================================================================
