-------------------------- MODULE JQuantsFetchProofs --------------------------
(***************************************************************************)
(* What the credentials in Redis owe to ID_TOKEN_TTL, what a fetch leaves in the *)
(* table and which days it works through, for every number of processes, every   *)
(* lifetime, calendar and job that the assumptions allow, every listing J-Quants *)
(* may have and every schedule of logins, logouts, fetches, pages, retries,      *)
(* failures and commits.                                                     *)
(*                                                                          *)
(* The credentials: an id token is written to Redis at the time it is issued, and *)
(* its key is gone IdLife - IdTtl before the token is too old.  So whatever is   *)
(* read has at least that long to live, is never found to need a refresh, and   *)
(* the branch that would send the placeholder is never taken.                   *)
(*                                                                          *)
(* The table: between two requests a fetch has the records of the pages before   *)
(* the one it asks for, and has saved the records of every target it is through  *)
(* with unless one of them failed.  Once one has failed, a part of the records of *)
(* its targets may be saved without the rest; of such a fetch only a task is     *)
(* committed, and then as failed.                                               *)
(*                                                                          *)
(* The days: a period is its months, each cut at the end of a month, and the    *)
(* dates of a job are the days of the period it names, in turn.  A fetch does   *)
(* one target after the other, so what it has left is an end of that turn.      *)
(***************************************************************************)
EXTENDS JQuantsFetch, InductionLemmas, SequenceTheorems, TLAPS

LOCAL INSTANCE SequencesExt
LOCAL INSTANCE FiniteSetsExt

Kept == IdLife - IdTtl

\* A flow that goes on: it has the password it was given, and needed no refresh.
Flows == [by : {"nobody", "login", "refresh", "logout", "task", "command"},
          do : {"nothing", "load", "ask", "save", "delete"},
          key : Keys, again : {FALSE}, password : {Password},
          creds : [{"refresh", "id", "expires"} -> Tokens]]

Lasts(value, t) == value # NoToken => value > t + Kept

GoesOn(f) ==
    /\ f \in Flows
    /\ f.do = "load" => Lasts(f.creds.id, now) /\ Lasts(f.creds.expires, now)
    /\ f.do = "save" => f.creds.id = now + IdLife /\ f.creds.expires = now + IdLife
    /\ f.do = "delete" => f.by = "logout"

\* A flow that is over: the token it returns lives long enough.
IsOver(f) ==
    /\ f.do \in {"return", "raise"}
    /\ f.creds.id \in Tokens
    /\ f.do = "return" /\ f.by \in {"task", "command"} => Lasts(f.creds.id, now)

StoreInv ==
    /\ now \in 0..MaxTime
    /\ store \in [Keys -> [value : Tokens, until : Times]]
    /\ \A k \in Keys : store[k] # NoKey => now < store[k].until
    /\ \A k \in {"id", "expires"} :
         store[k].value # NoToken => store[k].until > now
                                     /\ store[k].value >= store[k].until + Kept

FlowInv ==
    /\ flow = [p \in Procs |-> flow[p]]
    /\ \A p \in Procs : GoesOn(flow[p])

\* A task is never older than its limit, authenticates when it starts, and its
\* token outlives the limit.
Covered(p) ==
    fetch[p].job.by = "task" =>
        /\ fetch[p].since \in Nat
        /\ now <= fetch[p].since + TaskLimit
        /\ flow[p] # Idle => fetch[p].since = now
        /\ token[p] # NoToken => token[p] > fetch[p].since + TaskLimit

FetchInv ==
    /\ fetch = [p \in Procs |-> fetch[p]]
    /\ token \in [Procs -> Tokens]
    /\ \A p \in Procs : {"job", "since"} \subseteq DOMAIN fetch[p] /\ Covered(p)

Inv == StoreInv /\ FlowInv /\ FetchInv

Same(f, g) == DOMAIN f = DOMAIN g /\ f.job = g.job /\ f.since = g.since
-----------------------------------------------------------------------------
\* What the assumptions say of the lifetimes.
LEMMA ConstantFacts ==
    /\ IdLife \in Nat /\ RefreshLife \in Nat /\ IdTtl \in Nat /\ RefreshTtl \in Nat
    /\ Soon \in Nat /\ TaskLimit \in Nat /\ NoToken \notin Nat
    /\ Kept \in Nat /\ Soon < Kept /\ TaskLimit <= Kept /\ Kept < IdLife
    /\ IdTtl > 0 /\ RefreshTtl > 0
BY LifeAssumption, FetchAssumption DEF Kept

\* Every time that is written is within the times of the instance.
LEMMA TimesFacts ==
    /\ MaxTime \in Nat /\ Times \subseteq Nat /\ 0 \in Times /\ NoToken \notin Times
    /\ Tokens = Times \cup {NoToken}
    /\ \A t \in Tokens : t # NoToken => t \in Nat
    /\ \A t \in 0..MaxTime :
         /\ t \in Nat /\ t \in Times /\ t \in Tokens /\ t + IdLife \in Times /\ t + RefreshLife \in Times
         /\ t + IdTtl \in Times /\ t + RefreshTtl \in Times
<1>1. {MaxTime, IdLife, RefreshLife, IdTtl, RefreshTtl} \subseteq Nat /\ IdTtl < IdLife
  BY LifeAssumption
<1> QED BY <1>1, ConstantFacts DEF Times, Tokens

\* What is kept for longer than Kept is not refreshed: ensure_valid_token returns.
LEMMA EnsureReturns ==
    ASSUME now \in 0..MaxTime, NEW f, f.creds.id \in Tokens, f.creds.expires \in Tokens,
           HasIdToken(f.creds), Lasts(f.creds.expires, now)
    PROVE  EnsureValidToken(f) = Return(f)
<1>0. now \in Nat /\ f.creds.expires \in Nat
  BY TimesFacts DEF HasIdToken
<1>1. ~NeedsRefresh(f.creds)
  BY <1>0, ConstantFacts DEF NeedsRefresh, HasIdToken, Lasts, IsExpired, IsExpiringSoon
<1> QED BY <1>1 DEF EnsureValidToken

\* authenticate gives its caller a token that lasts.
LEMMA AuthenticatedReturns ==
    ASSUME now \in 0..MaxTime, NEW f, f.creds.id \in Tokens, f.creds.expires \in Tokens,
           HasIdToken(f.creds), Lasts(f.creds.expires, now)
    PROVE  Authenticated(f) = Return(f)
BY EnsureReturns DEF Authenticated

\* The credentials of which nothing has been read yet.
LEMMA NoCredentialsFit == NoCredentials \in [{"refresh", "id", "expires"} -> Tokens]
BY TimesFacts DEF NoCredentials

\* When load_credentials has returned, the flow asks for tokens with the password
\* it was given, or is over.
LEMMA LoadedGoes ==
    ASSUME now \in 0..MaxTime, NEW f \in Flows, NEW found \in BOOLEAN,
           Lasts(f.creds.id, now), Lasts(f.creds.expires, now)
    PROVE  GoesOn(Loaded(f, found)) \/ IsOver(Loaded(f, found))
<1> DEFINE g == WithPlaceholder(f)
           asks == Step([f EXCEPT !.creds = NoCredentials], "ask", "refresh")
<1>1. /\ g.creds = f.creds /\ g.by = f.by
      /\ Return(g).do = "return" /\ Return(g).creds = f.creds /\ Return(g).by = f.by
  BY DEF Flows, WithPlaceholder, Return
<1>2. IsOver(Return(g))
  BY <1>1 DEF IsOver, Flows
<1>3. IsOver(Raise(f))
  BY DEF Raise, IsOver, Flows
<1>4. GoesOn(asks)
  BY TimesFacts, NoCredentialsFit DEF GoesOn, Step, Flows, Keys
<1>5. CASE found /\ HasValidIdToken(f.creds)
  <2>1. /\ HasIdToken(g.creds) /\ Lasts(g.creds.expires, now)
        /\ g.creds.id \in Tokens /\ g.creds.expires \in Tokens
    BY <1>1, <1>5 DEF HasValidIdToken, Flows
  <2>2. EnsureValidToken(g) = Return(g) /\ Authenticated(g) = Return(g)
    BY <2>1, EnsureReturns, AuthenticatedReturns
  <2> QED BY <1>2, <1>5, <2>2 DEF Loaded, Authenticate, GetValidCredentials
<1>6. CASE ~(found /\ HasValidIdToken(f.creds))
  BY <1>3, <1>4, <1>6 DEF Loaded, Authenticate, GetValidCredentials
<1> QED BY <1>5, <1>6

-----------------------------------------------------------------------------
(* The steps of a flow *)

\* A flow goes to the next key of its order, or ends with the last.
LEMMA FollowingIs ==
    ASSUME NEW f \in Flows, NEW last, NEW order \in {LoadOrder, SaveOrder, DeleteOrder}
    PROVE  \/ Following(f, order, last) = last
           \/ \E k \in Keys : Following(f, order, last) = Step(f, f.do, k)
<1> DEFINE n == CHOOSE n \in DOMAIN order : order[n] = f.key
<1>1. /\ Len(order) = 4 /\ DOMAIN order = 1..4
      /\ \A i \in 1..4 : order[i] \in Keys
      /\ \E i \in 1..4 : order[i] = f.key
  BY DEF LoadOrder, SaveOrder, DeleteOrder, Keys, Flows
<1>2. n \in 1..4
  BY <1>1
<1>3. CASE n = 4
  BY <1>1, <1>3 DEF Following
<1>4. CASE n # 4
  <2>1. order[n + 1] \in Keys
    BY <1>1, <1>2, <1>4
  <2>2. Following(f, order, last) = Step(f, f.do, order[n + 1])
    BY <1>1, <1>4 DEF Following
  <2> QED BY <2>1, <2>2
<1> QED BY <1>3, <1>4

\* Going to another key changes nothing else.
LEMMA StepGoesOn ==
    ASSUME NEW f, GoesOn(f), NEW k \in Keys
    PROVE  GoesOn(Step(f, f.do, k))
BY DEF GoesOn, Step, Flows

\* What a flow becomes keeps the invariant; its token is covered because a fetch
\* that authenticates has just started.
LEMMA GoOnKeeps ==
    ASSUME now \in 0..MaxTime, now' = now, FlowInv, FetchInv, fetch' = fetch,
           NEW p \in Procs, flow[p].do # "nothing",
           NEW f, GoesOn(f) \/ IsOver(f), GoOn(p, f)
    PROVE  FlowInv' /\ FetchInv'
<1>1. flow[p] # Idle
  BY DEF Idle
<1>2. GoesOn(Idle)
  BY TimesFacts, NoCredentialsFit DEF Idle, GoesOn, Flows, Keys
<1>3. PICK g : GoesOn(g) /\ flow' = [flow EXCEPT ![p] = g]
  <2>1. CASE f.do \in {"return", "raise"}
    BY <1>2, <2>1 DEF GoOn
  <2>2. CASE f.do \notin {"return", "raise"}
    BY <2>2 DEF GoOn, IsOver
  <2> QED BY <2>1, <2>2
<1>4. \A q : GoesOn(q) <=> GoesOn(q)'
  BY DEF GoesOn, Lasts
<1>5. FlowInv'
  BY <1>3, <1>4 DEF FlowInv
<1>6. /\ token' = token
      \/ /\ token' = [token EXCEPT ![p] = f.creds.id]
         /\ f.creds.id \in Tokens /\ Lasts(f.creds.id, now)
  BY DEF GoOn, GoesOn, IsOver, Flows
<1>7. token' \in [Procs -> Tokens]
  BY <1>6 DEF FetchInv
<1>8. ASSUME NEW q \in Procs PROVE Covered(q)'
  <2>1. Covered(q)
    BY DEF FetchInv
  <2>2. CASE q # p
    BY <1>3, <1>6, <2>1, <2>2 DEF Covered, FlowInv, FetchInv
  <2>3. CASE q = p
    <3> SUFFICES ASSUME fetch[p].job.by = "task"
                 PROVE  token'[p] # NoToken => token'[p] > fetch[p].since + TaskLimit
      BY <1>1, <2>1, <2>3 DEF Covered
    <3>1. fetch[p].since = now /\ (token[p] # NoToken => token[p] > fetch[p].since + TaskLimit)
      BY <1>1, <2>1, <2>3 DEF Covered
    <3>2. CASE token' = token
      BY <3>1, <3>2
    <3>3. CASE token' = [token EXCEPT ![p] = f.creds.id] /\ f.creds.id \in Tokens
               /\ Lasts(f.creds.id, now)
      <4>1. token'[p] = f.creds.id
        BY <3>3 DEF FetchInv
      <4>2. now \in Nat /\ (f.creds.id # NoToken => f.creds.id \in Nat)
        BY <3>3, TimesFacts
      <4> QED BY <3>1, <3>3, <4>1, <4>2, ConstantFacts DEF Lasts
    <3> QED BY <1>6, <3>2, <3>3
  <2> QED BY <2>2, <2>3
<1> QED BY <1>5, <1>7, <1>8 DEF FetchInv

-----------------------------------------------------------------------------
\* What is read from a key that is there lives for longer than Kept.
LEMMA LoadKeeps ==
    ASSUME Inv, fetch' = fetch, NEW p \in Procs, Load(p)
    PROVE  Inv'
<1> DEFINE f == flow[p]
           value == store[f.key].value
           g == [f EXCEPT !.creds = [k \in DOMAIN @ |-> IF k = f.key THEN value ELSE @[k]]]
<1>1. f.do = "load" /\ f \in Flows /\ GoesOn(f) /\ now \in 0..MaxTime /\ now' = now /\ store' = store
  BY DEF Inv, FlowInv, StoreInv, GoesOn, Load
<1>2. value \in Tokens /\ (f.key \in {"id", "expires"} => Lasts(value, now))
  <2>1. f.key \in Keys
    BY <1>1 DEF Flows
  <2>2. value \in Tokens /\ store[f.key].until \in Nat /\ now \in Nat
        /\ (value # NoToken => value \in Nat)
    BY <1>1, <2>1, TimesFacts DEF Inv, StoreInv
  <2> QED BY <2>1, <2>2, ConstantFacts DEF Inv, StoreInv, Lasts
<1>3. g \in Flows /\ g.do = "load" /\ Lasts(g.creds.id, now) /\ Lasts(g.creds.expires, now)
  <2>1. /\ f.creds \in [{"refresh", "id", "expires"} -> Tokens]
        /\ Lasts(f.creds.id, now) /\ Lasts(f.creds.expires, now)
    BY <1>1 DEF Flows, GoesOn
  <2> DEFINE creds == [k \in DOMAIN f.creds |-> IF k = f.key THEN value ELSE f.creds[k]]
  <2>2. /\ creds \in [{"refresh", "id", "expires"} -> Tokens]
        /\ Lasts(creds.id, now) /\ Lasts(creds.expires, now)
    BY <1>2, <2>1
  <2>3. g = [f EXCEPT !.creds = creds]
    OBVIOUS
  <2> HIDE DEF creds, g
  <2> QED BY <1>1, <2>2, <2>3 DEF Flows
<1>4. GoesOn(g)
  BY <1>3 DEF GoesOn
<1> HIDE DEF g
<1>5. PICK h : (GoesOn(h) \/ IsOver(h)) /\ GoOn(p, h)
  <2>1. CASE f.key = "metadata" /\ value = NoToken
    <3>1. GoesOn(Loaded(f, FALSE)) \/ IsOver(Loaded(f, FALSE))
      BY <1>1, LoadedGoes DEF GoesOn
    <3>2. GoOn(p, Loaded(f, FALSE))
      BY <2>1 DEF Load
    <3> QED BY <3>1, <3>2
  <2>2. CASE ~(f.key = "metadata" /\ value = NoToken)
    <3> DEFINE h == Following(g, LoadOrder, Loaded(g, TRUE))
    <3>1. GoesOn(Loaded(g, TRUE)) \/ IsOver(Loaded(g, TRUE))
      BY <1>1, <1>3, LoadedGoes
    <3>2. h = Loaded(g, TRUE) \/ \E k \in Keys : h = Step(g, g.do, k)
      BY <1>3, FollowingIs
    <3>3. GoesOn(h) \/ IsOver(h)
      BY <1>4, <3>1, <3>2, StepGoesOn
    <3>4. GoOn(p, h)
      BY <2>2 DEF Load, g
    <3> QED BY <3>3, <3>4
  <2> QED BY <2>1, <2>2
<1>6. FlowInv' /\ FetchInv'
  BY <1>1, <1>5, GoOnKeeps DEF Inv
<1>7. StoreInv'
  BY <1>1 DEF Inv, StoreInv
<1> QED BY <1>6, <1>7 DEF Inv

\* The one place where a token is written: it has just been issued.
LEMMA SaveKeeps ==
    ASSUME Inv, fetch' = fetch, NEW p \in Procs, Save(p)
    PROVE  Inv'
<1> DEFINE f == flow[p]
           value == IF f.key = "metadata" THEN now ELSE f.creds[f.key]
           h == Following(f, SaveOrder, Authenticated(f))
<1>1. /\ f.do = "save" /\ f \in Flows /\ GoesOn(f) /\ now \in 0..MaxTime /\ now' = now
      /\ f.creds.id = now + IdLife /\ f.creds.expires = now + IdLife
      /\ f.key \in Keys /\ f.creds \in [{"refresh", "id", "expires"} -> Tokens]
  BY DEF Inv, FlowInv, StoreInv, GoesOn, Save, Flows
<1>2. Authenticated(f) = Return(f)
  BY <1>1, TimesFacts, ConstantFacts, AuthenticatedReturns DEF HasIdToken, Lasts
<1>3. IsOver(Return(f))
  BY <1>1, TimesFacts, ConstantFacts DEF IsOver, Return, Flows, Lasts
<1>4. h = Return(f) \/ \E k \in Keys : h = Step(f, f.do, k)
  BY <1>1, <1>2, FollowingIs
<1>5. (GoesOn(h) \/ IsOver(h)) /\ GoOn(p, h)
  BY <1>1, <1>3, <1>4, StepGoesOn DEF Save
<1>6. FlowInv' /\ FetchInv'
  BY <1>1, <1>5, GoOnKeeps DEF Inv
<1>7. store' = [store EXCEPT ![f.key] = [value |-> value, until |-> now + Ttl(f.key)]]
  BY DEF Save
<1>8. /\ value \in Tokens /\ Ttl(f.key) \in Nat \ {0} /\ now + Ttl(f.key) \in Times
      /\ now \in Nat
      /\ f.key \in {"id", "expires"} => value = now + IdLife /\ Ttl(f.key) = IdTtl
  <2>1. now \in Nat /\ now \in Tokens
    BY <1>1, TimesFacts
  <2>2. value \in Tokens /\ (f.key \in {"id", "expires"} => value = now + IdLife)
    BY <1>1, <2>1 DEF Keys
  <2>3. /\ Ttl(f.key) \in Nat \ {0} /\ now + Ttl(f.key) \in Times
        /\ f.key \in {"id", "expires"} => Ttl(f.key) = IdTtl
    BY <1>1, TimesFacts, ConstantFacts DEF Ttl
  <2> QED BY <2>1, <2>2, <2>3
<1>9. StoreInv'
  <2> HIDE DEF value, h
  <2>1. store' \in [Keys -> [value : Tokens, until : Times]]
    BY <1>1, <1>7, <1>8 DEF Inv, StoreInv
  <2>2. ASSUME NEW k \in {"id", "expires"}, store'[k].value # NoToken
        PROVE  store'[k].until > now' /\ store'[k].value >= store'[k].until + Kept
    <3>0. k \in Keys
      BY DEF Keys
    <3>1. CASE k # f.key
      BY <1>1, <1>7, <2>2, <3>0, <3>1 DEF Inv, StoreInv
    <3>2. CASE k = f.key
      <4>1. store'[k] = [value |-> value, until |-> now + Ttl(f.key)]
        BY <1>7, <3>0, <3>2 DEF Inv, StoreInv
      <4> QED BY <1>1, <1>8, <3>2, <4>1, TimesFacts, ConstantFacts DEF Kept
    <3> QED BY <3>1, <3>2
  <2>3. ASSUME NEW k \in Keys, store'[k] # NoKey PROVE now' < store'[k].until
    <3>1. CASE k # f.key
      BY <1>1, <1>7, <2>3, <3>1 DEF Inv, StoreInv
    <3>2. CASE k = f.key
      <4>1. store'[k] = [value |-> value, until |-> now + Ttl(f.key)]
        BY <1>7, <3>2 DEF Inv, StoreInv
      <4> QED BY <1>1, <1>8, <4>1
    <3> QED BY <3>1, <3>2
  <2> QED BY <1>1, <2>1, <2>2, <2>3 DEF StoreInv
<1> QED BY <1>6, <1>9 DEF Inv

\* A deleted key cannot be read, and only a logout deletes.
LEMMA DeleteKeeps ==
    ASSUME Inv, fetch' = fetch, NEW p \in Procs, Delete(p)
    PROVE  Inv'
<1> DEFINE f == flow[p]
           h == Following(f, DeleteOrder, Return(f))
<1>1. /\ f.do = "delete" /\ f \in Flows /\ GoesOn(f) /\ now \in 0..MaxTime /\ now' = now
      /\ f.by = "logout"
  BY DEF Inv, FlowInv, StoreInv, GoesOn, Delete
<1>2. IsOver(Return(f))
  BY <1>1 DEF IsOver, Return, Flows
<1>3. h = Return(f) \/ \E k \in Keys : h = Step(f, f.do, k)
  BY <1>1, FollowingIs
<1>4. (GoesOn(h) \/ IsOver(h)) /\ GoOn(p, h)
  BY <1>1, <1>2, <1>3, StepGoesOn DEF Delete
<1>5. FlowInv' /\ FetchInv'
  BY <1>1, <1>4, GoOnKeeps DEF Inv
<1>6. store' = [store EXCEPT ![f.key] = NoKey]
  BY DEF Delete
<1>7. StoreInv'
  BY <1>1, <1>6, TimesFacts, NoCredentialsFit DEF Inv, StoreInv, NoKey, Keys
<1> QED BY <1>5, <1>7 DEF Inv

\* The tokens J-Quants issues.
LEMMA IssuedFit ==
    ASSUME now \in 0..MaxTime, NEW creds \in [{"refresh", "id", "expires"} -> Tokens]
    PROVE  /\ WithIdToken(creds) \in [{"refresh", "id", "expires"} -> Tokens]
           /\ WithIdToken(creds).id = now + IdLife
           /\ WithIdToken(creds).expires = now + IdLife
           /\ WithRefreshToken(creds) \in [{"refresh", "id", "expires"} -> Tokens]
<1>1. now + IdLife \in Tokens /\ now + RefreshLife \in Tokens
  BY TimesFacts, ConstantFacts 
<1>2. WithRefreshToken(creds) \in [{"refresh", "id", "expires"} -> Tokens]
  BY <1>1 DEF WithRefreshToken
<1> DEFINE t == now + IdLife
<1>3. WithIdToken(creds) = [creds EXCEPT !.id = t, !.expires = t]
  BY DEF WithIdToken
<1> HIDE DEF t
<1>4. WithIdToken(creds) \in [{"refresh", "id", "expires"} -> Tokens]
  BY <1>1, <1>3 DEF t
<1>5. WithIdToken(creds).id = t /\ WithIdToken(creds).expires = t
  BY <1>3
<1> QED BY <1>2, <1>4, <1>5 DEF t

\* Asking J-Quants, and failing
LEMMA AskKeeps ==
    ASSUME Inv, fetch' = fetch, NEW p \in Procs,
           GetRefreshToken(p) \/ GetIdToken(p) \/ Fails(p)
    PROVE  Inv'
<1> DEFINE f == flow[p]
           g == [f EXCEPT !.creds = WithIdToken(@)]
           h == [f EXCEPT !.creds = WithRefreshToken(@)]
<1>1. /\ f.do # "nothing" /\ f \in Flows /\ now \in 0..MaxTime /\ now' = now /\ store' = store
      /\ f.creds \in [{"refresh", "id", "expires"} -> Tokens]
  BY DEF Inv, FlowInv, StoreInv, GoesOn, GetRefreshToken, GetIdToken, Fails, Flows
<1>2. IsOver(Raise(f))
  BY <1>1 DEF IsOver, Raise, Flows
<1>3. /\ WithIdToken(f.creds) \in [{"refresh", "id", "expires"} -> Tokens]
      /\ WithIdToken(f.creds).id = now + IdLife /\ WithIdToken(f.creds).expires = now + IdLife
      /\ WithRefreshToken(f.creds) \in [{"refresh", "id", "expires"} -> Tokens]
  BY <1>1, IssuedFit
<1>4. /\ g \in Flows /\ g.creds = WithIdToken(f.creds) /\ h \in Flows
  BY <1>1, <1>3 DEF Flows
<1>5. \/ GoOn(p, Step(h, "ask", "id")) \/ GoOn(p, Raise(f))
      \/ GoOn(p, Return(g)) \/ GoOn(p, Step(g, "save", "refresh"))
  <2>1. CASE GetRefreshToken(p)
    BY <2>1 DEF GetRefreshToken
  <2>2. CASE GetIdToken(p)
    BY <2>2 DEF GetIdToken
  <2>3. CASE Fails(p)
    BY <2>3 DEF Fails
  <2> QED BY <2>1, <2>2, <2>3
<1> HIDE DEF g, h
<1>6. IsOver(Return(g))
  <2>1. Return(g).do = "return" /\ Return(g).creds = g.creds
    BY <1>4 DEF Return, Flows
  <2> QED BY <1>1, <1>3, <1>4, <2>1, TimesFacts, ConstantFacts DEF IsOver, Lasts
<1>7. GoesOn(Step(g, "save", "refresh"))
  <2>1. /\ Step(g, "save", "refresh") \in Flows /\ Step(g, "save", "refresh").do = "save"
        /\ Step(g, "save", "refresh").creds = g.creds
    BY <1>4 DEF Step, Flows, Keys
  <2> QED BY <1>3, <1>4, <2>1 DEF GoesOn
<1>8. GoesOn(Step(h, "ask", "id"))
  BY <1>4 DEF GoesOn, Step, Flows, Keys
<1>9. FlowInv' /\ FetchInv'
  BY <1>1, <1>2, <1>7, <1>8, <1>5, <1>6, GoOnKeeps DEF Inv
<1>10. StoreInv'
  BY <1>1 DEF Inv, StoreInv
<1> QED BY <1>9, <1>10 DEF Inv

-----------------------------------------------------------------------------
(* The actions of a fetch *)

\* A time limit is in the future.
LEMMA LimitsAhead == \A t \in Nat : t <= t + TaskLimit
BY TimesFacts, ConstantFacts

\* A flow begins with the password it was given, and a fetch begins now.
LEMMA BeginsKeeps ==
    ASSUME Inv, NEW p \in Procs, Free(p), NEW by \in {"login", "refresh", "logout", "task", "command"},
           NEW do \in {"load", "ask", "delete"}, do = "delete" => by = "logout",
           NEW key \in Keys, Begins(p, by, do, key),
           \/ fetch' = fetch
           \/ \E job \in Jobs : \E left :
                fetch' = [fetch EXCEPT ![p] = [NoFetch EXCEPT !.job = job, !.since = now,
                                                              !.left = left]]
    PROVE  Inv'
<1> DEFINE f == Step([Idle EXCEPT !.by = by], do, key)
<1>1. now \in 0..MaxTime /\ now' = now /\ store' = store /\ token' = token
      /\ flow' = [flow EXCEPT ![p] = f] /\ fetch[p] = NoFetch /\ token[p] = NoToken
  BY DEF Begins, Free, Inv, StoreInv
<1>2. GoesOn(f)
  BY NoCredentialsFit, TimesFacts, ConstantFacts DEF GoesOn, Flows, Step, Idle, NoCredentials, Lasts
<1>3. \A q : GoesOn(q) <=> GoesOn(q)'
  BY <1>1 DEF GoesOn, Lasts
<1>4. StoreInv' /\ FlowInv'
  BY <1>1, <1>2, <1>3 DEF Inv, StoreInv, FlowInv
<1>5. ASSUME NEW q \in Procs
      PROVE  {"job", "since"} \subseteq DOMAIN fetch'[q] /\ Covered(q)'
  <2>1. CASE q # p
    <3>1. flow'[q] = flow[q] /\ fetch'[q] = fetch[q]
      BY <1>1, <2>1 DEF Inv, FlowInv, FetchInv
    <3> QED BY <1>1, <2>1, <3>1 DEF Inv, FetchInv, Covered
  <2>2. CASE q = p /\ fetch' = fetch
    BY <1>1, <2>2 DEF Inv, FetchInv, Covered, NoFetch
  <2>3. CASE q = p /\ \E job \in Jobs : \E left :
               fetch' = [fetch EXCEPT ![p] = [NoFetch EXCEPT !.job = job, !.since = now,
                                                              !.left = left]]
    <3>1. PICK job \in Jobs : \E left :
            fetch' = [fetch EXCEPT ![p] = [NoFetch EXCEPT !.job = job, !.since = now,
                                                          !.left = left]]
      BY <2>3
    <3>2. PICK left :
            fetch' = [fetch EXCEPT ![p] = [NoFetch EXCEPT !.job = job, !.since = now,
                                                          !.left = left]]
      BY <3>1
    <3>3. fetch'[p] = [NoFetch EXCEPT !.job = job, !.since = now, !.left = left]
      BY <3>2 DEF Inv, FetchInv
    <3>4. fetch'[p].since = now /\ {"job", "since"} \subseteq DOMAIN fetch'[p]
      BY <3>3 DEF NoFetch
    <3>5. now <= now + TaskLimit /\ now \in Nat
      BY <1>1, LimitsAhead, TimesFacts
    <3>6. q = p
      BY <2>3
    <3> QED BY <1>1, <3>4, <3>5, <3>6 DEF Covered
  <2> QED BY <2>1, <2>2, <2>3
<1> QED BY <1>1, <1>4, <1>5 DEF Inv, FetchInv

\* A step of a fetch changes neither its job nor when it began.
LEMMA SameFetch ==
    ASSUME NEW f, {"job", "since"} \subseteq DOMAIN f, NEW got
    PROVE  /\ Same(NextTarget(f), f)
           /\ Same(NextTarget([f EXCEPT !.failed = TRUE]), f)
           /\ \A k, aborted : Same(NextTarget(Interrupted(f, got, k, aborted)), f)
           /\ Same(NextTarget(Executed(f, got)), f)
           /\ Same([f EXCEPT !.attempt = @ + 1], f)
           /\ Same([f EXCEPT !.page = @ + 1, !.attempt = 1, !.got = got], f)
<1>1. ASSUME NEW g, Same(g, f) PROVE Same(NextTarget(g), f)
  BY <1>1 DEF Same, NextTarget
<1>2. Same(f, f) /\ Same([f EXCEPT !.failed = TRUE], f)
  BY DEF Same
<1>3. \A k, aborted : Same(Interrupted(f, got, k, aborted), f)
  BY DEF Same, Interrupted
<1>4. Same(Executed(f, got), f)
  BY DEF Same, Executed
<1>5. Same([f EXCEPT !.attempt = @ + 1], f)
  BY DEF Same
<1>6. Same([f EXCEPT !.page = @ + 1, !.attempt = 1, !.got = got], f)
  BY DEF Same
<1> QED BY <1>1, <1>2, <1>3, <1>4, <1>5, <1>6

\* ... so what its token owes to it stays the same.
LEMMA WorkKeeps ==
    ASSUME Inv, NEW p \in Procs, NEW f, Same(f, fetch[p]), Work(p, f)
    PROVE  Inv'
<1>1. now' = now /\ store' = store /\ flow' = flow /\ token' = token
      /\ fetch' = [fetch EXCEPT ![p] = f]
  BY DEF Work, authVars
<1>2. StoreInv' /\ FlowInv'
  BY <1>1 DEF Inv, StoreInv, FlowInv, GoesOn, Lasts
<1>3. FetchInv'
  BY <1>1 DEF Inv, FetchInv, Covered, Same
<1> QED BY <1>2, <1>3 DEF Inv

\* A fetch that is over has no token.
LEMMA OverKeeps ==
    ASSUME Inv, NEW p \in Procs, Over(p)
    PROVE  Inv'
<1>1. now' = now /\ store' = store /\ flow' = [flow EXCEPT ![p] = Idle]
      /\ fetch' = [fetch EXCEPT ![p] = NoFetch] /\ token' = [token EXCEPT ![p] = NoToken]
  BY DEF Over
<1>2. GoesOn(Idle)
  BY TimesFacts, NoCredentialsFit DEF Idle, GoesOn, Flows, Keys
<1>3. \A q : GoesOn(q) <=> GoesOn(q)'
  BY <1>1 DEF GoesOn, Lasts
<1>4. StoreInv' /\ FlowInv'
  BY <1>1, <1>2, <1>3 DEF Inv, StoreInv, FlowInv
<1>5. FetchInv'
  BY <1>1, TimesFacts DEF Inv, FlowInv, FetchInv, Covered, NoFetch
<1> QED BY <1>4, <1>5 DEF Inv

\* Time passes only when no flow is between two keys, and a key that is still
\* there has time left.
LEMMA TimeKeeps ==
    ASSUME Inv, TimePasses
    PROVE  Inv'
<1>1. /\ now \in 0..MaxTime /\ now < MaxTime /\ now' = now + 1 /\ flow' = flow /\ token' = token /\ fetch' = fetch
      /\ store' = [k \in Keys |-> IF store[k].until <= now + 1 THEN NoKey ELSE store[k]]
      /\ \A p \in Procs : flow[p] = Idle
      /\ \A p \in Procs : fetch[p].job.by = "task" => now < fetch[p].since + TaskLimit
  BY DEF TimePasses, Passes, fetchVars, Inv, StoreInv
<1>2. StoreInv'
  <2>1. now \in Nat /\ now' \in 0..MaxTime
    BY <1>1, TimesFacts
  <2>2. ASSUME NEW k \in Keys
        PROVE  /\ store'[k] \in [value : Tokens, until : Times]
               /\ store'[k] # NoKey => now' < store'[k].until
               /\ store'[k] = NoKey \/ store'[k] = store[k]
    <3>1. store[k] \in [value : Tokens, until : Times] /\ store[k].until \in Nat
      BY TimesFacts DEF Inv, StoreInv
    <3>2. NoKey \in [value : Tokens, until : Times]
      BY TimesFacts DEF NoKey
    <3> QED BY <1>1, <2>1, <3>1, <3>2
  <2>3. ASSUME NEW k \in {"id", "expires"}, store'[k].value # NoToken
        PROVE  store'[k].until > now' /\ store'[k].value >= store'[k].until + Kept
    <3>1. k \in Keys
      BY DEF Keys
    <3>2. store'[k] # NoKey
      BY <2>3 DEF NoKey
    <3> QED BY <2>1, <2>2, <2>3, <3>1, <3>2, TimesFacts DEF Inv, StoreInv
  <2> QED BY <1>1, <2>1, <2>2, <2>3 DEF StoreInv
<1>3. FlowInv'
  BY <1>1 DEF Inv, FlowInv, GoesOn, Idle
<1>4. FetchInv'
  BY <1>1, TimesFacts, ConstantFacts DEF Inv, FetchInv, Covered
<1> QED BY <1>2, <1>3, <1>4 DEF Inv
-----------------------------------------------------------------------------
\* The invariant holds at first, with an empty Redis ...
LEMMA InvInit == Init => Inv
<1> SUFFICES ASSUME Init PROVE Inv
  OBVIOUS
<1>1. StoreInv
  BY TimesFacts DEF Init, AuthInit, StoreInv, NoKey, Keys
<1>2. FlowInv
  BY TimesFacts, NoCredentialsFit DEF Init, AuthInit, FlowInv, GoesOn, Flows, Idle, Keys
<1>3. FetchInv
  BY TimesFacts DEF Init, AuthInit, FetchInv, Covered, NoFetch
<1> QED BY <1>1, <1>2, <1>3 DEF Inv

\* ... and every step keeps it.
LEMMA InvNext == Inv /\ [Next]_vars => Inv'
<1> SUFFICES ASSUME Inv, [Next]_vars PROVE Inv'
  OBVIOUS
<1>1. CASE TimePasses
  BY <1>1, TimeKeeps
<1>2. ASSUME NEW p \in Procs, Visit(p) PROVE Inv'
  BY <1>2, BeginsKeeps DEF Visit, Login, RefreshToken, Logout, Keys
<1>3. ASSUME NEW p \in Procs, Receive(p) PROVE Inv'
  <2>1. PICK job \in Jobs :
          /\ IF job.by = "task" THEN CreateAuthenticatedClient(p) ELSE AuthenticateJQuants(p)
          /\ fetch' = [fetch EXCEPT ![p] = [NoFetch EXCEPT !.job = job, !.since = now,
                                                           !.left = Targets[job]]]
    BY <1>3 DEF Receive
  <2>2. Free(p)
    BY <1>3 DEF Receive
  <2>3. \/ Begins(p, "task", "load", "metadata")
        \/ Begins(p, "command", "ask", "refresh")
    BY <2>1 DEF CreateAuthenticatedClient, AuthenticateJQuants
  <2>4. \E j \in Jobs : \E left :
          fetch' = [fetch EXCEPT ![p] = [NoFetch EXCEPT !.job = j, !.since = now, !.left = left]]
    BY <2>1
  <2> QED BY <2>2, <2>3, <2>4, BeginsKeeps DEF Keys
<1>4. ASSUME NEW p \in Procs, Authenticates(p) PROVE Inv'
  BY <1>4, LoadKeeps, SaveKeeps, DeleteKeeps, AskKeeps DEF Authenticates, AuthStep
<1>5. ASSUME NEW p \in Procs, GetPage(p) PROVE Inv'
  <2> DEFINE f == fetch[p]
             pages == Pages[Head(f.left)]
             got == f.got \o pages[f.page]
  <2>1. {"job", "since"} \subseteq DOMAIN f
    BY DEF Inv, FetchInv
  <2>2. CASE f.page < Len(pages)
    <3>1. Work(p, [f EXCEPT !.page = @ + 1, !.attempt = 1, !.got = got])
      BY <1>5, <2>2 DEF GetPage
    <3> QED BY <2>1, <3>1, SameFetch, WorkKeeps
  <2>3. CASE ~(f.page < Len(pages))
    <3>1. Work(p, NextTarget(Executed(f, got)))
      BY <1>5, <2>3 DEF GetPage
    <3> QED BY <2>1, <3>1, SameFetch, WorkKeeps
  <2> QED BY <2>2, <2>3
<1>6. ASSUME NEW p \in Procs, Retry(p) \/ FailsAtOnce(p) \/ StorageFails(p) PROVE Inv'
  <2> DEFINE f == fetch[p]
  <2>1. {"job", "since"} \subseteq DOMAIN f
    BY DEF Inv, FetchInv
  <2>2. \/ Work(p, [f EXCEPT !.attempt = @ + 1])
        \/ Work(p, NextTarget([f EXCEPT !.failed = TRUE]))
        \/ \E got, k, aborted : Work(p, NextTarget(Interrupted(f, got, k, aborted)))
    BY <1>6, Zenon DEF Retry, FailsAtOnce, StorageFails
  <2>3. /\ Same([f EXCEPT !.attempt = @ + 1], f)
        /\ Same(NextTarget([f EXCEPT !.failed = TRUE]), f)
        /\ \A got, k, aborted : Same(NextTarget(Interrupted(f, got, k, aborted)), f)
    BY <2>1, SameFetch
  <2> QED BY <2>2, <2>3, WorkKeeps, Zenon
<1>7. ASSUME NEW p \in Procs, Ends(p) \/ GivesUp(p) \/ Killed(p) PROVE Inv'
  BY <1>7, OverKeeps DEF Ends, EndsWith, GivesUp, Killed
<1>8. CASE UNCHANGED vars
  BY <1>8 DEF vars, authVars, fetchVars, results, Inv, StoreInv, FlowInv, FetchInv, Covered, GoesOn, Lasts
<1> QED BY <1>1, <1>2, <1>3, <1>4, <1>5, <1>6, <1>7, <1>8 DEF Next, OwnStep
-----------------------------------------------------------------------------
\* The placeholder password is never sent to J-Quants: for any number of requests,
\* workers and commands that go through the four keys in any order
\* (load_credentials, AuthUseCase.refresh_token).
THEOREM NeverThePlaceholder == Spec => []PlaceholderNeverSent
<1>1. Inv => PlaceholderNeverSent
  BY DEF Inv, FlowInv, GoesOn, Flows, PlaceholderNeverSent
<1> QED BY <1>1, InvInit, InvNext, PTL DEF Spec

\* The token of a task is good until the time limit of the task, although it is
\* looked at only once, when the client is made (_ensure_authenticated).
THEOREM TokenIsGoodToTheEnd == Spec => []TokenOutlivesTask
<1>1. Inv => TokenOutlivesTask
  BY TimesFacts, ConstantFacts DEF Inv, StoreInv, FetchInv, Covered, TokenOutlivesTask
<1> QED BY <1>1, InvInit, InvNext, PTL DEF Spec

-----------------------------------------------------------------------------
(* What a fetch leaves in the table *)

Recorded == UNION {Rows[t] : t \in AllTargets}

\* The records of the first n pages of the answer for a target
PartOf(t, n) == UNION {Entities(Pages[t][k]) : k \in 1..n}

\* A record comes with all the others of a target, or is of a target that may be
\* there in part.
Accounted(rows, partial) ==
    \A r \in rows : \E t \in AllTargets :
        r \in Rows[t] /\ (Rows[t] \subseteq rows \/ t \in partial)

\* A failure may leave a part of the targets of the job.
Partial(f) == IF f.failed THEN ToSet(Targets[f.job]) ELSE {}

PartialOf(jobs) == UNION {ToSet(Targets[j]) : j \in {j \in jobs : j.by = "task"}}

\* The targets of a job that are not left are saved, unless one has failed.
SavedBut(f, left) ==
    f.job \in Jobs =>
        /\ ToSet(left) \subseteq ToSet(Targets[f.job])
        /\ f.failed \/ \A t \in ToSet(Targets[f.job]) :
                           t \in ToSet(left) \/ Rows[t] \subseteq f.saved

Fetches ==
    [job : Jobs \cup {NoFetch.job}, since : Nat, left : Seq(AllTargets), page : Nat \ {0},
     attempt : 1..MaxRetries, got : Seq(ApiRecord), saved : SUBSET Recorded,
     failed : BOOLEAN, aborted : BOOLEAN]

FetchFits(f) ==
    /\ f \in Fetches
    /\ f.job \in Jobs \/ f = NoFetch
    /\ f.left # <<>> =>
         /\ f.page \in 1..Len(Pages[Head(f.left)])
         /\ Entities(f.got) = PartOf(Head(f.left), f.page - 1)
    /\ Accounted(f.saved, Partial(f))
    /\ SavedBut(f, f.left)

TableFits ==
    /\ succeeded \subseteq Jobs
    /\ reported \subseteq Jobs
    /\ events \in 0..MaxEvents
    /\ Accounted(table, PartialOf(reported))
    /\ \A j \in succeeded : \A t \in ToSet(Targets[j]) : Rows[t] \subseteq table

\* Only a fetch authenticates for a task or a command, and only a fetch has a token.
Owned(p) == fetch[p] = NoFetch => token[p] = NoToken /\ flow[p].by \notin {"task", "command"}

WorkInv ==
    /\ \A p \in Procs : FetchFits(fetch[p]) /\ Owned(p)
    /\ TableFits
-----------------------------------------------------------------------------
(* The targets of a job *)

LEMMA BoundFacts ==
    /\ MaxRetries \in Nat \ {0} /\ MaxEvents \in Nat /\ Today \in Nat
    /\ Jobs \subseteq Job /\ NoFetch.job \notin Jobs
<1>1. /\ {MaxRetries, TaskLimit} \subseteq Nat \ {0} /\ {Today, MaxEvents} \subseteq Nat
      /\ Jobs \subseteq Job
  BY FetchAssumption
<1>2. NoFetch.job.by = "nobody"
  BY DEF NoFetch
<1>3. \A j \in Jobs : j.by # "nobody"
  BY <1>1 DEF Job
<1> QED BY <1>1, <1>2, <1>3

\* A range of indices that is empty has the empty sequence.
LEMMA RangeIsSeq ==
    ASSUME NEW S, NEW m \in Int, NEW s \in [1..m -> S]
    PROVE  s \in Seq(S)
<1>1. CASE m \in Nat
  BY <1>1
<1>2. CASE m \notin Nat
  <2>1. 1..m = 1..0
    BY <1>2
  <2>2. s \in [1..0 -> S]
    BY <2>1
  <2> QED BY <2>2
<1> QED BY <1>1, <1>2

LEMMA DatesFit ==
    ASSUME NEW period \in [type : {"yesterday", "7days", "30days", "custom"}, from : Nat, to : Nat]
    PROVE  DateRange(Today, period) \in Seq(Int)
<1>2. Today \in Int
  BY BoundFacts
<1>3. CASE period.type = "yesterday"
  BY <1>2, <1>3 DEF DateRange
<1>4. CASE period.type = "7days"
  BY <1>2, <1>4 DEF DateRange
<1>5. CASE period.type = "30days"
  BY <1>2, <1>5 DEF DateRange
<1>6. CASE period.type = "custom" /\ period.from # 0 /\ period.to # 0
  <2>1. DateRange(Today, period) = [n \in 1..(period.to - period.from + 1) |-> period.from + n - 1]
    BY <1>6 DEF DateRange
  <2>2. period.to - period.from + 1 \in Int /\ period.from \in Nat
    OBVIOUS
  <2> DEFINE m == period.to - period.from + 1
  <2>3. DateRange(Today, period) \in [1..m -> Int]
    BY <2>1, <2>2
  <2> QED BY <2>2, <2>3, RangeIsSeq
<1>7. CASE period.type = "custom" /\ ~(period.from # 0 /\ period.to # 0)
  BY <1>7 DEF DateRange, InvalidRange
<1> QED BY <1>3, <1>4, <1>5, <1>6, <1>7

\* A job has a sequence of targets.
LEMMA TargetsFit ==
    ASSUME NEW j \in Jobs
    PROVE  Targets[j] \in Seq(AllTargets)
<1> DEFINE dates == DateRange(Today, j.period)
           codes == IF j.codes = <<>> THEN <<AllCodes>> ELSE j.codes
           n == Len(codes)
<1>1. j \in Job
  BY BoundFacts
<1>2. Len(dates) \in Nat
  BY <1>1, DatesFit DEF Job
<1>3. n \in Nat
  BY <1>1 DEF Job, AllCodes
<1>4. Len(dates) * n \in Nat
  <2>1. ASSUME NEW a \in Nat, NEW b \in Nat PROVE a * b \in Nat
    OBVIOUS
  <2> HIDE DEF dates, n
  <2> QED BY <1>2, <1>3, <2>1
<1>5. Targets[j] = [k \in 1..(Len(dates) * n) |->
                      [date |-> dates[((k - 1) \div n) + 1], code |-> codes[((k - 1) % n) + 1]]]
  BY DEF Targets
<1> HIDE DEF dates, n, codes
<1>6. DOMAIN Targets[j] = 1..(Len(dates) * n)
  BY <1>5
<1>7. \A k \in DOMAIN Targets[j] : Targets[j][k] \in AllTargets
  BY DEF AllTargets, ToSet
<1>8. Targets[j] \in [1..(Len(dates) * n) -> AllTargets]
  BY <1>5, <1>6, <1>7
<1> QED BY <1>4, <1>8, RangeIsSeq

-----------------------------------------------------------------------------
(* Records and pages *)

\* The records of pages one after the other are those of each.
LEMMA EntitiesOfMore ==
    ASSUME NEW got \in Seq(ApiRecord), NEW page \in Seq(ApiRecord)
    PROVE  Entities(got \o page) = Entities(got) \cup Entities(page)
<1> DEFINE both == got \o page
<1>1. /\ DOMAIN both = 1..(Len(got) + Len(page)) /\ Len(got) \in Nat /\ Len(page) \in Nat
      /\ DOMAIN got = 1..Len(got) /\ DOMAIN page = 1..Len(page)
      /\ \A n \in 1..Len(got) : both[n] = got[n]
      /\ \A n \in 1..Len(page) : both[n + Len(got)] = page[n]
  OBVIOUS
<1>2. ASSUME NEW n \in DOMAIN both
      PROVE  \/ n \in DOMAIN got /\ both[n] = got[n]
             \/ n - Len(got) \in DOMAIN page /\ both[n] = page[n - Len(got)]
  OBVIOUS
<1>3. ASSUME NEW n \in DOMAIN page
      PROVE  n + Len(got) \in DOMAIN both /\ both[n + Len(got)] = page[n]
  OBVIOUS
<1>4. ASSUME NEW n \in DOMAIN got PROVE n \in DOMAIN both /\ both[n] = got[n]
  OBVIOUS
<1> HIDE DEF both
<1>5. Entities(both) \subseteq Entities(got) \cup Entities(page)
  BY <1>2 DEF Entities
<1>6. Entities(got) \subseteq Entities(both)
  BY <1>4 DEF Entities
<1>7. Entities(page) \subseteq Entities(both)
  BY <1>3 DEF Entities
<1> QED BY <1>5, <1>6, <1>7 DEF both

\* The answers of J-Quants, page by page
LEMMA PagesFit ==
    ASSUME NEW t \in AllTargets
    PROVE  /\ Len(Pages[t]) \in Nat \ {0}
           /\ \A k \in 1..Len(Pages[t]) : Pages[t][k] \in Seq(ApiRecord)
           /\ Rows[t] = PartOf(t, Len(Pages[t]))
           /\ PartOf(t, 0) = {}
           /\ \A k \in 1..Len(Pages[t]) :
                PartOf(t, k) = PartOf(t, k - 1) \cup Entities(Pages[t][k])
<1>1. Pages[t] \in Seq(Seq(ApiRecord)) /\ Pages[t] # <<>>
  BY ApiAssumption
<1>2. Len(Pages[t]) \in Nat \ {0} /\ DOMAIN Pages[t] = 1..Len(Pages[t])
      /\ \A k \in 1..Len(Pages[t]) : Pages[t][k] \in Seq(ApiRecord)
  BY <1>1
<1>3. Rows[t] = UNION {Entities(page) : page \in {Pages[t][k] : k \in 1..Len(Pages[t])}}
  BY <1>2 DEF Rows, ToSet
<1>4. Rows[t] = PartOf(t, Len(Pages[t]))
  BY <1>3 DEF PartOf
<1>5. PartOf(t, 0) = {}
  BY DEF PartOf
<1>6. ASSUME NEW k \in 1..Len(Pages[t])
      PROVE  PartOf(t, k) = PartOf(t, k - 1) \cup Entities(Pages[t][k])
  <2>1. 1..k = 1..(k - 1) \cup {k}
    BY <1>2
  <2> QED BY <2>1 DEF PartOf
<1> QED BY <1>2, <1>4, <1>5, <1>6

\* A listing has one record, so save_all only adds.
LEMMA SaveAllAdds ==
    ASSUME NEW rows \in SUBSET Recorded, NEW new \in SUBSET Recorded
    PROVE  SaveAll(rows, new) = rows \cup new
<1>1. \A r \in rows, i \in new : IsSameListing(r, i) => r = i
  BY ApiAssumption DEF Recorded
<1> QED BY <1>1 DEF SaveAll

\* What is accounted for stays so when more is saved or more targets may be there
\* in part.
LEMMA AccountedFacts ==
    /\ \A partial : Accounted({}, partial)
    /\ \A t \in AllTargets : \A partial : Accounted(Rows[t], partial)
    /\ \A rows, partial : \A t \in partial \cap AllTargets :
         rows \subseteq Rows[t] => Accounted(rows, partial)
    /\ \A rows, new, partial, more :
         Accounted(rows, partial) /\ Accounted(new, more)
           => Accounted(rows \cup new, partial \cup more)
    /\ \A rows, partial, more :
         Accounted(rows, partial) /\ partial \subseteq more => Accounted(rows, more)
    /\ \A rows, partial : Accounted(rows, partial) => rows \subseteq Recorded
<1>1. \A t \in AllTargets : \A partial : Accounted(Rows[t], partial)
  BY DEF Accounted
<1>2. ASSUME NEW rows, NEW partial, NEW t \in partial \cap AllTargets, rows \subseteq Rows[t]
      PROVE  Accounted(rows, partial)
  BY <1>2 DEF Accounted
<1>3. ASSUME NEW rows, NEW new, NEW partial, NEW more,
             Accounted(rows, partial), Accounted(new, more)
      PROVE  Accounted(rows \cup new, partial \cup more)
  BY <1>3 DEF Accounted
<1>4. ASSUME NEW rows, NEW partial, NEW more, Accounted(rows, partial), partial \subseteq more
      PROVE  Accounted(rows, more)
  BY <1>4 DEF Accounted
<1>5. ASSUME NEW rows, NEW partial, Accounted(rows, partial) PROVE rows \subseteq Recorded
  BY <1>5 DEF Accounted, Recorded
<1>6. \A partial : Accounted({}, partial)
  BY DEF Accounted
<1> QED BY <1>1, <1>2, <1>3, <1>4, <1>5, <1>6

\* The first of the records are among all of them.
LEMMA EntitiesOfFirst ==
    ASSUME NEW got \in Seq(ApiRecord), NEW k \in BatchStarts(got)
    PROVE  Entities(SubSeq(got, 1, k)) \subseteq Entities(got)
<1> DEFINE first == SubSeq(got, 1, k)
<1>1. Len(got) \in Nat /\ k \in Nat /\ k <= Len(got) /\ DOMAIN got = 1..Len(got)
  BY DEF BatchStarts
<1>2. DOMAIN first = 1..k /\ \A n \in 1..k : n \in DOMAIN got /\ first[n] = got[n]
  BY <1>1
<1> HIDE DEF first
<1>3. Entities(first) \subseteq Entities(got)
  BY <1>2 DEF Entities
<1> QED BY <1>3 DEF first

-----------------------------------------------------------------------------
(* The steps of a fetch *)

LEMMA FirstAndRest ==
    ASSUME NEW S, NEW s \in Seq(S), s # <<>>
    PROVE  /\ Head(s) \in S /\ Tail(s) \in Seq(S)
           /\ ToSet(s) = {Head(s)} \cup ToSet(Tail(s))
<1>1. /\ Len(s) \in Nat \ {0} /\ DOMAIN s = 1..Len(s) /\ Head(s) = s[1]
      /\ Head(s) \in S /\ Tail(s) \in Seq(S) /\ DOMAIN Tail(s) = 1..(Len(s) - 1)
      /\ \A n \in 1..(Len(s) - 1) : Tail(s)[n] = s[n + 1]
  OBVIOUS
<1>2. ASSUME NEW n \in DOMAIN s, n # 1
      PROVE  n - 1 \in DOMAIN Tail(s) /\ s[n] = Tail(s)[n - 1]
  BY <1>1, <1>2
<1>3. ASSUME NEW n \in DOMAIN Tail(s) PROVE n + 1 \in DOMAIN s /\ Tail(s)[n] = s[n + 1]
  BY <1>1
<1>4. 1 \in DOMAIN s
  BY <1>1
<1>5. ToSet(s) \subseteq {Head(s)} \cup ToSet(Tail(s))
  <2>1. ASSUME NEW n \in DOMAIN s PROVE s[n] \in {Head(s)} \cup ToSet(Tail(s))
    <3>1. CASE n = 1
      BY <1>1, <3>1
    <3>2. CASE n # 1
      BY <1>2, <3>2 DEF ToSet
    <3> QED BY <3>1, <3>2
  <2> QED BY <2>1 DEF ToSet
<1>6. {Head(s)} \cup ToSet(Tail(s)) \subseteq ToSet(s)
  BY <1>1, <1>3, <1>4 DEF ToSet
<1> QED BY <1>1, <1>5, <1>6

\* A target is started with its first page and nothing received.
LEMMA StartFits ==
    ASSUME NEW f \in Fetches, f.job \in Jobs, f.page = 1, f.got = <<>>,
           Accounted(f.saved, Partial(f)), SavedBut(f, f.left)
    PROVE  FetchFits(f)
<1>1. ASSUME f.left # <<>>
      PROVE  /\ f.page \in 1..Len(Pages[Head(f.left)])
             /\ Entities(f.got) = PartOf(Head(f.left), f.page - 1)
  <2>1. Head(f.left) \in AllTargets
    BY <1>1, FirstAndRest DEF Fetches
  <2>2. Entities(<<>>) = {}
    BY DEF Entities
  <2>3. 1 \in 1..Len(Pages[Head(f.left)]) /\ 1 - 1 = 0 /\ PartOf(Head(f.left), 0) = {}
    BY <2>1, PagesFit
  <2> QED BY <2>2, <2>3
<1> QED BY <1>1 DEF FetchFits

LEMMA NextTargetFits ==
    ASSUME NEW f \in Fetches, f.job \in Jobs, f.left # <<>>,
           Accounted(f.saved, Partial(f)), SavedBut(f, Tail(f.left))
    PROVE  FetchFits(NextTarget(f))
<1> DEFINE g == NextTarget(f)
<1>1. Tail(f.left) \in Seq(AllTargets)
  BY FirstAndRest DEF Fetches
<1>2. 1 \in 1..MaxRetries /\ 1 \in Nat \ {0} /\ <<>> \in Seq(ApiRecord)
  BY BoundFacts
<1>3. g = [f EXCEPT !.left = Tail(f.left), !.page = 1, !.attempt = 1, !.got = <<>>]
  BY DEF NextTarget
<1> HIDE DEF g
<1>4. g \in Fetches
  BY <1>1, <1>2, <1>3 DEF Fetches
<1>5. /\ g.left = Tail(f.left) /\ g.page = 1 /\ g.got = <<>>
      /\ g.job = f.job /\ g.failed = f.failed /\ g.saved = f.saved
  BY <1>3 DEF Fetches
<1> QED BY <1>4, <1>5, StartFits DEF SavedBut, Partial, g

\* A target that has failed leaves what was saved.
LEMMA FailedFits ==
    ASSUME NEW f, FetchFits(f), f.left # <<>>
    PROVE  FetchFits(NextTarget([f EXCEPT !.failed = TRUE]))
<1>1. /\ f \in Fetches /\ f.job \in Jobs /\ Accounted(f.saved, Partial(f))
      /\ ToSet(Tail(f.left)) \subseteq ToSet(f.left) /\ SavedBut(f, f.left)
  BY FirstAndRest DEF FetchFits, NoFetch, Fetches
<1> DEFINE g == [f EXCEPT !.failed = TRUE]
<1>2. /\ g \in Fetches /\ g.job = f.job /\ g.left = f.left /\ g.saved = f.saved /\ g.failed
  BY <1>1 DEF Fetches
<1> HIDE DEF g
<1>3. Accounted(g.saved, Partial(g))
  BY <1>1, <1>2, AccountedFacts DEF Partial
<1>4. FetchFits(NextTarget(g))
  BY <1>1, <1>2, <1>3, NextTargetFits DEF SavedBut
<1> QED BY <1>4 DEF g

\* An attempt that is not the last is followed by another.
LEMMA RetryFits ==
    ASSUME NEW f, FetchFits(f), f.left # <<>>, f.attempt < MaxRetries
    PROVE  FetchFits([f EXCEPT !.attempt = @ + 1])
<1> DEFINE g == [f EXCEPT !.attempt = @ + 1]
<1>1. f \in Fetches /\ f.job \in Jobs /\ f.attempt + 1 \in 1..MaxRetries
  BY BoundFacts DEF FetchFits, NoFetch, Fetches
<1>2. /\ g \in Fetches /\ g.job = f.job /\ g.left = f.left /\ g.saved = f.saved
      /\ g.failed = f.failed /\ g.page = f.page /\ g.got = f.got
  BY <1>1 DEF Fetches
<1> HIDE DEF g
<1>3. FetchFits(g)
  BY <1>1, <1>2 DEF FetchFits, SavedBut, Partial
<1> QED BY <1>3 DEF g

\* A page that is not the last is added to those before.
LEMMA PageFits ==
    ASSUME NEW f, FetchFits(f), f.left # <<>>, f.page < Len(Pages[Head(f.left)])
    PROVE  FetchFits([f EXCEPT !.page = @ + 1, !.attempt = 1,
                               !.got = f.got \o Pages[Head(f.left)][f.page]])
<1> DEFINE t == Head(f.left)
           got == f.got \o Pages[t][f.page]
           g == [f EXCEPT !.page = @ + 1, !.attempt = 1, !.got = got]
<1>1. f \in Fetches /\ f.job \in Jobs /\ t \in AllTargets /\ f.got \in Seq(ApiRecord)
  BY FirstAndRest DEF FetchFits, NoFetch, Fetches
<1>2. f.page \in 1..Len(Pages[t]) /\ f.page + 1 \in 1..Len(Pages[t])
      /\ Pages[t][f.page] \in Seq(ApiRecord)
  BY <1>1, PagesFit DEF FetchFits
<1>3. Entities(got) = PartOf(t, f.page - 1) \cup Entities(Pages[t][f.page])
  BY <1>1, <1>2, EntitiesOfMore DEF FetchFits
<1>4. Entities(got) = PartOf(t, f.page)
  BY <1>1, <1>2, <1>3, PagesFit
<1>5. got \in Seq(ApiRecord)
  BY <1>1, <1>2
<1> DEFINE next == f.page + 1
<1>6. g = [f EXCEPT !.page = next, !.attempt = 1, !.got = got]
      /\ next \in Nat \ {0} /\ 1 \in 1..MaxRetries /\ next - 1 = f.page
  BY <1>1, <1>2, BoundFacts
<1> HIDE DEF got, t, g, next
<1>7. g \in Fetches
  BY <1>1, <1>5, <1>6 DEF Fetches
<1>8. /\ g.job = f.job /\ g.left = f.left /\ g.saved = f.saved
      /\ g.failed = f.failed /\ g.page = next /\ g.got = got
  BY <1>1, <1>6 DEF Fetches
<1>9. next \in 1..Len(Pages[t])
  BY <1>2 DEF next
<1>10. FetchFits(g)
  BY <1>1, <1>4, <1>6, <1>7, <1>8, <1>9 DEF FetchFits, SavedBut, Partial, t
<1> QED BY <1>10 DEF g, got, t

\* With the last page the records of the target are complete.
LEMMA LastPageHasAll ==
    ASSUME NEW f, FetchFits(f), f.left # <<>>, ~(f.page < Len(Pages[Head(f.left)]))
    PROVE  LET got == f.got \o Pages[Head(f.left)][f.page] IN
           got \in Seq(ApiRecord) /\ Entities(got) = Rows[Head(f.left)]
<1> DEFINE t == Head(f.left)
           got == f.got \o Pages[t][f.page]
<1>1. f \in Fetches /\ t \in AllTargets /\ f.got \in Seq(ApiRecord)
  BY FirstAndRest DEF FetchFits, NoFetch, Fetches
<1>2. f.page \in 1..Len(Pages[t]) /\ f.page = Len(Pages[t])
      /\ Pages[t][f.page] \in Seq(ApiRecord)
  BY <1>1, PagesFit DEF FetchFits
<1>3. Entities(got) = PartOf(t, f.page - 1) \cup Entities(Pages[t][f.page])
  BY <1>1, <1>2, EntitiesOfMore DEF FetchFits
<1>4. Entities(got) = Rows[t]
  BY <1>1, <1>2, <1>3, PagesFit
<1>5. got \in Seq(ApiRecord)
  BY <1>1, <1>2
<1> QED BY <1>4, <1>5

\* ... and are saved, or one of them is not valid and none is.
LEMMA LastPageFits ==
    ASSUME NEW f, FetchFits(f), f.left # <<>>, ~(f.page < Len(Pages[Head(f.left)]))
    PROVE  FetchFits(NextTarget(Executed(f, f.got \o Pages[Head(f.left)][f.page])))
<1> DEFINE t == Head(f.left)
           got == f.got \o Pages[t][f.page]
           g == [f EXCEPT !.saved = SaveAll(@, Entities(got))]
<1>1. /\ f \in Fetches /\ f.job \in Jobs /\ t \in AllTargets
      /\ Accounted(f.saved, Partial(f)) /\ SavedBut(f, f.left)
      /\ ToSet(f.left) = {t} \cup ToSet(Tail(f.left))
  BY FirstAndRest DEF FetchFits, NoFetch, Fetches
<1>4. Entities(got) = Rows[t]
  BY LastPageHasAll
<1>5. Rows[t] \subseteq Recorded
  BY <1>1 DEF Recorded
<1> HIDE DEF got, t
<1>6. g = [f EXCEPT !.saved = f.saved \cup Rows[t]]
  BY <1>1, <1>4, <1>5, SaveAllAdds, AccountedFacts
<1>7. /\ g \in Fetches /\ g.job = f.job /\ g.left = f.left
      /\ g.failed = f.failed /\ g.saved = f.saved \cup Rows[t]
  BY <1>1, <1>5, <1>6 DEF Fetches
<1> HIDE DEF g
<1>8. Accounted(g.saved, Partial(g))
  <2>1. Accounted(Rows[t], {}) /\ Partial(g) = Partial(f) \cup {}
    BY <1>1, <1>7, AccountedFacts DEF Partial
  <2> QED BY <1>1, <1>7, <2>1, AccountedFacts
<1>9. SavedBut(g, Tail(g.left))
  BY <1>1, <1>7 DEF SavedBut
<1>10. FetchFits(NextTarget(g))
  BY <1>1, <1>7, <1>8, <1>9, NextTargetFits
<1> QED BY <1>10, FailedFits DEF Executed, g, got, t

\* ... or a batch fails, and those before it are a part of the records of a target
\* of a fetch that has failed.
LEMMA InterruptedFits ==
    ASSUME NEW f, FetchFits(f), f.left # <<>>, ~(f.page < Len(Pages[Head(f.left)])),
           NEW k \in BatchStarts(f.got \o Pages[Head(f.left)][f.page]), NEW aborted \in BOOLEAN
    PROVE  FetchFits(NextTarget(
               Interrupted(f, f.got \o Pages[Head(f.left)][f.page], k, aborted)))
<1> DEFINE t == Head(f.left)
           got == f.got \o Pages[t][f.page]
           first == Entities(SubSeq(got, 1, k))
           g == Interrupted(f, got, k, aborted)
<1>1. /\ f \in Fetches /\ f.job \in Jobs /\ t \in AllTargets
      /\ Accounted(f.saved, Partial(f)) /\ SavedBut(f, f.left)
      /\ ToSet(f.left) = {t} \cup ToSet(Tail(f.left))
  BY FirstAndRest DEF FetchFits, NoFetch, Fetches
<1>2. got \in Seq(ApiRecord) /\ Entities(got) = Rows[t]
  BY LastPageHasAll
<1>3. k \in BatchStarts(got)
  OBVIOUS
<1> HIDE DEF got
<1>4. first \subseteq Rows[t] /\ Rows[t] \subseteq Recorded
  BY <1>1, <1>2, <1>3, EntitiesOfFirst DEF Recorded
<1> HIDE DEF t
<1>5. SaveAll(f.saved, first) = f.saved \cup first
  BY <1>1, <1>4, SaveAllAdds, AccountedFacts
<1>6. g = [f EXCEPT !.saved = f.saved \cup first, !.failed = TRUE, !.aborted = aborted]
  BY <1>5 DEF Interrupted
<1> HIDE DEF first, g
<1>7. /\ g \in Fetches /\ g.job = f.job /\ g.left = f.left /\ g.failed
      /\ g.saved = f.saved \cup first
  BY <1>1, <1>4, <1>6 DEF Fetches
<1>8. Partial(g) = ToSet(Targets[f.job]) /\ t \in Partial(g) /\ Partial(f) \subseteq Partial(g)
  BY <1>1, <1>7 DEF Partial, SavedBut
<1>9. Accounted(g.saved, Partial(g))
  <2>1. Accounted(f.saved, Partial(g)) /\ Accounted(first, Partial(g))
    BY <1>1, <1>4, <1>8, AccountedFacts
  <2>2. Accounted(f.saved \cup first, Partial(g) \cup Partial(g))
    BY <2>1, AccountedFacts
  <2> QED BY <1>7, <2>2
<1>10. SavedBut(g, Tail(g.left))
  BY <1>1, <1>7 DEF SavedBut
<1>11. FetchFits(NextTarget(g))
  BY <1>1, <1>7, <1>9, <1>10, NextTargetFits
<1> QED BY <1>11 DEF g, got, t

-----------------------------------------------------------------------------
(* Who authenticates *)

SameBy(g, f) == "by" \in DOMAIN g /\ g.by = f.by

\* Whatever a flow does next, it does for the same caller.
LEMMA ByStays ==
    ASSUME NEW f, NEW g, SameBy(g, f)
    PROVE  /\ \A do, key : SameBy(Step(g, do, key), f)
           /\ SameBy(Return(g), f) /\ SameBy(Raise(g), f) /\ SameBy(WithPlaceholder(g), f)
           /\ \A creds : SameBy([g EXCEPT !.creds = creds], f)
           /\ SameBy([g EXCEPT !.again = TRUE], f)
BY DEF SameBy, Step, Return, Raise, WithPlaceholder

LEMMA EnsureBy ==
    ASSUME NEW f, NEW e, SameBy(e, f)
    PROVE  SameBy(EnsureValidToken(e), f) /\ SameBy(Authenticated(e), f)
<1> DEFINE g == [e EXCEPT !.again = TRUE]
           h == [g EXCEPT !.creds = NoCredentials]
<1>1. SameBy(g, f) /\ SameBy(Return(e), f)
  BY ByStays
<1> HIDE DEF g
<1>2. SameBy(h, f) /\ SameBy(Step(g, "ask", "id"), f)
  BY <1>1, ByStays
<1> HIDE DEF h
<1>3. SameBy(Step(h, "load", "metadata"), f)
  BY <1>2, ByStays
<1>4. SameBy(EnsureValidToken(e), f)
  BY <1>1, <1>2, <1>3 DEF EnsureValidToken, g, h
<1> QED BY <1>1, <1>4 DEF Authenticated

LEMMA LoadedBy ==
    ASSUME NEW f, NEW e, SameBy(e, f), NEW found
    PROVE  SameBy(Loaded(e, found), f)
<1> DEFINE g == WithPlaceholder(e)
           h == [e EXCEPT !.creds = NoCredentials]
<1>1. SameBy(g, f) /\ SameBy(h, f) /\ SameBy(Raise(e), f)
  BY ByStays
<1> HIDE DEF g, h
<1>2. SameBy(Authenticated(g), f) /\ SameBy(EnsureValidToken(g), f)
  BY <1>1, EnsureBy
<1>3. SameBy(Step(h, "ask", "refresh"), f)
  BY <1>1, ByStays
<1> QED BY <1>1, <1>2, <1>3 DEF Loaded, Authenticate, GetValidCredentials, g, h

LEMMA FollowingBy ==
    ASSUME NEW f, NEW e, SameBy(e, f), NEW order, NEW last, SameBy(last, f)
    PROVE  SameBy(Following(e, order, last), f)
BY ByStays DEF Following

\* A step of the authentication of p, and a failure, go on for the same caller.
LEMMA AuthStepBy ==
    ASSUME NEW p, AuthStep(p) \/ Fails(p), "by" \in DOMAIN flow[p]
    PROVE  \E g : GoOn(p, g) /\ SameBy(g, flow[p])
<1> DEFINE f == flow[p]
<1>0. SameBy(f, f)
  BY DEF SameBy
<1>1. CASE Load(p)
  <2> DEFINE value == store[f.key].value
             g == [f EXCEPT !.creds = [k \in DOMAIN @ |-> IF k = f.key THEN value ELSE @[k]]]
  <2>1. SameBy(g, f) /\ SameBy(Loaded(f, FALSE), f)
    BY <1>0, ByStays, LoadedBy
  <2>2. \/ GoOn(p, Loaded(f, FALSE)) \/ GoOn(p, Following(g, LoadOrder, Loaded(g, TRUE)))
    BY <1>1 DEF Load
  <2> HIDE DEF g
  <2>3. SameBy(Loaded(g, TRUE), f)
    BY <2>1, LoadedBy
  <2>4. SameBy(Following(g, LoadOrder, Loaded(g, TRUE)), f)
    BY <2>1, <2>3, FollowingBy
  <2> QED BY <2>1, <2>2, <2>4
<1>2. CASE Save(p)
  <2>1. SameBy(Following(f, SaveOrder, Authenticated(f)), f)
    BY <1>0, EnsureBy, FollowingBy
  <2> QED BY <1>2, <2>1 DEF Save
<1>3. CASE Delete(p)
  <2>1. SameBy(Following(f, DeleteOrder, Return(f)), f)
    BY <1>0, ByStays, FollowingBy
  <2> QED BY <1>3, <2>1 DEF Delete
<1>4. CASE GetRefreshToken(p)
  <2> DEFINE g == [f EXCEPT !.creds = WithRefreshToken(@)]
  <2>1. SameBy(g, f) /\ GoOn(p, Step(g, "ask", "id"))
    BY <1>0, <1>4, ByStays DEF GetRefreshToken
  <2> HIDE DEF g
  <2>2. SameBy(Step(g, "ask", "id"), f)
    BY <2>1, ByStays
  <2> QED BY <2>1, <2>2
<1>5. CASE GetIdToken(p)
  <2> DEFINE g == [f EXCEPT !.creds = WithIdToken(@)]
  <2>1. SameBy(g, f) /\ SameBy(Raise(f), f)
    BY <1>0, ByStays
  <2>2. GoOn(p, Raise(f)) \/ GoOn(p, Return(g)) \/ GoOn(p, Step(g, "save", "refresh"))
    BY <1>5 DEF GetIdToken
  <2> HIDE DEF g
  <2>3. SameBy(Return(g), f) /\ SameBy(Step(g, "save", "refresh"), f)
    BY <2>1, ByStays
  <2> QED BY <2>1, <2>2, <2>3
<1>6. CASE Fails(p)
  <2>1. SameBy(Raise(f), f)
    BY <1>0, ByStays
  <2> QED BY <1>6, <2>1 DEF Fails
<1> QED BY <1>1, <1>2, <1>3, <1>4, <1>5, <1>6 DEF AuthStep

-----------------------------------------------------------------------------
(* The invariant *)

LEMMA EventsFit ==
    ASSUME events \in 0..MaxEvents, Counted \/ UNCHANGED events
    PROVE  events' \in 0..MaxEvents
BY BoundFacts DEF Counted

\* A step of a fetch in which it stays a fetch
LEMMA WorkStays ==
    ASSUME Inv, WorkInv, NEW p \in Procs, NEW f, FetchFits(f), f.job \in Jobs, Work(p, f),
           Counted \/ UNCHANGED events
    PROVE  WorkInv'
<1>1. /\ fetch' = [fetch EXCEPT ![p] = f] /\ token' = token /\ flow' = flow
      /\ UNCHANGED results
  BY DEF Work, authVars
<1>2. f # NoFetch
  BY BoundFacts
<1>3. ASSUME NEW q \in Procs PROVE FetchFits(fetch'[q]) /\ Owned(q)'
  BY <1>1, <1>2 DEF Inv, FetchInv, WorkInv, Owned
<1>4. TableFits'
  BY <1>1, EventsFit DEF WorkInv, TableFits, results
<1> QED BY <1>3, <1>4 DEF WorkInv

LEMMA BoundsOfAsking ==
    ASSUME WorkInv, NEW p \in Procs, Asking(p)
    PROVE  /\ FetchFits(fetch[p]) /\ fetch[p].left # <<>>
           /\ fetch[p].job \in Jobs /\ {"job", "since"} \subseteq DOMAIN fetch[p]
BY DEF WorkInv, Asking, FetchFits, NoFetch, Fetches

LEMMA GetPageFits ==
    ASSUME Inv, WorkInv, NEW p \in Procs, GetPage(p)
    PROVE  WorkInv'
<1> DEFINE f == fetch[p]
           pages == Pages[Head(f.left)]
           got == f.got \o pages[f.page]
           more == [f EXCEPT !.page = @ + 1, !.attempt = 1, !.got = got]
           done == NextTarget(Executed(f, got))
<1>1. /\ FetchFits(f) /\ f.left # <<>> /\ f.job \in Jobs /\ {"job", "since"} \subseteq DOMAIN f
      /\ UNCHANGED events
  BY BoundsOfAsking DEF GetPage
<1>2. Same(more, f) /\ Same(done, f)
  BY <1>1, SameFetch
<1>3. CASE f.page < Len(pages)
  <2>1. FetchFits(more) /\ Work(p, more)
    BY <1>1, <1>3, PageFits DEF GetPage
  <2> HIDE DEF f, more
  <2> QED BY <1>1, <1>2, <2>1, WorkStays DEF Same
<1>4. CASE ~(f.page < Len(pages))
  <2>1. FetchFits(done) /\ Work(p, done)
    BY <1>1, <1>4, LastPageFits DEF GetPage
  <2> HIDE DEF f, done
  <2> QED BY <1>1, <1>2, <2>1, WorkStays DEF Same
<1> QED BY <1>3, <1>4

LEMMA RetryOrFailFits ==
    ASSUME Inv, WorkInv, NEW p \in Procs, Retry(p) \/ FailsAtOnce(p) \/ StorageFails(p)
    PROVE  WorkInv'
<1> DEFINE f == fetch[p]
           again == [f EXCEPT !.attempt = @ + 1]
           fails == NextTarget([f EXCEPT !.failed = TRUE])
           got == f.got \o Pages[Head(f.left)][f.page]
<1>1. /\ FetchFits(f) /\ f.left # <<>> /\ f.job \in Jobs /\ {"job", "since"} \subseteq DOMAIN f
  BY BoundsOfAsking DEF Retry, FailsAtOnce, StorageFails
<1>2. Counted \/ UNCHANGED events
  BY DEF Retry, FailsAtOnce, StorageFails
<1>3. Same(again, f) /\ Same(fails, f)
      /\ \A k, aborted : Same(NextTarget(Interrupted(f, got, k, aborted)), f)
  BY <1>1, SameFetch
<1>4. FetchFits(fails) /\ (f.attempt < MaxRetries => FetchFits(again))
  BY <1>1, FailedFits, RetryFits
<1>5. CASE Retry(p) \/ FailsAtOnce(p)
  <2>1. (f.attempt < MaxRetries /\ Work(p, again)) \/ Work(p, fails)
    BY <1>5 DEF Retry, FailsAtOnce
  <2> HIDE DEF f, again, fails, got
  <2> QED BY <1>1, <1>2, <1>3, <1>4, <2>1, WorkStays DEF Same
<1>6. CASE StorageFails(p)
  <2>1. PICK k \in BatchStarts(got), aborted \in BOOLEAN :
           Work(p, NextTarget(Interrupted(f, got, k, aborted)))
    BY <1>6 DEF StorageFails
  <2> DEFINE stops == NextTarget(Interrupted(f, got, k, aborted))
  <2>2. ~(f.page < Len(Pages[Head(f.left)]))
    <3>1. f.page = Len(Pages[Head(f.left)])
      BY <1>6 DEF StorageFails
    <3>2. f.page \in Nat
      BY <1>1 DEF FetchFits, Fetches
    <3> QED BY <3>1, <3>2
  <2>3. FetchFits(stops)
    BY <1>1, <2>2, InterruptedFits
  <2>4. Same(stops, f) /\ Work(p, stops)
    BY <1>3, <2>1
  <2> HIDE DEF f, stops, got
  <2> QED BY <1>1, <1>2, <2>3, <2>4, WorkStays DEF Same
<1> QED BY <1>5, <1>6

\* A visitor authenticates for no fetch.
LEMMA VisitFits ==
    ASSUME Inv, WorkInv, NEW p \in Procs, Visit(p)
    PROVE  WorkInv'
<1>1. /\ fetch' = fetch /\ UNCHANGED results /\ token' = token
      /\ Counted
  BY DEF Visit, Login, RefreshToken, Logout, Begins
<1>2. PICK by \in {"login", "refresh", "logout"} : \E do, key :
        flow' = [flow EXCEPT ![p] = Step([Idle EXCEPT !.by = by], do, key)]
  BY DEF Visit, Login, RefreshToken, Logout, Begins
<1>3. ASSUME NEW q \in Procs PROVE Owned(q)'
  BY <1>1, <1>2 DEF Inv, FlowInv, WorkInv, Owned, Step, Idle
<1>4. TableFits'
  BY <1>1, EventsFit DEF WorkInv, TableFits, results
<1> QED BY <1>1, <1>3, <1>4 DEF WorkInv

\* A fetch starts with all the targets of its job.
LEMMA ReceiveFits ==
    ASSUME Inv, WorkInv, NEW p \in Procs, Receive(p)
    PROVE  WorkInv'
<1>1. PICK job \in Jobs :
        /\ CreateAuthenticatedClient(p) \/ AuthenticateJQuants(p)
        /\ fetch' = [fetch EXCEPT ![p] = [NoFetch EXCEPT !.job = job, !.since = now,
                                                         !.left = Targets[job]]]
  BY DEF Receive
<1> DEFINE left == Targets[job]
           f == [NoFetch EXCEPT !.job = job, !.since = now, !.left = left]
<1>2. /\ UNCHANGED results /\ token' = token /\ Counted
      /\ \A q \in Procs \ {p} : flow'[q] = flow[q]
  BY <1>1 DEF Receive, CreateAuthenticatedClient, AuthenticateJQuants, Begins, Inv, FlowInv
<1>3. left \in Seq(AllTargets) /\ now \in Nat /\ 1 \in 1..MaxRetries
  BY TargetsFit, TimesFacts, BoundFacts DEF Inv, StoreInv
<1> HIDE DEF left
<1>4. f \in Fetches
  <2>1. NoFetch \in Fetches
    BY <1>3 DEF NoFetch, Fetches
  <2> QED BY <1>3, <2>1 DEF Fetches
<1>5. /\ f.job = job /\ f.left = left /\ f.page = 1 /\ f.got = <<>> /\ f.saved = {}
  BY DEF NoFetch
<1> HIDE DEF f
<1>6. FetchFits(f)
  BY <1>4, <1>5, StartFits, AccountedFacts DEF SavedBut, left
<1>7. f # NoFetch
  BY <1>5, BoundFacts
<1>8. ASSUME NEW q \in Procs PROVE FetchFits(fetch'[q]) /\ Owned(q)'
  BY <1>1, <1>2, <1>6, <1>7 DEF Inv, FetchInv, WorkInv, Owned, f, left
<1>9. TableFits'
  BY <1>2, EventsFit DEF WorkInv, TableFits, results
<1> QED BY <1>8, <1>9 DEF WorkInv

\* A flow that makes a client does so for a fetch.
LEMMA AuthenticatesFits ==
    ASSUME Inv, WorkInv, NEW p \in Procs, Authenticates(p)
    PROVE  WorkInv'
<1>1. /\ fetch' = fetch /\ UNCHANGED results
      /\ Counted \/ UNCHANGED events
      /\ AuthStep(p) \/ Fails(p)
  BY DEF Authenticates
<1>2. "by" \in DOMAIN flow[p]
  BY DEF Inv, FlowInv, GoesOn, Flows
<1>3. PICK g : GoOn(p, g) /\ g.by = flow[p].by
  BY <1>1, <1>2, AuthStepBy DEF SameBy
<1>4. ASSUME NEW q \in Procs PROVE Owned(q)'
  <2>1. CASE q # p
    <3>1. flow'[q] = flow[q] /\ token'[q] = token[q]
      BY <1>3, <2>1 DEF GoOn, Inv, FlowInv, FetchInv
    <3> QED BY <1>1, <3>1 DEF WorkInv, Owned
  <2>2. CASE q = p
    <3>1. flow'[p] = Idle \/ flow'[p] = g
      BY <1>3 DEF GoOn, Inv, FlowInv
    <3>2. flow[p].by \notin {"task", "command"} => token' = token
      BY <1>3 DEF GoOn
    <3> QED BY <1>1, <1>3, <2>2, <3>1, <3>2 DEF WorkInv, Owned, Idle
  <2> QED BY <2>1, <2>2
<1>5. TableFits'
  BY <1>1, EventsFit DEF WorkInv, TableFits, results
<1> QED BY <1>1, <1>4, <1>5 DEF WorkInv

\* What a fetch that is over leaves is nobody's.
LEMMA OverOwns ==
    ASSUME Inv, WorkInv, NEW p \in Procs, Over(p), NEW q \in Procs
    PROVE  FetchFits(fetch'[q]) /\ Owned(q)'
<1>1. /\ fetch' = [fetch EXCEPT ![p] = NoFetch] /\ token' = [token EXCEPT ![p] = NoToken]
      /\ flow' = [flow EXCEPT ![p] = Idle]
  BY DEF Over
<1>2. FetchFits(NoFetch)
  <2>1. 1 \in 1..MaxRetries /\ NoFetch.job \notin Jobs
    BY BoundFacts
  <2>2. NoFetch \in Fetches
    BY <2>1 DEF NoFetch, Fetches
  <2> QED BY <2>1, <2>2, AccountedFacts DEF FetchFits, SavedBut, NoFetch
<1>3. CASE q = p
  BY <1>1, <1>2, <1>3 DEF Inv, FlowInv, FetchInv, Owned, Idle
<1>4. CASE q # p
  BY <1>1, <1>4 DEF Inv, FlowInv, FetchInv, WorkInv, Owned
<1> QED BY <1>3, <1>4

\* A fetch that ends without a commit leaves the table as it is.
LEMMA AbandonFits ==
    ASSUME Inv, WorkInv, NEW p \in Procs, GivesUp(p) \/ Killed(p)
    PROVE  WorkInv'
<1>1. /\ Over(p) /\ UNCHANGED results
      /\ Counted \/ UNCHANGED events
  BY DEF GivesUp, Killed
<1>2. TableFits'
  BY <1>1, EventsFit DEF WorkInv, TableFits, results
<1> QED BY <1>1, <1>2, OverOwns DEF WorkInv

\* A commit adds all that was saved: with no target left and none that failed,
\* that is every record of every target of the job.
LEMMA EndsFits ==
    ASSUME Inv, WorkInv, NEW p \in Procs, Ends(p)
    PROVE  WorkInv'
<1> DEFINE f == fetch[p]
           commits == ~f.aborted /\ (f.job.by = "task" \/ ~f.failed)
<1>1. /\ Over(p) /\ events' = events /\ token[p] # NoToken /\ f.left = <<>>
      /\ table' = IF commits THEN SaveAll(table, f.saved) ELSE table
      /\ succeeded' = IF commits /\ ~f.failed THEN succeeded \cup {f.job} ELSE succeeded
      /\ reported' = IF commits /\ f.failed THEN reported \cup {f.job} ELSE reported
  BY DEF Ends, EndsWith
<1>2. /\ FetchFits(f) /\ f.job \in Jobs /\ Accounted(f.saved, Partial(f))
      /\ Accounted(table, PartialOf(reported))
  BY <1>1 DEF WorkInv, FetchFits, Owned, TableFits
<1>3. SaveAll(table, f.saved) = table \cup f.saved
  BY <1>2, SaveAllAdds, AccountedFacts
<1>0. commits /\ f.failed => f.job.by = "task"
  OBVIOUS
<1> HIDE DEF commits, f
<1>4. table' = table \/ table' = table \cup f.saved
  BY <1>1, <1>3
<1>5. Accounted(table', PartialOf(reported'))
  <2>1. PartialOf(reported) \subseteq PartialOf(reported')
    BY <1>1 DEF PartialOf
  <2>2. CASE commits
    <3>1. Partial(f) \subseteq PartialOf(reported')
      <4>1. CASE f.failed
        BY <1>0, <1>1, <2>2, <4>1 DEF Partial, PartialOf
      <4>2. CASE ~f.failed
        BY <4>2 DEF Partial
      <4> QED BY <4>1, <4>2
    <3>2. Accounted(table, PartialOf(reported')) /\ Accounted(f.saved, PartialOf(reported'))
      BY <1>2, <2>1, <3>1, AccountedFacts
    <3>3. Accounted(table \cup f.saved, PartialOf(reported') \cup PartialOf(reported'))
      BY <3>2, AccountedFacts
    <3> QED BY <1>1, <1>3, <2>2, <3>3
  <2>3. CASE ~commits
    BY <1>1, <1>2, <2>3
  <2> QED BY <2>2, <2>3
<1>6. ASSUME NEW j \in succeeded', NEW t \in ToSet(Targets[j])
      PROVE  Rows[t] \subseteq table'
  <2>1. CASE j \in succeeded
    BY <1>4, <2>1 DEF WorkInv, TableFits
  <2>2. CASE j \notin succeeded
    <3>1. j = f.job /\ ~f.failed /\ table' = table \cup f.saved
      BY <1>1, <1>3, <1>6, <2>2
    <3>2. ToSet(f.left) = {}
      BY <1>1 DEF ToSet
    <3>3. Rows[t] \subseteq f.saved
      BY <1>2, <1>6, <3>1, <3>2 DEF FetchFits, SavedBut
    <3> QED BY <3>1, <3>3
  <2> QED BY <2>1, <2>2
<1>7. succeeded' \subseteq Jobs /\ reported' \subseteq Jobs /\ events' \in 0..MaxEvents
  BY <1>1, <1>2 DEF WorkInv, TableFits
<1>8. TableFits'
  BY <1>5, <1>6, <1>7 DEF TableFits
<1> QED BY <1>1, <1>8, OverOwns DEF WorkInv

\* The invariant holds of processes that have nothing to do ...
LEMMA WorkInit == Init => WorkInv
<1> SUFFICES ASSUME Init PROVE WorkInv
  OBVIOUS
<1>1. 1 \in 1..MaxRetries /\ NoFetch.job \notin Jobs /\ 0 \in 0..MaxEvents
  BY BoundFacts
<1>2. NoFetch \in Fetches
  BY <1>1 DEF NoFetch, Fetches
<1>3. FetchFits(NoFetch)
  BY <1>1, <1>2, AccountedFacts DEF FetchFits, SavedBut, NoFetch
<1>4. \A p \in Procs : FetchFits(fetch[p]) /\ Owned(p)
  BY <1>3 DEF Init, AuthInit, Owned, Idle
<1>5. TableFits
  BY <1>1, AccountedFacts DEF Init, TableFits
<1> QED BY <1>4, <1>5 DEF WorkInv

\* ... and every step keeps it.
LEMMA WorkNext == Inv /\ WorkInv /\ [Next]_vars => WorkInv'
<1> SUFFICES ASSUME Inv, WorkInv, [Next]_vars PROVE WorkInv'
  OBVIOUS
<1>1. CASE TimePasses \/ UNCHANGED vars
  <2>1. UNCHANGED <<fetch, results, events, flow, token>>
    BY <1>1 DEF TimePasses, Passes, fetchVars, vars, authVars
  <2> QED BY <2>1 DEF WorkInv, Owned, TableFits, results
<1>2. ASSUME NEW p \in Procs, Visit(p) \/ Receive(p) \/ OwnStep(p) \/ Killed(p)
      PROVE  WorkInv'
  BY <1>2, VisitFits, ReceiveFits, AuthenticatesFits, GetPageFits, RetryOrFailFits, EndsFits,
     AbandonFits DEF OwnStep
<1> QED BY <1>1, <1>2 DEF Next

LEMMA Invariants == Spec => [](Inv /\ WorkInv)
BY InvInit, InvNext, WorkInit, WorkNext, PTL DEF Spec
-----------------------------------------------------------------------------
\* The types; no request is tried more often than MAX_RETRIES and no page is asked
\* for beyond the last, for any listing (_request_with_retry, get_all_listed_info).
THEOREM TypeCorrect == Spec => []TypeOK
<1>1. ASSUME Inv, WorkInv PROVE TypeOK
  <2>1. AuthTypeOK
    <3>1. flow \in [Procs -> [by : {"nobody", "login", "refresh", "logout", "task", "command"},
                              do : {"nothing", "load", "ask", "save", "delete"},
                              key : Keys, again : BOOLEAN,
                              password : {Password, Placeholder},
                              creds : [{"refresh", "id", "expires"} -> Tokens]]]
      <4>1. \A p \in Procs : flow[p] \in Flows
        BY <1>1 DEF Inv, FlowInv, GoesOn
      <4>2. flow = [p \in Procs |-> flow[p]]
        BY <1>1 DEF Inv, FlowInv
      <4> QED BY <4>1, <4>2 DEF Flows
    <3> QED BY <1>1, <3>1 DEF AuthTypeOK, Inv, StoreInv, FetchInv
  <2>2. ASSUME NEW p \in Procs
        PROVE  /\ fetch[p].job \in Jobs \/ fetch[p] = NoFetch
               /\ fetch[p].attempt \in 1..MaxRetries
               /\ fetch[p].left # <<>> => fetch[p].page \in 1..Len(Pages[Head(fetch[p].left)])
    BY <1>1 DEF WorkInv, FetchFits, Fetches
  <2> QED BY <1>1, <2>1, <2>2 DEF TypeOK, WorkInv, TableFits
<1> QED BY <1>1, Invariants, PTL

\* A job that ended in success has every record of every target in the table, and a
\* part of a target's records without the rest is there only of a task that was
\* committed as failed, whatever the pages, batches, retries, failures and other
\* fetches (execute, get_all_listed_info, save_all).
THEOREM FetchesAreWhole == Spec => []FetchIsWhole
<1>1. ASSUME WorkInv PROVE FetchIsWhole
  <2>1. ASSUME NEW r \in table
        PROVE  \E t \in AllTargets :
                 /\ r \in Rows[t]
                 /\ \/ Rows[t] \subseteq table
                    \/ \E j \in reported : j.by = "task" /\ t \in ToSet(Targets[j])
    BY <1>1 DEF WorkInv, TableFits, Accounted, PartialOf
  <2> QED BY <1>1, <2>1 DEF WorkInv, TableFits, FetchIsWhole
<1> QED BY <1>1, Invariants, PTL
-----------------------------------------------------------------------------
(* Months *)

\* The least of a set is below all of it.
LEMMA LeastIs ==
    ASSUME NEW S \in SUBSET Nat, S # {}
    PROVE  Min(S) \in S /\ \A y \in S : Min(S) <= y
BY LeastOne DEF Min

\* A day of which the month has an end
InMonth(d) == d \in Nat /\ \E s \in MonthStarts : s > d

\* The end of the month is the last day that has no first of a month behind it.
LEMMA MonthEndIs ==
    ASSUME NEW d, InMonth(d)
    PROVE  /\ MonthEnd(d) \in Nat /\ MonthEnd(d) >= d
           /\ \E s \in MonthStarts : s = MonthEnd(d) + 1
           /\ \A s \in MonthStarts : s > d => s > MonthEnd(d)
<1> DEFINE S == {s \in MonthStarts : s > d}
<1>1. S \in SUBSET Nat /\ S # {}
  BY CalendarAssumption DEF InMonth
<1>2. Min(S) \in S /\ \A y \in S : Min(S) <= y
  <2> HIDE DEF S
  <2> QED BY <1>1, LeastIs
<1>3. MonthEnd(d) = Min(S) - 1
  BY DEF MonthEnd
<1>4. d \in Nat /\ MonthStarts \subseteq Nat
  BY CalendarAssumption DEF InMonth
<1> DEFINE m == Min(S)
<1>5. m \in MonthStarts /\ m > d /\ \A s \in MonthStarts : s > d => m <= s
  BY <1>2
<1> HIDE DEF m
<1>6. m \in Nat /\ d \in Nat /\ MonthEnd(d) = m - 1
  BY <1>3, <1>4, <1>5 DEF m
<1>7. \A s \in MonthStarts : s \in Nat
  BY <1>4
<1>8. m - 1 \in Nat /\ m - 1 >= d /\ m = (m - 1) + 1 /\ \A s \in MonthStarts : s > d => s > m - 1
  BY <1>5, <1>6, <1>7
<1> QED BY <1>5, <1>6, <1>8

\* Days up to the end of a month are in that month.
LEMMA SameMonth ==
    ASSUME NEW d, InMonth(d), NEW e \in d..MonthEnd(d)
    PROVE  InMonth(e) /\ MonthEnd(e) = MonthEnd(d)
<1>1. d \in Nat /\ MonthStarts \subseteq Nat
  BY CalendarAssumption DEF InMonth
<1>2. PICK s \in MonthStarts : s = MonthEnd(d) + 1
  BY MonthEndIs
<1>3. e \in Nat /\ s > e /\ InMonth(e)
  BY <1>1, <1>2, MonthEndIs DEF InMonth
<1>4. PICK t \in MonthStarts : t = MonthEnd(e) + 1
  BY <1>3, MonthEndIs
<1>5. MonthEnd(e) \in Nat /\ MonthEnd(d) \in Nat /\ MonthEnd(e) >= e
  BY <1>3, MonthEndIs
<1>6. t > d /\ t > MonthEnd(d)
  BY <1>1, <1>4, <1>5, MonthEndIs
<1>7. s > MonthEnd(e)
  BY <1>2, <1>3, MonthEndIs
<1> QED BY <1>2, <1>3, <1>4, <1>5, <1>6, <1>7

\* The earlier of two days
LEMMA EarlierIs ==
    ASSUME NEW a \in Nat, NEW b \in Nat
    PROVE  Min({a, b}) = IF a <= b THEN a ELSE b
<1> DEFINE S == {a, b}
<1>1. Min(S) \in S /\ \A y \in S : Min(S) <= y
  <2>1. S \in SUBSET Nat /\ S # {}
    OBVIOUS
  <2> HIDE DEF S
  <2> QED BY <2>1, LeastIs
<1> QED BY <1>1

\* The function SplitByMonths is defined with: the parts from a day on
PartsFrom(p) ==
    CHOOSE from : from = [current \in p.start..(p.end + 1) |->
        LET end == Min({MonthEnd(current), p.end}) IN
        IF current > p.end THEN <<>> ELSE <<Period(current, end)>> \o from[end + 1]]

\* A period within months that have an end
Ended(p) == p.start \in Nat /\ p.end \in Nat /\ p.start <= p.end /\ InMonth(p.end)

\* The last day of the part that begins with a day
PartEnd(p, c) == Min({MonthEnd(c), p.end})

\* A part ends in the month it begins in, or with the period.
LEMMA PartEndIs ==
    ASSUME NEW p, Ended(p), NEW c \in p.start..p.end
    PROVE  /\ InMonth(c) /\ PartEnd(p, c) \in c..p.end
           /\ MonthEnd(PartEnd(p, c)) = MonthEnd(c)
           /\ PartEnd(p, c) = p.end \/ PartEnd(p, c) = MonthEnd(c)
<1>1. InMonth(c) /\ c \in Nat /\ p.end \in Nat
  <2>1. p.start \in Nat /\ p.end \in Nat /\ MonthStarts \subseteq Nat
    BY CalendarAssumption DEF Ended
  <2>2. PICK s \in MonthStarts : s > p.end
    BY DEF Ended, InMonth
  <2>3. c \in Nat /\ s > c
    BY <2>1, <2>2
  <2> QED BY <2>1, <2>2, <2>3 DEF InMonth
<1>2. MonthEnd(c) \in Nat /\ MonthEnd(c) >= c
  BY <1>1, MonthEndIs
<1>3. PartEnd(p, c) = IF MonthEnd(c) <= p.end THEN MonthEnd(c) ELSE p.end
  BY <1>1, <1>2, EarlierIs DEF PartEnd
<1>4. PartEnd(p, c) \in c..MonthEnd(c)
  BY <1>1, <1>2, <1>3
<1> QED BY <1>1, <1>2, <1>3, <1>4, SameMonth

\* Its recursion
LEMMA PartsFromIs ==
    ASSUME NEW p, Ended(p)
    PROVE  PartsFrom(p) = [current \in p.start..(p.end + 1) |->
             IF current > p.end THEN <<>>
             ELSE <<Period(current, PartEnd(p, current))>> \o PartsFrom(p)[PartEnd(p, current) + 1]]
<1> DEFINE last == p.end + 1
           Parts(g, c) == IF c > p.end THEN <<>>
                          ELSE <<Period(c, PartEnd(p, c))>> \o g[PartEnd(p, c) + 1]
           S == {n \in Nat : n <= last - p.start =>
                               \E g : g = [c \in (last - n)..last |-> Parts(g, c)]}
<1>0. p.start \in Nat /\ p.end \in Nat /\ p.start <= p.end
  BY DEF Ended
<1>1. 0 \in S
  <2> DEFINE g == [c \in last..last |-> <<>>]
  <2>1. g = [c \in last..last |-> Parts(g, c)]
    BY <1>0
  <2>2. last - 0 = last
    BY <1>0
  <2> HIDE DEF g, Parts, last
  <2> QED BY <2>1, <2>2
<1>2. ASSUME NEW n \in Nat, n \in S PROVE n + 1 \in S
  <2> SUFFICES ASSUME n + 1 <= last - p.start
               PROVE  \E g : g = [c \in (last - (n + 1))..last |-> Parts(g, c)]
    OBVIOUS
  <2> DEFINE first == last - (n + 1)
  <2>1. PICK g : g = [c \in (first + 1)..last |-> Parts(g, c)]
    <3>1. n <= last - p.start /\ last - n = first + 1
      BY <1>0
    <3> HIDE DEF first, last, Parts
    <3> QED BY <1>2, <3>1
  <2>2. first \in p.start..p.end /\ first \in Nat
    BY <1>0
  <2>3. \A c \in first..p.end : PartEnd(p, c) + 1 \in (first + 1)..last /\ PartEnd(p, c) + 1 # first
    <3>1. ASSUME NEW c \in first..p.end PROVE PartEnd(p, c) \in c..p.end
      <4>1. c \in p.start..p.end
        BY <1>0, <2>2
      <4> QED BY <4>1, PartEndIs
    <3> HIDE DEF first
    <3> QED BY <1>0, <2>2, <3>1
  <2> HIDE DEF first
  <2> DEFINE h == [c \in first..last |-> IF c = first THEN Parts(g, first) ELSE g[c]]
  <2>4. ASSUME NEW c \in first..last PROVE h[c] = Parts(h, c)
    <3>0. c <= p.end \/ c > p.end
      BY <1>0, <2>2
    <3>1. Parts(h, c) = Parts(g, c)
      <4>1. CASE c > p.end
        BY <4>1
      <4>2. CASE c <= p.end
        <5>1. c \in first..p.end
          BY <4>2, <1>0, <2>2
        <5>2. PartEnd(p, c) + 1 \in first..last /\ PartEnd(p, c) + 1 # first
          BY <5>1, <2>2, <2>3, <1>0
        <5>3. h[PartEnd(p, c) + 1] = g[PartEnd(p, c) + 1]
          BY <5>2
        <5> HIDE DEF h
        <5> QED BY <5>3
      <4> QED BY <3>0, <4>1, <4>2
    <3>2. CASE c = first
      <4>1. h[c] = Parts(g, c)
        BY <3>2
      <4> HIDE DEF h, Parts
      <4> QED BY <3>1, <4>1
    <3>3. CASE c # first
      <4>1. h[c] = g[c] /\ c \in (first + 1)..last
        BY <3>3, <2>2, <1>0
      <4> HIDE DEF h, Parts
      <4> QED BY <3>1, <4>1, <2>1
    <3> QED BY <3>2, <3>3
  <2>5. h = [c \in first..last |-> h[c]]
    OBVIOUS
  <2> HIDE DEF h, Parts
  <2>6. h = [c \in first..last |-> Parts(h, c)]
    BY <2>4, <2>5
  <2> QED BY <2>6 DEF first
<1>3. Nat \subseteq S
  <2> HIDE DEF S
  <2> QED BY <1>1, <1>2, SetInduction
<1>4. last - p.start \in Nat /\ last - (last - p.start) = p.start
  BY <1>0
<1>5. \E g : g = [c \in p.start..last |-> Parts(g, c)]
  <2> HIDE DEF Parts, last
  <2>1. last - p.start \in S
    BY <1>3, <1>4
  <2>2. last - p.start <= last - p.start
    BY <1>4
  <2> QED BY <2>1, <2>2, <1>4
<1> QED BY <1>5 DEF PartsFrom, PartEnd

Part == [start : Nat, end : Nat]

\* Parts in order, one for each month, that are the days from c to e
PartsFit(parts, c, e) ==
    /\ parts \in Seq(Part)
    /\ \A k \in DOMAIN parts :
         /\ parts[k].start >= c /\ parts[k].end <= e /\ IsPeriod(parts[k])
         /\ MonthEnd(parts[k].start) = MonthEnd(parts[k].end)
    /\ \A k, l \in DOMAIN parts : k < l => MonthEnd(parts[k].end) < parts[l].start
    /\ UNION {Days(parts[k]) : k \in DOMAIN parts} = c..e

\* A part before others
LEMMA FirstPartFits ==
    ASSUME NEW p, Ended(p), NEW c \in p.start..p.end, NEW parts,
           PartsFit(parts, PartEnd(p, c) + 1, p.end)
    PROVE  PartsFit(<<Period(c, PartEnd(p, c))>> \o parts, c, p.end)
<1> DEFINE end == PartEnd(p, c)
           first == Period(c, end)
           all == <<first>> \o parts
<1>1. /\ p.start \in Nat /\ p.end \in Nat /\ c \in Nat /\ end \in c..p.end /\ end \in Nat
      /\ MonthEnd(end) = MonthEnd(c)
      /\ end = p.end \/ end = MonthEnd(c)
  BY PartEndIs DEF Ended
<1>2. first \in Part /\ first.start = c /\ first.end = end
  BY <1>1 DEF Part, Period
<1>3. parts \in Seq(Part) /\ Len(parts) \in Nat /\ DOMAIN parts = 1..Len(parts)
  BY DEF PartsFit
<1> HIDE DEF end, first
<1>4. /\ all \in Seq(Part) /\ DOMAIN all = 1..(Len(parts) + 1)
      /\ all[1] = first /\ \A k \in 2..(Len(parts) + 1) : all[k] = parts[k - 1]
  BY <1>2, <1>3
<1> HIDE DEF all
<1>5. \A k \in DOMAIN parts :
        /\ parts[k].start \in Nat /\ parts[k].end \in Nat
        /\ parts[k].start >= end + 1 /\ parts[k].end <= p.end /\ parts[k].start <= parts[k].end
        /\ MonthEnd(parts[k].start) = MonthEnd(parts[k].end)
  <2>1. \A k \in DOMAIN parts : parts[k] \in Part
    BY <1>3
  <2>2. \A k \in DOMAIN parts : parts[k].start \in Nat /\ parts[k].end \in Nat
    BY <2>1 DEF Part
  <2>3. \A k \in DOMAIN parts :
          /\ parts[k].start >= end + 1 /\ parts[k].end <= p.end /\ IsPeriod(parts[k])
          /\ MonthEnd(parts[k].start) = MonthEnd(parts[k].end)
    BY DEF PartsFit, end
  <2> QED BY <2>2, <2>3 DEF IsPeriod
<1>6. \A k \in DOMAIN all : k = 1 \/ (k - 1 \in DOMAIN parts /\ all[k] = parts[k - 1])
  BY <1>3, <1>4
<1>7. ASSUME NEW k \in DOMAIN all
      PROVE  /\ all[k].start >= c /\ all[k].end <= p.end /\ IsPeriod(all[k])
             /\ MonthEnd(all[k].start) = MonthEnd(all[k].end)
  <2>1. CASE k = 1
    BY <1>1, <1>2, <1>4, <2>1 DEF IsPeriod
  <2>2. CASE k - 1 \in DOMAIN parts /\ all[k] = parts[k - 1]
    BY <1>1, <1>5, <2>2 DEF IsPeriod
  <2> QED BY <1>6, <2>1, <2>2
<1>8. ASSUME NEW k \in DOMAIN all, NEW l \in DOMAIN all, k < l
      PROVE  MonthEnd(all[k].end) < all[l].start
  <2>1. l - 1 \in DOMAIN parts /\ all[l] = parts[l - 1]
    BY <1>4, <1>6, <1>8, <1>3
  <2>2. CASE k = 1
    <3>1. parts[l - 1].start >= end + 1 /\ parts[l - 1].start <= p.end /\ parts[l - 1].start \in Nat
      BY <1>1, <1>5, <2>1
    <3>2. end = MonthEnd(c)
      BY <1>1, <3>1
    <3>3. end < parts[l - 1].start
      BY <1>1, <3>1
    <3> QED BY <1>1, <1>2, <1>4, <2>1, <2>2, <3>2, <3>3
  <2>3. CASE k - 1 \in DOMAIN parts /\ all[k] = parts[k - 1]
    <3>1. k - 1 < l - 1
      BY <1>3, <1>4, <1>8
    <3>2. \A x, y \in DOMAIN parts : x < y => MonthEnd(parts[x].end) < parts[y].start
      BY DEF PartsFit
    <3> QED BY <2>1, <2>3, <3>1, <3>2
  <2> QED BY <1>6, <2>2, <2>3
<1>9. UNION {Days(all[k]) : k \in DOMAIN all} = c..p.end
  <2>1. UNION {Days(parts[k]) : k \in DOMAIN parts} = (end + 1)..p.end
    BY DEF PartsFit, end
  <2>2. UNION {Days(all[k]) : k \in DOMAIN all}
          = Days(first) \cup UNION {Days(parts[k]) : k \in DOMAIN parts}
    <3>1. \A k \in DOMAIN parts : k + 1 \in DOMAIN all /\ all[k + 1] = parts[k]
      BY <1>3, <1>4
    <3>2. 1 \in DOMAIN all
      BY <1>3, <1>4
    <3>3. \A k \in DOMAIN all :
            Days(all[k]) = Days(first) \/ \E l \in DOMAIN parts : Days(all[k]) = Days(parts[l])
      BY <1>4, <1>6
    <3>4. \A l \in DOMAIN parts : \E k \in DOMAIN all : Days(all[k]) = Days(parts[l])
      BY <3>1
    <3>5. \E k \in DOMAIN all : Days(all[k]) = Days(first)
      BY <1>4, <3>2
    <3> QED BY <3>3, <3>4, <3>5
  <2>3. Days(first) = c..end
    BY <1>2 DEF Days
  <2>4. c..p.end = (c..end) \cup ((end + 1)..p.end)
    BY <1>1
  <2> QED BY <2>1, <2>2, <2>3, <2>4
<1>10. PartsFit(all, c, p.end)
  BY <1>4, <1>7, <1>8, <1>9 DEF PartsFit
<1> QED BY <1>10 DEF all, first, end

\* The parts from each day on
LEMMA PartsFromFit ==
    ASSUME NEW p, Ended(p), NEW c \in p.start..(p.end + 1)
    PROVE  PartsFit(PartsFrom(p)[c], c, p.end)
<1> DEFINE S == {n \in Nat : \A d \in p.start..(p.end + 1) :
                               p.end + 1 - d <= n => PartsFit(PartsFrom(p)[d], d, p.end)}
<1>0. p.start \in Nat /\ p.end \in Nat /\ p.start <= p.end
  BY DEF Ended
<1>1. ASSUME NEW d \in p.start..(p.end + 1), d > p.end PROVE PartsFit(PartsFrom(p)[d], d, p.end)
  <2>1. PartsFrom(p)[d] = <<>>
    BY <1>1, PartsFromIs
  <2>2. d..p.end = {}
    BY <1>0, <1>1
  <2> QED BY <2>1, <2>2 DEF PartsFit
<1>2. 0 \in S
  <2>1. ASSUME NEW d \in p.start..(p.end + 1), p.end + 1 - d <= 0
        PROVE  PartsFit(PartsFrom(p)[d], d, p.end)
    BY <1>0, <1>1, <2>1
  <2> QED BY <2>1
<1>3. ASSUME NEW n \in Nat, n \in S PROVE n + 1 \in S
  <2>1. ASSUME NEW d \in p.start..(p.end + 1), p.end + 1 - d <= n + 1
        PROVE  PartsFit(PartsFrom(p)[d], d, p.end)
    <3>1. CASE d <= p.end
      <4>1. d \in p.start..p.end /\ ~(d > p.end)
        BY <1>0, <3>1
      <4> DEFINE next == PartEnd(p, d) + 1
      <4>2. PartEnd(p, d) \in d..p.end
        BY <4>1, PartEndIs
      <4>3. next \in p.start..(p.end + 1) /\ p.end + 1 - next <= n
        BY <1>0, <2>1, <4>2
      <4>4. PartsFit(PartsFrom(p)[next], next, p.end)
        <5> HIDE DEF next
        <5> QED BY <1>3, <4>3
      <4>5. PartsFrom(p)[d] = <<Period(d, PartEnd(p, d))>> \o PartsFrom(p)[next]
        BY <4>1, PartsFromIs
      <4> QED BY <4>1, <4>4, <4>5, FirstPartFits
    <3>2. CASE d > p.end
      BY <1>1, <3>2
    <3> QED BY <1>0, <3>1, <3>2
  <2>2. n + 1 \in Nat
    OBVIOUS
  <2> QED BY <2>1, <2>2
<1>4. Nat \subseteq S
  <2> HIDE DEF S
  <2> QED BY <1>2, <1>3, SetInduction
<1>5. p.end + 1 - c \in Nat /\ p.end + 1 - c <= p.end + 1 - c
  BY <1>0
<1> QED BY <1>4, <1>5

\* The months of a period
LEMMA MonthsFit ==
    ASSUME NEW p, Ended(p)
    PROVE  MonthsAgree(p)
<1>1. p.start \in p.start..(p.end + 1)
  BY DEF Ended
<1>2. SplitByMonths(p) = PartsFrom(p)[p.start]
  BY DEF SplitByMonths, PartsFrom
<1>3. PartsFit(SplitByMonths(p), p.start, p.end)
  BY <1>1, <1>2, PartsFromFit
<1>4. Days(p) = p.start..p.end
  BY DEF Days
<1> HIDE DEF MonthsAgree
<1> QED BY <1>3, <1>4 DEF PartsFit, MonthsAgree

-----------------------------------------------------------------------------
(* Periods of the calendar *)

\* A period of the calendar is in order and within months that have an end.
LEMMA PeriodFacts ==
    ASSUME NEW p \in Periods
    PROVE  /\ p.start \in Nat /\ p.end \in Nat /\ p.start <= p.end
           /\ p = Period(p.start, p.end)
           /\ Ended(p)
<1>1. p.start \in Calendar /\ p.end \in Calendar /\ IsPeriod(p) /\ p = Period(p.start, p.end)
  BY DEF Periods, Period
<1>2. p.start \in Nat /\ p.end \in Nat /\ InMonth(p.end)
  BY <1>1, CalendarAssumption DEF InMonth
<1> QED BY <1>1, <1>2 DEF IsPeriod, Ended

\* The later of two days
LEMMA LaterIs ==
    ASSUME NEW a \in Nat, NEW b \in Nat
    PROVE  Max({a, b}) = IF a >= b THEN a ELSE b
<1> DEFINE m == IF a >= b THEN a ELSE b
<1>1. m \in {a, b} /\ \A y \in {a, b} : m >= y
  OBVIOUS
<1>2. Max({a, b}) \in {a, b} /\ \A y \in {a, b} : Max({a, b}) >= y
  BY <1>1 DEF Max
<1>3. Max({a, b}) \in Nat /\ Max({a, b}) >= m /\ m >= Max({a, b})
  BY <1>1, <1>2
<1> QED BY <1>3

\* Two periods with no gap between them merge, and no others.
LEMMA MergesFit ==
    ASSUME NEW p \in Periods, NEW q \in Periods
    PROVE  MergesAgree(p, q)
<1> DEFINE both == Days(p) \cup Days(q)
           a == p.start
           b == p.end
           c == q.start
           d == q.end
<1>1. /\ a \in Nat /\ b \in Nat /\ c \in Nat /\ d \in Nat /\ a <= b /\ c <= d
      /\ Days(p) = a..b /\ Days(q) = c..d /\ both = (a..b) \cup (c..d)
  BY PeriodFacts DEF Days
<1>2. Overlaps(p, q) <=> ~(b < c \/ a > d)
  BY DEF Overlaps
<1>3. IsAdjacent(p, q) <=> b + 1 = c \/ d + 1 = a
  BY DEF IsAdjacent
<1>4. Merge(p, q) = IF ~Overlaps(p, q) /\ ~IsAdjacent(p, q) THEN NoPeriod
                    ELSE Period(Min({a, c}), Max({b, d}))
  BY DEF Merge
<1>5. Overlaps(p, q) <=> \E x \in Days(p) : ContainsDay(q, x)
  <2>1. ASSUME Overlaps(p, q) PROVE \E x \in a..b : c <= x /\ x <= d
    <3>1. CASE a <= c
      <4>1. c \in a..b /\ c <= d
        BY <1>1, <1>2, <2>1, <3>1
      <4> QED BY <4>1
    <3>2. CASE c <= a
      <4>1. a \in a..b /\ c <= a /\ a <= d
        BY <1>1, <1>2, <2>1, <3>2
      <4> QED BY <4>1
    <3> HIDE DEF a, b, c, d
    <3> QED BY <1>1, <3>1, <3>2
  <2>2. ASSUME NEW x \in a..b, c <= x, x <= d PROVE Overlaps(p, q)
    <3> HIDE DEF a, b, c, d
    <3> QED BY <1>1, <1>2, <2>2
  <2> QED BY <1>1, <2>1, <2>2 DEF ContainsDay
<1> HIDE DEF a, b, c, d
<1>6. CASE Overlaps(p, q) \/ IsAdjacent(p, q)
  <2> DEFINE first == IF a <= c THEN a ELSE c
             last == IF b >= d THEN b ELSE d
  <2>1. Min({a, c}) = first /\ Max({b, d}) = last
    BY <1>1, EarlierIs, LaterIs
  <2>2. both = first..last /\ first \in both /\ last \in both
    BY <1>1, <1>2, <1>3, <1>6
  <2>3. Merge(p, q) = Period(first, last)
    BY <1>4, <1>6, <2>1
  <2> HIDE DEF first, last, both
  <2>4. Days(Merge(p, q)) = both
    BY <2>2, <2>3 DEF Days, Period
  <2>5. \E x, y \in both : both = x..y
    BY <2>2
  <2> QED BY <1>5, <2>4, <2>5 DEF MergesAgree, both
<1>7. CASE ~Overlaps(p, q) /\ ~IsAdjacent(p, q)
  <2>1. Merge(p, q) = NoPeriod
    BY <1>4, <1>7
  <2>2. ASSUME NEW x \in both, NEW y \in both, both = x..y PROVE FALSE
    <3>1. x \in Nat /\ y \in Nat /\ a \in both /\ b \in both /\ c \in both /\ d \in both
      BY <1>1
    <3>2. x <= a /\ x <= c /\ b <= y /\ d <= y
      <4>1. {a, b, c, d} \subseteq x..y
        BY <2>2, <3>1
      <4> HIDE DEF both
      <4> QED BY <1>1, <3>1, <4>1
    <3>3. CASE b < c
      <4>1. b + 1 \in x..y
        BY <1>1, <3>1, <3>2, <3>3
      <4>2. b + 1 \in both
        BY <2>2, <4>1
      <4> QED BY <1>1, <1>3, <1>7, <3>3, <4>2
    <3>4. CASE a > d
      <4>1. d + 1 \in x..y
        BY <1>1, <3>1, <3>2, <3>4
      <4>2. d + 1 \in both
        BY <2>2, <4>1
      <4> QED BY <1>1, <1>3, <1>7, <3>4, <4>2
    <3> QED BY <1>2, <1>7, <3>3, <3>4
  <2> QED BY <1>5, <2>1, <2>2 DEF MergesAgree
<1> QED BY <1>6, <1>7

\* A month up to a day of it is one part.
LEMMA CurrentMonthFits ==
    ASSUME NEW d \in Calendar
    PROVE  SplitByMonths(CurrentMonth(d)) = <<CurrentMonth(d)>>
<1> DEFINE S == {s \in MonthStarts : s <= d}
           p == CurrentMonth(d)
<1>1. d \in Nat /\ MonthStarts \subseteq Nat /\ InMonth(d)
  BY CalendarAssumption DEF InMonth
<1>2. PICK s \in S : \A t \in S : s >= t
  <2> DEFINE T == {n \in Nat : \E s \in S : n = d - s}
  <2>1. T \in SUBSET Nat /\ T # {}
    <3>1. PICK s \in MonthStarts : s <= d
      BY CalendarAssumption
    <3>2. d - s \in T
      BY <1>1, <3>1
    <3> QED BY <3>2
  <2>2. PICK n \in T : \A m \in T : n <= m
    <3> HIDE DEF T
    <3> QED BY <2>1, LeastOne
  <2>3. PICK s \in S : n = d - s
    BY <2>2
  <2>4. \A t \in S : d - t \in T
    BY <1>1
  <2>5. \A t \in S : d - s <= d - t /\ t \in Nat
    BY <1>1, <2>2, <2>3, <2>4
  <2> QED BY <1>1, <2>3, <2>5
<1>3. Max(S) = s
  <2>1. s \in Nat /\ \A t \in S : t \in Nat
    BY <1>1, <1>2
  <2>2. Max(S) \in S /\ \A t \in S : Max(S) >= t
    BY <1>2 DEF Max
  <2> HIDE DEF S
  <2>3. Max(S) >= s /\ s >= Max(S) /\ Max(S) \in Nat
    BY <1>2, <2>1, <2>2
  <2> QED BY <2>1, <2>3
<1>4. p = Period(s, d) /\ p.start = s /\ p.end = d /\ s \in Nat /\ s <= d
  BY <1>1, <1>2, <1>3 DEF CurrentMonth, Period
<1> HIDE DEF p
<1>5. Ended(p)
  BY <1>1, <1>4 DEF Ended
<1>6. InMonth(s) /\ MonthEnd(s) >= d /\ MonthEnd(s) \in Nat
  <2>1. InMonth(s)
    <3>1. PICK t \in MonthStarts : t > d
      BY <1>1 DEF InMonth
    <3>2. t \in Nat /\ t > s
      BY <1>1, <1>4, <3>1
    <3> QED BY <1>4, <3>2 DEF InMonth
  <2>2. PICK t \in MonthStarts : t = MonthEnd(s) + 1
    BY <2>1, MonthEndIs
  <2>3. MonthEnd(s) \in Nat /\ MonthEnd(s) >= s
    BY <2>1, MonthEndIs
  <2>4. ~(t <= d)
    BY <1>2, <1>4, <2>2, <2>3
  <2> QED BY <1>1, <2>1, <2>2, <2>3, <2>4
<1>7. PartEnd(p, s) = d
  BY <1>1, <1>4, <1>6, EarlierIs DEF PartEnd
<1>8. /\ s \in p.start..(p.end + 1) /\ ~(s > p.end)
      /\ d + 1 \in p.start..(p.end + 1) /\ d + 1 > p.end
  BY <1>1, <1>4
<1>9. PartsFrom(p)[d + 1] = <<>>
  BY <1>5, <1>8, PartsFromIs
<1>10. PartsFrom(p)[s] = <<Period(s, d)>> \o <<>>
  BY <1>5, <1>7, <1>8, <1>9, PartsFromIs
<1>11. SplitByMonths(p) = PartsFrom(p)[p.start]
  BY DEF SplitByMonths, PartsFrom
<1>12. <<Period(s, d)>> \o <<>> = <<Period(s, d)>>
  OBVIOUS
<1> QED BY <1>4, <1>10, <1>11, <1>12 DEF p

-----------------------------------------------------------------------------
(* Dates *)

\* The days of a period in turn, forwards or backwards
InTurn(dates, p) ==
    /\ p.start \in Int /\ p.end \in Int
    /\ Len(dates) = IF IsPeriod(p) THEN NumberOfDays(p) ELSE 0
    /\ Len(dates) \in Nat /\ DOMAIN dates = 1..Len(dates)
    /\ \/ \A n \in 1..Len(dates) : dates[n] = p.start + n - 1
       \/ \A n \in 1..Len(dates) : dates[n] = p.end - n + 1

\* Dates counted back from a day are the days up to it, in turn.
LEMMA LastInTurn ==
    ASSUME NEW n \in Nat \ {0}, NEW last \in Int, NEW s, Len(s) = n, DOMAIN s = 1..n,
           \A k \in 1..n : s[k] = last - (k - 1)
    PROVE  InTurn(s, LastNDays(n, last))
<1> DEFINE p == LastNDays(n, last)
<1>1. p.end = last /\ p.start = last - (n - 1)
  BY DEF LastNDays, Period
<1>2. p.start \in Int /\ p.end \in Int /\ IsPeriod(p) /\ NumberOfDays(p) = n
  BY <1>1 DEF IsPeriod, NumberOfDays
<1>4. \A k \in 1..n : s[k] = p.end - k + 1
  BY <1>1
<1> HIDE DEF p
<1>5. InTurn(s, p)
  BY <1>2, <1>4 DEF InTurn
<1> QED BY <1>5 DEF p

\* The target dates of a period type
LEMMA DatesAre ==
    ASSUME NEW period \in [type : {"yesterday", "7days", "30days", "custom"}, from : Nat, to : Nat],
           IsNamed(period)
    PROVE  InTurn(DateRange(Today, period), NamedPeriod(Today, period))
<1> DEFINE dates == DateRange(Today, period)
           last == Today - 1
<1>1. last \in Int
  BY FetchAssumption
<1>3. CASE period.type = "yesterday"
  <2>1. dates = <<last>> /\ NamedPeriod(Today, period) = LastNDays(1, last)
    BY <1>3 DEF DateRange, NamedPeriod
  <2>2. Len(dates) = 1 /\ DOMAIN dates = 1..1 /\ \A k \in 1..1 : dates[k] = last - (k - 1)
    BY <1>1, <2>1
  <2> HIDE DEF dates, last
  <2>3. 1 \in Nat \ {0}
    OBVIOUS
  <2>4. InTurn(dates, LastNDays(1, last))
    BY <1>1, <2>2, <2>3, LastInTurn
  <2> QED BY <2>1, <2>4 DEF dates
<1>4. CASE period.type = "7days"
  <2>1. dates = [k \in 1..7 |-> last - (k - 1)] /\ NamedPeriod(Today, period) = LastNDays(7, last)
    BY <1>4 DEF DateRange, NamedPeriod
  <2>2. Len(dates) = 7 /\ DOMAIN dates = 1..7 /\ \A k \in 1..7 : dates[k] = last - (k - 1)
    BY <2>1
  <2> HIDE DEF dates, last
  <2>3. 7 \in Nat \ {0}
    OBVIOUS
  <2>4. InTurn(dates, LastNDays(7, last))
    BY <1>1, <2>2, <2>3, LastInTurn
  <2> QED BY <2>1, <2>4 DEF dates
<1>5. CASE period.type = "30days"
  <2>1. dates = [k \in 1..30 |-> last - (k - 1)] /\ NamedPeriod(Today, period) = LastNDays(30, last)
    BY <1>5 DEF DateRange, NamedPeriod
  <2>2. Len(dates) = 30 /\ DOMAIN dates = 1..30 /\ \A k \in 1..30 : dates[k] = last - (k - 1)
    BY <2>1
  <2> HIDE DEF dates, last
  <2>3. 30 \in Nat \ {0}
    OBVIOUS
  <2>4. InTurn(dates, LastNDays(30, last))
    BY <1>1, <2>2, <2>3, LastInTurn
  <2> QED BY <2>1, <2>4 DEF dates
<1>6. CASE period.type = "custom"
  <2> DEFINE a == period.from
             b == period.to
             m == b - a + 1
             named == NamedPeriod(Today, period)
  <2>1. dates = [n \in 1..m |-> a + n - 1] /\ named = Period(a, b)
    BY <1>6 DEF DateRange, NamedPeriod, IsNamed
  <2>2. a \in Nat /\ b \in Nat /\ named.start = a /\ named.end = b
    BY <2>1 DEF Period
  <2> HIDE DEF dates, named, a, b
  <2>3. CASE a <= b
    <3>1. m \in Nat /\ IsPeriod(named) /\ NumberOfDays(named) = m
      BY <2>2, <2>3 DEF IsPeriod, NumberOfDays
    <3>2. Len(dates) = m /\ DOMAIN dates = 1..m /\ \A n \in 1..m : dates[n] = a + n - 1
      BY <2>1, <3>1
    <3>3. InTurn(dates, named)
      BY <2>2, <3>1, <3>2 DEF InTurn
    <3> QED BY <3>3 DEF dates, named
  <2>4. CASE ~(a <= b)
    <3>1. 1..m = 1..0 /\ ~IsPeriod(named)
      BY <2>2, <2>4 DEF IsPeriod
    <3>2. dates = <<>>
      BY <2>1, <3>1
    <3>3. Len(dates) = 0 /\ DOMAIN dates = 1..0
      BY <3>2
    <3>4. InTurn(dates, named)
      BY <2>2, <3>1, <3>3 DEF InTurn
    <3> QED BY <3>4 DEF dates, named
  <2> QED BY <2>2, <2>3, <2>4
<1> QED BY <1>3, <1>4, <1>5, <1>6

\* Each day of the period is a date, and none twice.
LEMMA DatesAgreed ==
    ASSUME NEW period \in [type : {"yesterday", "7days", "30days", "custom"}, from : Nat, to : Nat],
           IsNamed(period)
    PROVE  DatesAgree(Today, period)
<1> DEFINE dates == DateRange(Today, period)
           named == NamedPeriod(Today, period)
           n == Len(dates)
<1>1. /\ named.start \in Int /\ named.end \in Int
      /\ n = IF IsPeriod(named) THEN NumberOfDays(named) ELSE 0
      /\ n \in Nat /\ DOMAIN dates = 1..n
      /\ \/ \A k \in 1..n : dates[k] = named.start + k - 1
         \/ \A k \in 1..n : dates[k] = named.end - k + 1
  BY DatesAre DEF InTurn
<1> HIDE DEF dates, named, n
<1> DEFINE a == named.start
           b == named.end
<1>2. n = IF a <= b THEN b - a + 1 ELSE 0
  BY <1>1 DEF IsPeriod, NumberOfDays
<1>3. a \in Int /\ b \in Int /\ Days(named) = a..b
  BY <1>1 DEF Days
<1>4. {dates[k] : k \in DOMAIN dates} = a..b
  <2> HIDE DEF a, b
  <2>1. CASE \A k \in 1..n : dates[k] = a + k - 1
    <3>1. \A k \in 1..n : dates[k] \in a..b
      BY <1>1, <1>2, <1>3, <2>1
    <3>2. ASSUME NEW d \in a..b PROVE d - a + 1 \in 1..n /\ dates[d - a + 1] = d
      <4>1. d - a + 1 \in 1..n /\ a + (d - a + 1) - 1 = d
        BY <1>1, <1>2, <1>3
      <4> QED BY <2>1, <4>1
    <3> QED BY <1>1, <3>1, <3>2
  <2>2. CASE \A k \in 1..n : dates[k] = b - k + 1
    <3>1. \A k \in 1..n : dates[k] \in a..b
      BY <1>1, <1>2, <1>3, <2>2
    <3>2. ASSUME NEW d \in a..b PROVE b - d + 1 \in 1..n /\ dates[b - d + 1] = d
      <4>1. b - d + 1 \in 1..n /\ b - (b - d + 1) + 1 = d
        BY <1>1, <1>2, <1>3
      <4> QED BY <2>2, <4>1
    <3> QED BY <1>1, <3>1, <3>2
  <2> QED BY <1>1, <2>1, <2>2 DEF a, b
<1> QED BY <1>1, <1>3, <1>4 DEF DatesAgree, dates, named, n

\* ... of any period that may be asked for
LEMMA AskedFit == AllDatesAgree
<1>1. \A j \in Jobs : j.period \in [type : {"yesterday", "7days", "30days", "custom"},
                                    from : Nat, to : Nat]
  BY FetchAssumption DEF Job
<1>2. [type : {"yesterday", "7days", "30days", "custom"}, from : Calendar, to : Calendar]
        \subseteq [type : {"yesterday", "7days", "30days", "custom"}, from : Nat, to : Nat]
  BY CalendarAssumption
<1> QED BY <1>1, <1>2, DatesAgreed DEF AllDatesAgree, AskedPeriods

\* Months and merges of all periods of the calendar
LEMMA PeriodsFit == PeriodsAgree
BY PeriodFacts, MonthsFit, MergesFit, CurrentMonthFits DEF PeriodsAgree

-----------------------------------------------------------------------------
(* Targets *)

\* Division, and products without their nonlinear arithmetic
LEMMA DivIs ==
    ASSUME NEW a \in Nat, NEW m \in Nat \ {0}
    PROVE  a \div m \in Nat /\ a % m \in 0..(m - 1) /\ a = m * (a \div m) + (a % m)
OBVIOUS

LEMMA MulUp ==
    ASSUME NEW m \in Nat \ {0}, NEW x \in Nat, NEW y \in Nat, x < y
    PROVE  m * x + m <= m * y
<1>1. y - x - 1 \in Nat
  OBVIOUS
<1>2. m * (y - x - 1) >= 0
  BY <1>1
<1>3. m * (y - x - 1) = m * y - m * x - m
  OBVIOUS
<1> QED BY <1>2, <1>3

LEMMA DivUnique ==
    ASSUME NEW m \in Nat \ {0}, NEW q \in Nat, NEW r \in 0..(m - 1)
    PROVE  (m * q + r) \div m = q /\ (m * q + r) % m = r
<1> DEFINE a == m * q + r
           d == a \div m
           e == a % m
<1>1. a \in Nat
  <2>1. m * q \in Nat
    OBVIOUS
  <2> QED BY <2>1
<1>2. d \in Nat /\ e \in 0..(m - 1) /\ a = m * d + e
  BY <1>1, DivIs
<1>3. m * d \in Nat /\ m * q \in Nat
  BY <1>2
<1> HIDE DEF d, e
<1>4. ~(d < q)
  <2> SUFFICES ASSUME d < q PROVE FALSE
    OBVIOUS
  <2>1. m * d + m <= m * q
    BY <1>2, MulUp
  <2> QED BY <2>1, <1>2, <1>3
<1>5. ~(q < d)
  <2> SUFFICES ASSUME q < d PROVE FALSE
    OBVIOUS
  <2>1. m * q + m <= m * d
    BY <1>2, MulUp
  <2> QED BY <2>1, <1>2, <1>3
<1>6. d = q
  BY <1>2, <1>4, <1>5
<1>7. e = r
  BY <1>2, <1>3, <1>6
<1> QED BY <1>6, <1>7 DEF d, e

\* A target for each date and, for each of them, each code
LEMMA TargetAt ==
    ASSUME NEW j \in Jobs
    PROVE  LET dates == DateRange(Today, j.period)
               codes == IF j.codes = <<>> THEN <<AllCodes>> ELSE j.codes
               m == Len(codes) IN
           /\ Len(dates) \in Nat /\ m \in Nat \ {0} /\ DOMAIN codes = 1..m
           /\ DOMAIN Targets[j] = 1..(Len(dates) * m) /\ Len(dates) * m \in Nat
           /\ \A h \in 0..(Len(dates) - 1), g \in 0..(m - 1) :
                /\ m * h + g + 1 \in DOMAIN Targets[j]
                /\ Targets[j][m * h + g + 1] = [date |-> dates[h + 1], code |-> codes[g + 1]]
           /\ \A i \in DOMAIN Targets[j] :
                \E h \in 0..(Len(dates) - 1), g \in 0..(m - 1) : i = m * h + g + 1
<1> DEFINE dates == DateRange(Today, j.period)
           codes == IF j.codes = <<>> THEN <<AllCodes>> ELSE j.codes
           m == Len(codes)
           D == Len(dates)
<1>1. j \in Job
  BY FetchAssumption
<1>2. D \in Nat
  BY <1>1, DatesFit DEF Job
<1>3. m \in Nat \ {0} /\ DOMAIN codes = 1..m
  <2>1. j.codes \in Seq(Nat)
    BY <1>1 DEF Job
  <2>2. CASE j.codes = <<>>
    <3>1. codes = <<AllCodes>>
      BY <2>2
    <3>2. Len(<<AllCodes>>) = 1 /\ DOMAIN <<AllCodes>> = 1..1
      OBVIOUS
    <3> HIDE DEF codes
    <3> QED BY <3>1, <3>2
  <2>3. CASE j.codes # <<>>
    <3>1. codes = j.codes
      BY <2>3
    <3> HIDE DEF codes
    <3> QED BY <2>1, <2>3, <3>1
  <2> QED BY <2>2, <2>3
<1>4. Targets[j] = [k \in 1..(D * m) |->
                      [date |-> dates[((k - 1) \div m) + 1], code |-> codes[((k - 1) % m) + 1]]]
  BY DEF Targets
<1> HIDE DEF dates, codes, m, D
<1>5. DOMAIN Targets[j] = 1..(D * m) /\ D * m \in Nat /\ D * m = m * D
  BY <1>2, <1>3, <1>4
<1>6. ASSUME NEW h \in 0..(D - 1), NEW g \in 0..(m - 1)
      PROVE  /\ m * h + g + 1 \in DOMAIN Targets[j]
             /\ Targets[j][m * h + g + 1] = [date |-> dates[h + 1], code |-> codes[g + 1]]
  <2>1. h \in Nat /\ g \in Nat /\ h < D /\ g < m
    BY <1>2, <1>3
  <2>2. m * h + m <= m * D /\ m * h \in Nat /\ m * D \in Nat
    BY <1>2, <1>3, <2>1, MulUp
  <2> DEFINE i == m * h + g + 1
             x == m * h
  <2>3. i \in 1..(D * m) /\ i - 1 = m * h + g
    <3>1. x + m <= D * m /\ x \in Nat /\ D * m \in Nat
      BY <1>5, <2>2
    <3> HIDE DEF x
    <3>2. x + g + 1 \in 1..(D * m) /\ (x + g + 1) - 1 = x + g
      BY <1>3, <2>1, <3>1
    <3> QED BY <3>2 DEF x
  <2>4. (i - 1) \div m = h /\ (i - 1) % m = g
    BY <1>3, <2>1, <2>3, DivUnique
  <2> HIDE DEF i
  <2>5. Targets[j][i] = [date |-> dates[h + 1], code |-> codes[g + 1]]
    BY <1>4, <2>3, <2>4
  <2> QED BY <1>5, <2>3, <2>5 DEF i
<1>7. ASSUME NEW i \in DOMAIN Targets[j]
      PROVE  \E h \in 0..(D - 1), g \in 0..(m - 1) : i = m * h + g + 1
  <2> DEFINE h == (i - 1) \div m
             g == (i - 1) % m
  <2>1. i - 1 \in Nat /\ i - 1 < m * D
    BY <1>2, <1>3, <1>5
  <2>2. h \in Nat /\ g \in 0..(m - 1) /\ i - 1 = m * h + g
    BY <1>3, <2>1, DivIs
  <2> HIDE DEF h, g
  <2>3. h < D
    <3> SUFFICES ASSUME D <= h PROVE FALSE
      BY <1>2, <2>2
    <3>1. m * D <= m * h /\ m * D \in Nat /\ m * h \in Nat
      <4>1. CASE D = h
        BY <1>2, <1>3, <4>1
      <4>2. CASE D < h
        <5>1. m * D + m <= m * h
          BY <1>2, <1>3, <2>2, <4>2, MulUp
        <5>2. m * D \in Nat /\ m * h \in Nat
          BY <1>2, <1>3, <2>2
        <5> QED BY <1>3, <5>1, <5>2
      <4> QED BY <1>2, <2>2, <4>1, <4>2
    <3> QED BY <1>3, <2>1, <2>2, <3>1
  <2>4. h \in 0..(D - 1) /\ i = m * h + g + 1
    <3>1. m * h \in Nat /\ i \in Nat
      BY <1>3, <1>5, <2>2
    <3> QED BY <1>2, <1>3, <2>1, <2>2, <2>3, <3>1
  <2> QED BY <2>2, <2>4
<1> QED BY <1>2, <1>3, <1>5, <1>6, <1>7 DEF D, m, dates, codes

\* Every code on every day
LEMMA TargetsFitAll == AllTargetsAgree
<1> SUFFICES ASSUME NEW j \in Jobs, IsNamed(j.period)
             PROVE  ToSet(Targets[j]) =
                      [date : Days(NamedPeriod(Today, j.period)),
                       code : IF j.codes = <<>> THEN {AllCodes} ELSE ToSet(j.codes)]
  BY DEF AllTargetsAgree
<1> DEFINE dates == DateRange(Today, j.period)
           named == NamedPeriod(Today, j.period)
           codes == IF j.codes = <<>> THEN <<AllCodes>> ELSE j.codes
           m == Len(codes)
           D == Len(dates)
           all == Targets[j]
           C == {codes[g] : g \in DOMAIN codes}
<1>1. j.period \in [type : {"yesterday", "7days", "30days", "custom"}, from : Nat, to : Nat]
  BY FetchAssumption DEF Job
<1>2. D \in Nat /\ DOMAIN dates = 1..D
  BY <1>1, DatesAre DEF InTurn
<1>3. {dates[n] : n \in DOMAIN dates} = Days(named)
  BY <1>1, DatesAgreed DEF DatesAgree
<1>4. (IF j.codes = <<>> THEN {AllCodes} ELSE ToSet(j.codes)) = C
  <2>1. CASE j.codes = <<>>
    <3>1. C = {<<AllCodes>>[g] : g \in DOMAIN <<AllCodes>>}
      BY <2>1
    <3>2. DOMAIN <<AllCodes>> = {1} /\ <<AllCodes>>[1] = AllCodes
      OBVIOUS
    <3> HIDE DEF C
    <3> QED BY <2>1, <3>1, <3>2
  <2>2. CASE j.codes # <<>>
    BY <2>2 DEF ToSet
  <2> QED BY <2>1, <2>2
<1>5. /\ m \in Nat \ {0} /\ DOMAIN codes = 1..m
      /\ \A h \in 0..(D - 1), g \in 0..(m - 1) :
           /\ m * h + g + 1 \in DOMAIN all
           /\ all[m * h + g + 1] = [date |-> dates[h + 1], code |-> codes[g + 1]]
      /\ \A i \in DOMAIN all :
           \E h \in 0..(D - 1), g \in 0..(m - 1) : i = m * h + g + 1
  BY TargetAt
<1> HIDE DEF dates, named, codes, m, D, all
<1>6. ASSUME NEW i \in DOMAIN all PROVE all[i] \in [date : Days(named), code : C]
  <2>1. PICK h \in 0..(D - 1), g \in 0..(m - 1) : i = m * h + g + 1
    BY <1>5
  <2>2. all[i] = [date |-> dates[h + 1], code |-> codes[g + 1]]
    BY <1>5, <2>1
  <2>3. h + 1 \in DOMAIN dates /\ g + 1 \in DOMAIN codes
    BY <1>2, <1>5
  <2>4. dates[h + 1] \in Days(named) /\ codes[g + 1] \in C
    BY <1>3, <2>3
  <2> HIDE DEF C
  <2> QED BY <2>2, <2>4
<1>7. ASSUME NEW t \in [date : Days(named), code : C] PROVE \E i \in DOMAIN all : all[i] = t
  <2>1. PICK h \in 1..D : t.date = dates[h]
    BY <1>2, <1>3
  <2>2. PICK g \in 1..m : t.code = codes[g]
    BY <1>5
  <2>3. h - 1 \in 0..(D - 1) /\ g - 1 \in 0..(m - 1) /\ (h - 1) + 1 = h /\ (g - 1) + 1 = g
    BY <1>2, <1>5
  <2> DEFINE i == m * (h - 1) + (g - 1) + 1
  <2>4. i \in DOMAIN all /\ all[i] = [date |-> dates[(h - 1) + 1], code |-> codes[(g - 1) + 1]]
    BY <1>5, <2>3
  <2> HIDE DEF i, C
  <2>5. t = [date |-> t.date, code |-> t.code]
    OBVIOUS
  <2> QED BY <2>1, <2>2, <2>3, <2>4, <2>5
<1>8. ToSet(all) = [date : Days(named), code : C]
  <2> HIDE DEF C
  <2> QED BY <1>6, <1>7 DEF ToSet
<1> QED BY <1>4, <1>8 DEF all, named

-----------------------------------------------------------------------------
(* What is left *)

\* The end of a sequence
IsRest(rest, all) ==
    \E k \in 0..Len(all) : /\ Len(rest) = Len(all) - k /\ DOMAIN rest = 1..Len(rest)
                           /\ \A n \in 1..Len(rest) : rest[n] = all[n + k]

\* All of a sequence is an end of it ...
LEMMA AllIsRest ==
    ASSUME NEW S, NEW all \in Seq(S)
    PROVE  IsRest(all, all)
<1>1. 0 \in 0..Len(all) /\ Len(all) = Len(all) - 0 /\ DOMAIN all = 1..Len(all)
      /\ \A n \in 1..Len(all) : all[n] = all[n + 0]
  OBVIOUS
<1> QED BY <1>1 DEF IsRest

\* ... and so is what is behind the first of an end.
LEMMA TailIsRest ==
    ASSUME NEW S, NEW all \in Seq(S), NEW rest \in Seq(S), rest # <<>>, IsRest(rest, all)
    PROVE  IsRest(Tail(rest), all)
<1>1. PICK k \in 0..Len(all) : /\ Len(rest) = Len(all) - k
                               /\ \A n \in 1..Len(rest) : rest[n] = all[n + k]
  BY DEF IsRest
<1>2. /\ Len(rest) \in Nat \ {0} /\ Len(all) \in Nat
      /\ Len(Tail(rest)) = Len(rest) - 1 /\ DOMAIN Tail(rest) = 1..(Len(rest) - 1)
      /\ \A n \in 1..(Len(rest) - 1) : Tail(rest)[n] = rest[n + 1]
  OBVIOUS
<1> DEFINE l == k + 1
           t == Tail(rest)
<1>3. l \in 0..Len(all) /\ Len(t) = Len(all) - l /\ DOMAIN t = 1..Len(t)
  BY <1>1, <1>2
<1>4. ASSUME NEW n \in 1..Len(t) PROVE t[n] = all[n + l]
  <2>1. n + 1 \in 1..Len(rest) /\ (n + 1) + k = n + l /\ t[n] = rest[n + 1]
    BY <1>2
  <2> QED BY <1>1, <2>1
<1> HIDE DEF l, t
<1>5. IsRest(t, all)
  BY <1>3, <1>4 DEF IsRest
<1> QED BY <1>5 DEF t

\* The targets 1..total, of which n has the date day[n]: at[h] of them come before
\* the m of the date number h + 1.
Spread(at, m, total, day, dates) ==
    /\ Len(dates) \in Nat /\ m \in Nat \ {0} /\ total \in Nat /\ at \in [Nat -> Nat]
    /\ \A g, h \in Nat : g < h => at[g] + m <= at[h]
    /\ \A h \in 0..(Len(dates) - 1), g \in 0..(m - 1) :
         at[h] + g + 1 \in 1..total /\ day[at[h] + g + 1] = dates[h + 1]
    /\ \A i \in 1..total :
         \E h \in 0..(Len(dates) - 1), g \in 0..(m - 1) : i = at[h] + g + 1

\* The dates from number x + 1 on
LastOf(left, dates, x) ==
    /\ x \in 0..(Len(dates) - 1)
    /\ left = {dates[h + 1] : h \in x..(Len(dates) - 1)}

DaysFrom(day, k, total) == {day[i] : i \in (k + 1)..total}

\* What is left of the targets has the last dates.
LEMMA EndOfTargets ==
    ASSUME NEW at, NEW m, NEW total, NEW day, NEW dates, Spread(at, m, total, day, dates),
           NEW k \in 0..(total - 1)
    PROVE  \E x : LastOf(DaysFrom(day, k, total), dates, x)
<1> DEFINE D == Len(dates)
<1>0. /\ D \in Nat /\ m \in Nat \ {0} /\ total \in Nat /\ at \in [Nat -> Nat]
      /\ \A g, h \in Nat : g < h => at[g] + m <= at[h]
      /\ \A h \in 0..(D - 1), g \in 0..(m - 1) :
           at[h] + g + 1 \in 1..total /\ day[at[h] + g + 1] = dates[h + 1]
      /\ \A i \in 1..total : \E h \in 0..(D - 1), g \in 0..(m - 1) : i = at[h] + g + 1
  BY Zenon DEF Spread
<1> HIDE DEF D
<1>1. k \in Nat /\ k + 1 \in 1..total
  BY <1>0
<1>2. PICK x \in 0..(D - 1), y \in 0..(m - 1) : k + 1 = at[x] + y + 1
  BY <1>0, <1>1
<1>3. x \in Nat /\ y \in Nat /\ y < m /\ x <= D - 1 /\ at[x] \in Nat
  BY <1>0
<1>4. k = at[x] + y
  <2> DEFINE ax == at[x]
  <2>1. ax \in Nat /\ k + 1 = ax + y + 1
    BY <1>2, <1>3
  <2> HIDE DEF ax
  <2>2. k = ax + y
    BY <1>1, <1>3, <2>1
  <2> QED BY <2>2 DEF ax
<1>5. ASSUME NEW i \in (k + 1)..total
      PROVE  \E h \in x..(D - 1) : day[i] = dates[h + 1]
  <2>1. i \in 1..total /\ i \in Nat /\ k < i
    BY <1>0, <1>1
  <2>2. PICK h \in 0..(D - 1), g \in 0..(m - 1) : i = at[h] + g + 1
    BY <1>0, <2>1
  <2>3. h \in Nat /\ g \in Nat /\ g < m /\ h <= D - 1 /\ at[h] \in Nat
    BY <1>0
  <2>4. h < x => at[h] + m <= at[x]
    BY <1>0, <1>3, <2>3
  <2>5. x <= h
    BY <1>0, <1>3, <1>4, <2>1, <2>2, <2>3, <2>4
  <2>6. day[i] = dates[h + 1]
    BY <1>0, <2>2
  <2> QED BY <1>0, <1>3, <2>3, <2>5, <2>6
<1>6. ASSUME NEW h \in x..(D - 1)
      PROVE  \E i \in (k + 1)..total : day[i] = dates[h + 1]
  <2>1. h \in Nat /\ h \in 0..(D - 1) /\ at[h] \in Nat
    BY <1>0, <1>3
  <2>2. CASE h = x
    <3>1. day[k + 1] = dates[h + 1]
      BY <1>0, <1>2, <2>2
    <3>2. k + 1 \in (k + 1)..total
      BY <1>0, <1>1
    <3> QED BY <3>1, <3>2
  <2>3. CASE h # x
    <3>1. at[x] + m <= at[h]
      BY <1>0, <1>3, <2>1, <2>3
    <3>2. 0 \in 0..(m - 1)
      BY <1>0
    <3>3. at[h] + 0 + 1 \in 1..total /\ day[at[h] + 0 + 1] = dates[h + 1]
      BY <1>0, <2>1, <3>2
    <3>4. at[h] + 0 + 1 = at[h] + 1 /\ at[h] + 1 >= k + 1
      BY <1>0, <1>3, <1>4, <2>1, <3>1
    <3>5. at[h] + 1 \in (k + 1)..total
      BY <1>0, <1>1, <2>1, <3>3, <3>4
    <3> QED BY <3>3, <3>4, <3>5
  <2> QED BY <2>2, <2>3
<1> DEFINE Ending == {dates[h + 1] : h \in x..(D - 1)}
<1>7. {day[i] : i \in (k + 1)..total} \subseteq Ending
  <2>1. ASSUME NEW i \in (k + 1)..total PROVE day[i] \in Ending
    <3>1. PICK h \in x..(D - 1) : day[i] = dates[h + 1]
      BY <1>5
    <3> QED BY <3>1
  <2> HIDE DEF Ending
  <2> QED BY <2>1
<1>8. Ending \subseteq {day[i] : i \in (k + 1)..total}
  <2>1. ASSUME NEW h \in x..(D - 1)
        PROVE  dates[h + 1] \in {day[i] : i \in (k + 1)..total}
    BY <1>6
  <2> QED BY <2>1
<1>9. {day[i] : i \in (k + 1)..total} = Ending
  BY <1>7, <1>8
<1> QED BY <1>9 DEF LastOf, DaysFrom, D

\* The last dates of a period have no gap.
LEMMA LastDates ==
    ASSUME NEW dates, NEW p, InTurn(dates, p), NEW left, NEW x, LastOf(left, dates, x)
    PROVE  HasNoGap(left)
<1> DEFINE a == p.start
           b == p.end
           last == Len(dates) - 1
<1>1. a \in Int /\ b \in Int /\ x \in Nat /\ last \in Nat /\ x <= last
  BY DEF InTurn, LastOf
<1>2. \/ \A h \in x..last : dates[h + 1] = a + h
      \/ \A h \in x..last : dates[h + 1] = b - h
  <2>1. \A h \in x..last :
          h + 1 \in 1..Len(dates) /\ a + (h + 1) - 1 = a + h /\ b - (h + 1) + 1 = b - h
    BY <1>1
  <2>2. \/ \A n \in 1..Len(dates) : dates[n] = a + n - 1
        \/ \A n \in 1..Len(dates) : dates[n] = b - n + 1
    BY DEF InTurn
  <2> QED BY <2>1, <2>2
<1>3. x \in x..last /\ last \in x..last
  BY <1>1
<1>4. left = {dates[h + 1] : h \in x..last}
  BY DEF LastOf
<1> HIDE DEF a, b, last
<1>5. CASE \A h \in x..last : dates[h + 1] = a + h
  <2>1. left = {a + h : h \in x..last}
    BY <1>4, <1>5
  <2>2. {a + h : h \in x..last} = (a + x)..(a + last)
    <3>1. \A h \in x..last : a + h \in (a + x)..(a + last)
      BY <1>1
    <3>2. \A d \in (a + x)..(a + last) : d - a \in x..last /\ a + (d - a) = d
      BY <1>1
    <3> QED BY <3>1, <3>2
  <2>3. a + x \in left /\ a + last \in left
    BY <1>3, <2>1
  <2> QED BY <2>1, <2>2, <2>3 DEF HasNoGap
<1>6. CASE \A h \in x..last : dates[h + 1] = b - h
  <2>1. left = {b - h : h \in x..last}
    BY <1>4, <1>6
  <2>2. {b - h : h \in x..last} = (b - last)..(b - x)
    <3>1. \A h \in x..last : b - h \in (b - last)..(b - x)
      BY <1>1
    <3>2. \A d \in (b - last)..(b - x) : b - d \in x..last /\ b - (b - d) = d
      BY <1>1
    <3> QED BY <3>1, <3>2
  <2>3. b - last \in left /\ b - x \in left
    BY <1>3, <2>1
  <2> QED BY <2>1, <2>2, <2>3 DEF HasNoGap
<1> QED BY <1>2, <1>5, <1>6

\* The days of the end of a job's targets have no gap.
LEMMA RestInTurn ==
    ASSUME NEW j \in Jobs, IsNamed(j.period), NEW rest, IsRest(rest, Targets[j])
    PROVE  /\ DatesOf(rest) \subseteq Days(NamedPeriod(Today, j.period))
           /\ HasNoGap(DatesOf(rest))
<1> DEFINE dates == DateRange(Today, j.period)
           named == NamedPeriod(Today, j.period)
           codes == IF j.codes = <<>> THEN <<AllCodes>> ELSE j.codes
           m == Len(codes)
           D == Len(dates)
           all == Targets[j]
           left == DatesOf(rest)
           total == D * m
           at == [h \in Nat |-> m * h]
           day == [i \in 1..total |-> all[i].date]
<1>1. j.period \in [type : {"yesterday", "7days", "30days", "custom"}, from : Nat, to : Nat]
  BY FetchAssumption DEF Job
<1>2. D \in Nat /\ DOMAIN dates = 1..D /\ InTurn(dates, named)
  BY <1>1, DatesAre DEF InTurn
<1>3. {dates[n] : n \in DOMAIN dates} = Days(named)
  BY <1>1, DatesAgreed DEF DatesAgree
<1>4. /\ m \in Nat \ {0} /\ DOMAIN all = 1..total /\ total \in Nat
      /\ \A h \in 0..(D - 1), g \in 0..(m - 1) :
           /\ m * h + g + 1 \in DOMAIN all
           /\ all[m * h + g + 1] = [date |-> dates[h + 1], code |-> codes[g + 1]]
      /\ \A i \in DOMAIN all :
           \E h \in 0..(D - 1), g \in 0..(m - 1) : i = m * h + g + 1
  BY TargetAt
<1> HIDE DEF dates, named, codes, m, D, all, total
<1>5. Len(all) = total
  <2>1. all \in Seq(AllTargets)
    BY TargetsFit DEF all
  <2>2. DOMAIN all = 1..Len(all) /\ Len(all) \in Nat
    BY <2>1
  <2> QED BY <1>4, <2>2
<1>6. PICK k \in 0..total : /\ Len(rest) = total - k /\ DOMAIN rest = 1..Len(rest)
                            /\ \A n \in 1..Len(rest) : rest[n] = all[n + k]
  BY <1>5 DEF IsRest, all
<1>7. left = DaysFrom(day, k, total)
  <2>1. ASSUME NEW n \in DOMAIN rest PROVE n + k \in (k + 1)..total /\ rest[n].date = day[n + k]
    <3>1. n + k \in (k + 1)..total /\ n + k \in 1..total
      BY <1>4, <1>6
    <3> QED BY <1>6, <3>1
  <2>2. ASSUME NEW i \in (k + 1)..total
        PROVE  i - k \in DOMAIN rest /\ rest[i - k].date = day[i]
    <3>1. i - k \in 1..Len(rest) /\ (i - k) + k = i /\ i \in 1..total
      BY <1>4, <1>6
    <3> QED BY <1>6, <3>1
  <2> HIDE DEF day
  <2> QED BY <2>1, <2>2 DEF DatesOf, DaysFrom
<1> HIDE DEF left
<1>8. CASE k = total
  <2>1. (k + 1)..total = {}
    BY <1>4, <1>8
  <2>2. left = {}
    BY <1>7, <2>1 DEF DaysFrom
  <2> QED BY <2>2 DEF HasNoGap, left
<1>9. CASE k # total
  <2>1. \A h \in 0..(D - 1), g \in 0..(m - 1) :
          at[h] + g + 1 \in 1..total /\ day[at[h] + g + 1] = dates[h + 1]
    <3>1. ASSUME NEW h \in 0..(D - 1), NEW g \in 0..(m - 1)
          PROVE  at[h] + g + 1 \in 1..total /\ day[at[h] + g + 1] = dates[h + 1]
      <4>1. at[h] = m * h
        BY <1>2
      <4> HIDE DEF at
      <4>2. /\ at[h] + g + 1 \in DOMAIN all
            /\ all[at[h] + g + 1] = [date |-> dates[h + 1], code |-> codes[g + 1]]
        BY <1>4, <4>1, Zenon
      <4>3. at[h] + g + 1 \in 1..total
        BY <1>4, <4>2, Zenon
      <4>4. day[at[h] + g + 1] = all[at[h] + g + 1].date
        <5> DEFINE i == at[h] + g + 1
        <5>1. i \in 1..total
          BY <4>3
        <5> HIDE DEF i
        <5>2. day[i] = all[i].date
          BY <5>1
        <5> QED BY <5>2 DEF i
      <4> HIDE DEF day
      <4> QED BY <4>2, <4>3, <4>4
    <3> QED BY <3>1
  <2>2. \A i \in 1..total : \E h \in 0..(D - 1), g \in 0..(m - 1) : i = at[h] + g + 1
    <3>1. \A h \in 0..(D - 1) : at[h] = m * h
      BY <1>2
    <3> HIDE DEF at, day
    <3>2. ASSUME NEW i \in 1..total
          PROVE  \E h \in 0..(D - 1), g \in 0..(m - 1) : i = at[h] + g + 1
      <4>1. i \in DOMAIN all
        BY <1>4, Zenon
      <4>2. PICK h \in 0..(D - 1), g \in 0..(m - 1) : i = m * h + g + 1
        BY <1>4, <4>1, Zenon
      <4>3. i = at[h] + g + 1
        BY <3>1, <4>2, Zenon
      <4> QED BY <4>3
    <3> QED BY <3>2
  <2>3. at \in [Nat -> Nat] /\ \A g, h \in Nat : g < h => at[g] + m <= at[h]
    BY <1>4, MulUp
  <2>4. k \in 0..(total - 1)
    BY <1>4, <1>9
  <2> HIDE DEF at, day
  <2>5. Spread(at, m, total, day, dates)
    <3>1. /\ Len(dates) \in Nat /\ m \in Nat \ {0} /\ total \in Nat /\ at \in [Nat -> Nat]
          /\ \A g, h \in Nat : g < h => at[g] + m <= at[h]
      BY <1>2, <1>4, <2>3, Zenon DEF D
    <3> QED BY <2>1, <2>2, <3>1, Zenon DEF Spread, D
  <2>6. PICK x : LastOf(left, dates, x)
    BY <1>7, <2>4, <2>5, EndOfTargets, Zenon
  <2>7. HasNoGap(left)
    BY <1>2, <2>6, LastDates, Zenon
  <2>8. left \subseteq Days(named)
    <3>1. left = {dates[h + 1] : h \in x..(D - 1)} /\ x \in 0..(D - 1)
      BY <2>6 DEF LastOf, D
    <3>2. \A h \in x..(D - 1) : h + 1 \in DOMAIN dates
      BY <1>2, <3>1
    <3>3. \A h \in x..(D - 1) : dates[h + 1] \in Days(named)
      BY <1>3, <3>2
    <3> QED BY <3>1, <3>3
  <2> QED BY <2>7, <2>8, Zenon DEF named, left
<1> QED BY <1>8, <1>9

-----------------------------------------------------------------------------
\* What a fetch has left of its job is an end of the targets.
TurnInv ==
    \A p \in Procs : fetch[p].job \in Jobs => IsRest(fetch[p].left, Targets[fetch[p].job])

\* What is next for a fetch leaves its job, and a target is either left or done.
NextOf(f, g) == g.job = f.job /\ (g.left = f.left \/ (f.left # <<>> /\ g.left = Tail(f.left)))

\* A request is for the same target or for the one after it.
LEMMA SameLeft ==
    ASSUME NEW f, {"job", "left"} \subseteq DOMAIN f, f.left # <<>>, NEW got
    PROVE  /\ NextOf(f, NextTarget(f))
           /\ NextOf(f, NextTarget([f EXCEPT !.failed = TRUE]))
           /\ \A k, aborted : NextOf(f, NextTarget(Interrupted(f, got, k, aborted)))
           /\ NextOf(f, NextTarget(Executed(f, got)))
           /\ NextOf(f, [f EXCEPT !.attempt = @ + 1])
           /\ NextOf(f, [f EXCEPT !.page = @ + 1, !.attempt = 1, !.got = got])
<1>1. ASSUME NEW g, {"job", "left"} \subseteq DOMAIN g, g.job = f.job, g.left = f.left
      PROVE  NextOf(f, NextTarget(g))
  <2>1. NextTarget(g).job = g.job /\ NextTarget(g).left = Tail(g.left)
    BY <1>1 DEF NextTarget
  <2> HIDE DEF NextTarget
  <2> QED BY <1>1, <2>1 DEF NextOf
<1>2. NextOf(f, NextTarget(f))
  BY <1>1
<1>3. NextOf(f, NextTarget([f EXCEPT !.failed = TRUE]))
  <2> DEFINE g == [f EXCEPT !.failed = TRUE]
  <2>1. {"job", "left"} \subseteq DOMAIN g /\ g.job = f.job /\ g.left = f.left
    OBVIOUS
  <2> HIDE DEF g
  <2>2. NextOf(f, NextTarget(g))
    BY <1>1, <2>1
  <2> QED BY <2>2 DEF g
<1>4. ASSUME NEW k, NEW aborted PROVE NextOf(f, NextTarget(Interrupted(f, got, k, aborted)))
  <2> DEFINE g == Interrupted(f, got, k, aborted)
  <2>1. {"job", "left"} \subseteq DOMAIN g /\ g.job = f.job /\ g.left = f.left
    BY DEF Interrupted
  <2> HIDE DEF g
  <2>2. NextOf(f, NextTarget(g))
    BY <1>1, <2>1
  <2> QED BY <2>2 DEF g
<1>5. NextOf(f, NextTarget(Executed(f, got)))
  <2>1. /\ {"job", "left"} \subseteq DOMAIN Executed(f, got)
        /\ Executed(f, got).job = f.job /\ Executed(f, got).left = f.left
    BY DEF Executed
  <2> QED BY <1>1, <2>1
<1>6. NextOf(f, [f EXCEPT !.attempt = @ + 1])
  BY DEF NextOf
<1>7. NextOf(f, [f EXCEPT !.page = @ + 1, !.attempt = 1, !.got = got])
  BY DEF NextOf
<1> QED BY <1>2, <1>3, <1>4, <1>5, <1>6, <1>7

\* A step of the work leaves an end of the targets.
LEMMA WorkTurns ==
    ASSUME Inv, WorkInv, TurnInv, NEW p \in Procs, NEW f, NextOf(fetch[p], f), Work(p, f)
    PROVE  TurnInv'
<1>1. fetch' = [fetch EXCEPT ![p] = f] /\ fetch = [q \in Procs |-> fetch[q]]
  BY DEF Work, Inv, FetchInv
<1>2. ASSUME NEW q \in Procs, fetch'[q].job \in Jobs
      PROVE  IsRest(fetch'[q].left, Targets[fetch'[q].job])
  <2>1. CASE q # p
    <3>1. fetch'[q] = fetch[q]
      BY <1>1, <2>1
    <3> QED BY <1>2, <3>1 DEF TurnInv
  <2>2. CASE q = p
    <3>1. fetch'[q] = f
      BY <1>1, <2>2
    <3> DEFINE job == fetch[p].job
               left == fetch[p].left
    <3>2. f.job = job /\ job \in Jobs /\ (f.left = left \/ (left # <<>> /\ f.left = Tail(left)))
      BY <1>2, <3>1 DEF NextOf
    <3>3. IsRest(left, Targets[job])
      BY <3>2 DEF TurnInv
    <3>4. Targets[job] \in Seq(AllTargets) /\ left \in Seq(AllTargets)
      BY <3>2, TargetsFit DEF WorkInv, FetchFits, Fetches
    <3> HIDE DEF job, left
    <3>5. IsRest(f.left, Targets[job])
      BY <3>2, <3>3, <3>4, TailIsRest
    <3> QED BY <3>1, <3>2, <3>5
  <2> QED BY <2>1, <2>2
<1> QED BY <1>2 DEF TurnInv

\* The requests of a fetch
LEMMA AskingTurns ==
    ASSUME Inv, WorkInv, TurnInv, NEW p \in Procs,
           GetPage(p) \/ Retry(p) \/ FailsAtOnce(p) \/ StorageFails(p)
    PROVE  TurnInv'
<1> DEFINE f == fetch[p]
           pages == Pages[Head(f.left)]
           got == f.got \o pages[f.page]
<1>1. Asking(p)
  BY DEF GetPage, Retry, FailsAtOnce, StorageFails
<1>2. {"job", "left"} \subseteq DOMAIN f /\ f.left # <<>>
  BY <1>1 DEF WorkInv, FetchFits, Fetches, Asking
<1>3. /\ NextOf(f, NextTarget(f))
      /\ NextOf(f, NextTarget([f EXCEPT !.failed = TRUE]))
      /\ \A k, aborted : NextOf(f, NextTarget(Interrupted(f, got, k, aborted)))
      /\ NextOf(f, NextTarget(Executed(f, got)))
      /\ NextOf(f, [f EXCEPT !.attempt = @ + 1])
      /\ NextOf(f, [f EXCEPT !.page = @ + 1, !.attempt = 1, !.got = got])
  <2> HIDE DEF f, got
  <2> QED BY <1>2, SameLeft
<1>4. CASE GetPage(p)
  <2>1. \/ Work(p, [f EXCEPT !.page = @ + 1, !.attempt = 1, !.got = got])
        \/ Work(p, NextTarget(Executed(f, got)))
    BY <1>4, Zenon DEF GetPage
  <2> QED BY <1>3, <2>1, WorkTurns, Zenon
<1>5. CASE Retry(p)
  <2>1. \/ Work(p, [f EXCEPT !.attempt = @ + 1])
        \/ Work(p, NextTarget([f EXCEPT !.failed = TRUE]))
    BY <1>5, Zenon DEF Retry
  <2> QED BY <1>3, <2>1, WorkTurns, Zenon
<1>6. CASE FailsAtOnce(p)
  <2>1. Work(p, NextTarget([f EXCEPT !.failed = TRUE]))
    BY <1>6, Zenon DEF FailsAtOnce
  <2> QED BY <1>3, <2>1, WorkTurns, Zenon
<1>7. CASE StorageFails(p)
  <2>1. \E k \in BatchStarts(got), aborted \in BOOLEAN :
           Work(p, NextTarget(Interrupted(f, got, k, aborted)))
    BY <1>7, Zenon DEF StorageFails
  <2>3. PICK k, aborted : Work(p, NextTarget(Interrupted(f, got, k, aborted)))
    BY <2>1, Zenon
  <2>2. NextOf(f, NextTarget(Interrupted(f, got, k, aborted)))
    BY <1>3
  <2> QED BY <2>2, <2>3, WorkTurns, Zenon
<1> QED BY <1>4, <1>5, <1>6, <1>7

\* A fetch that begins has all the targets left.
LEMMA ReceiveTurns ==
    ASSUME Inv, TurnInv, NEW p \in Procs, Receive(p)
    PROVE  TurnInv'
<1>1. PICK job \in Jobs :
        fetch' = [fetch EXCEPT ![p] = [NoFetch EXCEPT !.job = job, !.since = now,
                                                      !.left = Targets[job]]]
  BY DEF Receive
<1> DEFINE f == [NoFetch EXCEPT !.job = job, !.since = now, !.left = Targets[job]]
<1>2. f.job = job /\ f.left = Targets[job]
  BY DEF NoFetch
<1>3. Targets[job] \in Seq(AllTargets)
  BY TargetsFit
<1>4. IsRest(Targets[job], Targets[job])
  BY <1>3, AllIsRest
<1> HIDE DEF f
<1>5. ASSUME NEW q \in Procs, fetch'[q].job \in Jobs
      PROVE  IsRest(fetch'[q].left, Targets[fetch'[q].job])
  <2>1. fetch'[q] = IF q = p THEN f ELSE fetch[q]
    BY <1>1 DEF Inv, FetchInv, f
  <2>2. CASE q = p
    BY <1>2, <1>4, <2>1, <2>2
  <2>3. CASE q # p
    BY <1>5, <2>1, <2>3 DEF TurnInv
  <2> QED BY <2>2, <2>3
<1> QED BY <1>5 DEF TurnInv

\* A fetch that is over has no job.
LEMMA OverTurns ==
    ASSUME Inv, TurnInv, NEW p \in Procs, Over(p)
    PROVE  TurnInv'
<1>1. NoFetch.job \notin Jobs
  BY BoundFacts
<1>2. ASSUME NEW q \in Procs, fetch'[q].job \in Jobs
      PROVE  IsRest(fetch'[q].left, Targets[fetch'[q].job])
  <2>1. fetch'[q] = IF q = p THEN NoFetch ELSE fetch[q]
    BY DEF Over, Inv, FetchInv
  <2> QED BY <1>1, <1>2, <2>1 DEF TurnInv
<1> QED BY <1>2 DEF TurnInv

\* A fetch works through its targets in turn: at first there is none ...
LEMMA TurnInit == Init => TurnInv
<1>1. NoFetch.job \notin Jobs
  BY BoundFacts
<1> QED BY <1>1 DEF Init, TurnInv

\* ... and every step keeps to the turn.
LEMMA TurnNext == Inv /\ WorkInv /\ TurnInv /\ [Next]_vars => TurnInv'
<1> SUFFICES ASSUME Inv, WorkInv, TurnInv, [Next]_vars PROVE TurnInv'
  OBVIOUS
<1>1. ASSUME fetch' = fetch PROVE TurnInv'
  BY <1>1 DEF TurnInv
<1>2. CASE TimePasses \/ UNCHANGED vars
  <2>1. fetch' = fetch
    BY <1>2 DEF TimePasses, fetchVars, vars
  <2> QED BY <1>1, <2>1
<1>3. ASSUME NEW p \in Procs, Visit(p) \/ Receive(p) \/ OwnStep(p) \/ Killed(p)
      PROVE  TurnInv'
  <2>1. CASE Visit(p) \/ Authenticates(p)
    <3>1. fetch' = fetch
      BY <2>1 DEF Visit, Authenticates
    <3> QED BY <1>1, <3>1
  <2>2. CASE Ends(p) \/ GivesUp(p) \/ Killed(p)
    <3>1. Over(p)
      BY <2>2 DEF Ends, EndsWith, GivesUp, Killed
    <3> QED BY <3>1, OverTurns
  <2> QED BY <1>3, <2>1, <2>2, ReceiveTurns, AskingTurns DEF OwnStep
<1> QED BY <1>2, <1>3 DEF Next

\* The days a fetch works through are those of the period its job names, none left
\* out and without a gap, and months, merges and last days are the same sets of
\* days, for any calendar, periods and codes (_calculate_date_range, TimePeriod).
THEOREM RangesAlwaysAgree == Spec => []RangesAgree
<1>1. ASSUME WorkInv, TurnInv PROVE RangesAgree
  <2>1. ASSUME NEW p \in Procs, fetch[p] # NoFetch, IsNamed(fetch[p].job.period)
        PROVE  /\ DatesOf(fetch[p].left) \subseteq Days(NamedPeriod(Today, fetch[p].job.period))
               /\ HasNoGap(DatesOf(fetch[p].left))
    <3>1. fetch[p].job \in Jobs
      BY <1>1, <2>1 DEF WorkInv, FetchFits
    <3>2. IsRest(fetch[p].left, Targets[fetch[p].job])
      BY <1>1, <3>1 DEF TurnInv
    <3> QED BY <2>1, <3>1, <3>2, RestInTurn
  <2> QED BY <2>1, PeriodsFit, AskedFit, TargetsFitAll DEF RangesAgree
<1> QED BY <1>1, Invariants, TurnInit, TurnNext, PTL DEF Spec
=============================================================================
