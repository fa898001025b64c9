---------------------------- MODULE OAuthRefresh ----------------------------
(***************************************************************************)
(* The refresh of one account's OAuth token: OAuthRefreshAPI               *)
(* (oauth_refresh_api.go) with its lock in Redis (gemini_token_cache.go),  *)
(* as the background refresher (token_refresh_service.go) and the requests *)
(* (claude_token_provider.go) use it, the cache of access tokens, and an   *)
(* administrator who refreshes the account by hand or authorizes it again  *)
(* (account_handler.go), neither of which takes the lock.                  *)
(*                                                                         *)
(* Credentials are numbered in the order the provider gives them out, the  *)
(* access token and the refresh token of one answer having one number.     *)
(* The provider accepts the newest refresh token only, and consumes it.    *)
(***************************************************************************)
EXTENDS Integers, FiniteSets

CONSTANTS
    Instances,     \* instances of the program, each with one background refresher
    Requests,      \* requests that need an access token
    InstanceOf,    \* [Requests -> Instances]
    Nobody,        \* the lock, or a mutex, is free
    MaxAttempts,   \* maxRetries of the background refresher
    MaxGen,        \* bound: credentials given out
    MaxByHand,     \* bound: credentials an administrator obtains, the first included
    MaxTroubles    \* bound: failed calls, lost results and lost leases

ASSUME RefreshAssumption ==
    /\ Instances # {} /\ Instances \cap Requests = {}
    /\ Nobody \notin Instances \cup Requests
    /\ InstanceOf \in [Requests -> Instances]
    /\ MaxAttempts \in Nat \ {0} /\ MaxGen \in Nat \ {0}
    /\ MaxByHand \in Nat \ {0} /\ MaxTroubles \in Nat

VARIABLES
    provider,   \* the credentials the provider accepts
    account,    \* the row of the account
    granted,    \* the credentials that come from an authorization
    manual,     \* the credentials that come from a refresh by hand
    admin,      \* the administrator's request
    uncleared,  \* history: an account in error was authorized again and stays in error
    crossed,    \* history: a refresh by hand and a refresher worked at one time
    due,        \* credentials up to this number are in their refresh window
    cache,      \* an access token is cached; which one, no guard looks at
    lock,       \* who has set the refresh lock in Redis; the lock does not tell
    mutex,      \* [Instances -> who holds the instance's mutex]
    pc,         \* [Process -> the next call]
    run,        \* [Process -> what it remembers]
    troubles    \* [Trouble -> Nat], what has gone wrong so far

adminVars == <<granted, manual, admin, uncleared, crossed>>
vars == <<provider, account, adminVars, due, cache, lock, mutex, pc, run, troubles>>

Process == Instances \cup Requests
Background(p) == p \in Instances
Home(p) == IF Background(p) THEN p ELSE InstanceOf[p]

\* A lease lost, a lock refused by a Redis error, a failed call, a result lost.
Trouble == {"lease", "redis", "fail", "lost"}
Troubles == troubles["lease"] + troubles["redis"] + troubles["fail"] + troubles["lost"]

Gen == 1..MaxGen

Account == [gen    : Gen,                  \* the stored credentials
            status : {"active", "error"},
            grok   : BOOLEAN]              \* platform Grok: conditional updates

Label == {"idle", "lookup", "mutex", "lock", "reread", "refresh", "persist", "durable",
          "recover", "unlock", "invalidate", "setError", "wait", "check", "set"}

Run == [own     : 0..MaxGen,        \* the credentials of the request's account object
        gen     : 0..MaxGen,        \* the credentials it refreshes
        got     : 0..MaxGen,        \* what the provider gave
        locked  : BOOLEAN,          \* it has set the lock and will delete it
        late    : BOOLEAN,          \* its attempt has timed out
        attempt : 0..MaxAttempts,
        next    : Label]            \* where it goes on after the refresh

NoRun == [own |-> 0, gen |-> 0, got |-> 0, locked |-> FALSE, late |-> FALSE,
          attempt |-> 0, next |-> "idle"]

Admin == [step   : {"idle", "refresh", "load", "store", "clear", "invalidate"},
          manual : BOOLEAN,                       \* Refresh, not ApplyOAuthCredentials
          gen    : 0..MaxGen,                     \* the credentials it handles
          status : {"none", "active", "error"}]   \* that UpdateAccount has read

NoAdmin == [step |-> "idle", manual |-> FALSE, gen |-> 0, status |-> "none"]

TypeOK ==
    /\ provider \in Gen
    /\ account \in Account
    /\ granted \subseteq Gen
    /\ manual \subseteq Gen
    /\ admin \in Admin
    /\ uncleared \in BOOLEAN /\ crossed \in BOOLEAN /\ cache \in BOOLEAN
    /\ due \in 0..MaxGen
    /\ lock \in Process \cup {Nobody}
    /\ mutex \in [Instances -> Process \cup {Nobody}]
    /\ pc \in [Process -> Label]
    /\ run \in [Process -> Run]
    /\ troubles \in [Trouble -> 0..MaxTroubles]

Init ==
    /\ provider = 1
    /\ account \in [gen : {1}, status : {"active"}, grok : BOOLEAN]
    /\ granted = {1}
    /\ manual = {}
    /\ admin = NoAdmin
    /\ uncleared = FALSE
    /\ crossed = FALSE
    /\ due = 0
    /\ cache = FALSE
    /\ lock = Nobody
    /\ mutex = [i \in Instances |-> Nobody]
    /\ pc = [p \in Process |-> "idle"]
    /\ run = [p \in Process |-> NoRun]
    /\ troubles = [t \in Trouble |-> 0]

-----------------------------------------------------------------------------
(* Helpers                                                                 *)

GoTo(p, label) == pc' = [pc EXCEPT ![p] = label]
Stop(p) == GoTo(p, "idle") /\ run' = [run EXCEPT ![p] = NoRun]

\* RefreshIfNeeded returns: its deferred releases come first.
Leave(p, next) ==
    /\ GoTo(p, "unlock")
    /\ run' = [run EXCEPT ![p].next = next, ![p].got = 0,
                          ![p].gen = IF next = "setError" THEN @ ELSE 0]

\* It returns without an error and with an account, which the request takes over.
LeaveWith(p, g, next) ==
    /\ GoTo(p, "unlock")
    /\ run' = [run EXCEPT ![p].own = IF Background(p) THEN 0 ELSE g,
                          ![p].gen = 0, ![p].got = 0, ![p].next = next]

Suffer(t) ==
    /\ Troubles < MaxTroubles
    /\ troubles' = [troubles EXCEPT ![t] = @ + 1]

\* The context of an attempt that has timed out fails every call that uses it.
LateOrSuffers(p, t) == IF run[p].late THEN UNCHANGED troubles ELSE Suffer(t)

NeedsRefresh(g) == g <= due

\* _token_version is written by the refreshers; an authorization leaves it out and a
\* refresh by hand keeps that of the credentials it replaces.
TokenVersion(g) ==
    LET kept == CHOOSE h \in 1..g : h \notin manual /\ (h + 1)..g \subseteq manual
    IN IF g \in granted \cup {0} \/ kept \in granted THEN 0 ELSE kept

\* The background refresher has done its work, a request serves its token.
Unchanged(p) == IF Background(p) THEN "idle" ELSE "check"

\* After an error the background refresher tries again, and a request goes on
\* with the token it has.
AfterError(p) ==
    IF ~Background(p) THEN "check"
    ELSE IF run[p].attempt < MaxAttempts THEN "mutex" ELSE "idle"

-----------------------------------------------------------------------------
(* RefreshIfNeeded                                                         *)

TakeMutex(p) ==
    /\ pc[p] = "mutex"
    /\ mutex[Home(p)] = Nobody
    /\ mutex' = [mutex EXCEPT ![Home(p)] = p]
    /\ GoTo(p, "lock")
    /\ UNCHANGED <<provider, account, adminVars, due, cache, lock, run, troubles>>

\* Variant with a defect: a lock that is held is taken for a Redis error.
AcquireIgnoresHolder(p) ==
    /\ pc[p] = "lock"
    /\ lock' = p
    /\ run' = [run EXCEPT ![p].locked = TRUE]
    /\ GoTo(p, "reread")
    /\ UNCHANGED <<provider, account, adminVars, due, cache, mutex, troubles>>

\* The lock is held: LockHeld.  Redis fails: the refresh goes on without it.
AcquireRefreshLock(p) ==
    /\ pc[p] = "lock"
    /\ \/ /\ lock = Nobody
          /\ lock' = p
          /\ run' = [run EXCEPT ![p].locked = TRUE]
          /\ GoTo(p, "reread")
          /\ UNCHANGED troubles
       \/ /\ lock # Nobody
          /\ Leave(p, IF Background(p) THEN "idle" ELSE "wait")
          /\ UNCHANGED <<lock, troubles>>
       \/ /\ Suffer("redis")
          /\ GoTo(p, "reread")
          /\ UNCHANGED <<lock, run>>
    /\ UNCHANGED <<provider, account, adminVars, due, cache, mutex>>

\* A refresh by hand has rotated the credentials and not stored them yet.
ByHand == admin.manual /\ admin.step \in {"load", "store"}

\* The account is read again; one that is disabled or was refreshed is left alone.
Reread(p) ==
    /\ pc[p] = "reread"
    /\ \/ /\ ~run[p].late
          /\ IF account.status = "active" /\ NeedsRefresh(account.gen)
             THEN /\ GoTo(p, "refresh")
                  /\ run' = [run EXCEPT ![p].gen = account.gen]
                  /\ crossed' = (crossed \/ ByHand)
             ELSE LeaveWith(p, account.gen, Unchanged(p)) /\ UNCHANGED crossed
          /\ UNCHANGED troubles
       \/ /\ LateOrSuffers(p, "fail")
          /\ Leave(p, Unchanged(p))
          /\ UNCHANGED crossed
    /\ UNCHANGED <<provider, account, granted, manual, admin, uncleared, due, cache, lock, mutex>>

\* Variant with a defect: the empty credentials of a failed call are stored.
RefreshIgnoresFailure(p) ==
    /\ pc[p] = "refresh"
    /\ \/ /\ run[p].gen = provider
          /\ provider' = provider + 1
          /\ run' = [run EXCEPT ![p].got = provider']
          /\ UNCHANGED troubles
       \/ Suffer("fail") /\ UNCHANGED <<provider, run>>
    /\ GoTo(p, "persist")
    /\ UNCHANGED <<account, adminVars, due, cache, lock, mutex>>

\* The provider rotates the credentials, or the answer is lost after it has, or the
\* call fails; a refresh token that is not the newest is invalid_grant.
Refresh(p) ==
    /\ pc[p] = "refresh"
    /\ \/ /\ run[p].gen = provider /\ ~run[p].late
          /\ provider' = provider + 1
          /\ run' = [run EXCEPT ![p].got = provider']
          /\ GoTo(p, "persist")
          /\ UNCHANGED troubles
       \/ /\ run[p].gen = provider
          /\ provider' = provider + 1
          /\ LateOrSuffers(p, "lost")
          /\ Leave(p, AfterError(p))
       \/ /\ LateOrSuffers(p, "fail")
          /\ Leave(p, AfterError(p))
          /\ UNCHANGED provider
       \/ /\ run[p].gen # provider /\ ~run[p].late
          /\ GoTo(p, "recover")
          /\ UNCHANGED <<provider, run, troubles>>
    /\ UNCHANGED <<account, adminVars, due, cache, lock, mutex>>

\* tryRecoverFromRefreshRace: other credentials are stored by now, or the refresh
\* token is dead.
Recover(p) ==
    /\ pc[p] = "recover"
    /\ \/ /\ account.gen # run[p].gen /\ ~run[p].late
          /\ LeaveWith(p, account.gen, Unchanged(p))
          /\ UNCHANGED troubles
       \/ /\ account.gen = run[p].gen /\ ~run[p].late
          /\ Leave(p, IF Background(p) THEN "setError" ELSE "check")
          /\ UNCHANGED troubles
       \/ /\ ~run[p].late
          /\ Suffer("fail")
          /\ Leave(p, IF Background(p) THEN "setError" ELSE "check")
       \/ /\ run[p].late
          /\ Leave(p, AfterError(p))
          /\ UNCHANGED troubles
    /\ UNCHANGED <<provider, account, adminVars, due, cache, lock, mutex>>

\* Variant with a defect: Grok's credentials are written like any others.
PersistUnconditionally(p) ==
    /\ pc[p] = "persist"
    /\ account' = [account EXCEPT !.gen = run[p].got]
    /\ LeaveWith(p, run[p].got, IF Background(p) THEN "invalidate" ELSE "check")
    /\ UNCHANGED <<provider, adminVars, due, cache, lock, mutex, troubles>>

\* The new credentials are stored; Grok's only over those that were refreshed.  The
\* write may fail, or be done and its answer lost.
Persist(p) ==
    LET applies == ~account.grok \/ account.gen = run[p].gen
        failed == IF account.grok THEN "idle" ELSE AfterError(p) IN
    /\ pc[p] = "persist"
    /\ \/ /\ applies /\ ~run[p].late
          /\ account' = [account EXCEPT !.gen = run[p].got]
          /\ IF account.grok
             THEN GoTo(p, "durable") /\ UNCHANGED run
             ELSE LeaveWith(p, run[p].got, IF Background(p) THEN "invalidate" ELSE "check")
          /\ UNCHANGED troubles
       \/ /\ ~applies /\ ~run[p].late
          /\ LeaveWith(p, account.gen, Unchanged(p))
          /\ UNCHANGED <<account, troubles>>
       \/ /\ LateOrSuffers(p, "lost")
          /\ Leave(p, failed)
          /\ UNCHANGED account
       \/ /\ applies /\ ~run[p].late
          /\ account' = [account EXCEPT !.gen = run[p].got]
          /\ Suffer("fail")
          /\ Leave(p, failed)
    /\ UNCHANGED <<provider, adminVars, due, cache, lock, mutex>>

\* loadGrokDurableAccountAfterPersist: the cached token is deleted, and the row read
\* again; each may fail.
LoadDurable(p) ==
    /\ pc[p] = "durable"
    /\ \/ cache' = FALSE /\ Leave(p, "invalidate") /\ UNCHANGED troubles
       \/ cache' = FALSE /\ Leave(p, "idle") /\ Suffer("fail")
       \/ Leave(p, "invalidate") /\ Suffer("fail") /\ UNCHANGED cache
    /\ UNCHANGED <<provider, account, adminVars, due, lock, mutex>>

\* The lock is deleted by its key, whoever set it, and the deletion may fail.  Then
\* the mutex is released.
ReleaseRefreshLock(p) ==
    /\ pc[p] = "unlock"
    /\ \/ /\ lock' = IF run[p].locked THEN Nobody ELSE lock
          /\ UNCHANGED troubles
       \/ run[p].locked /\ Suffer("fail") /\ UNCHANGED lock
    /\ mutex' = [mutex EXCEPT ![Home(p)] = Nobody]
    /\ GoTo(p, run[p].next)
    /\ run' = [run EXCEPT ![p] =
                  CASE run[p].next = "idle"  -> NoRun
                    [] run[p].next = "mutex" -> [NoRun EXCEPT !.attempt = run[p].attempt + 1]
                    [] OTHER -> [NoRun EXCEPT !.own = run[p].own, !.gen = run[p].gen]]
    /\ UNCHANGED <<provider, account, adminVars, due, cache>>

-----------------------------------------------------------------------------
(* The background refresher                                                *)

\* A cycle finds the account active and its token about to expire.
StartBackground(i) ==
    /\ pc[i] = "idle"
    /\ account.status = "active" /\ NeedsRefresh(account.gen)
    /\ GoTo(i, "mutex")
    /\ run' = [run EXCEPT ![i].attempt = 1]
    /\ UNCHANGED <<provider, account, adminVars, due, cache, lock, mutex, troubles>>

\* Variant with a defect: the account is disabled whatever credentials it has.
SetErrorUnconditionally(i) ==
    /\ pc[i] = "setError"
    /\ account' = [account EXCEPT !.status = "error"]
    /\ GoTo(i, "invalidate")
    /\ UNCHANGED <<provider, adminVars, due, cache, lock, mutex, run, troubles>>

\* A dead refresh token disables the account; Grok's only while it is the stored one.
SetError(i) ==
    LET applies == ~account.grok \/ (account.gen = run[i].gen /\ account.status = "active") IN
    /\ pc[i] = "setError"
    /\ \/ /\ applies
          /\ account' = [account EXCEPT !.status = "error"]
          /\ GoTo(i, "invalidate")
          /\ run' = [run EXCEPT ![i] = NoRun]
          /\ UNCHANGED troubles
       \/ ~applies /\ Stop(i) /\ UNCHANGED <<account, troubles>>
       \/ /\ Suffer("fail")
          /\ GoTo(i, IF account.grok THEN "idle" ELSE "invalidate")
          /\ run' = [run EXCEPT ![i] = NoRun]
          /\ UNCHANGED account
    /\ UNCHANGED <<provider, adminVars, due, cache, lock, mutex>>

InvalidateToken(i) ==
    /\ pc[i] = "invalidate"
    /\ \/ cache' = FALSE /\ UNCHANGED troubles
       \/ Suffer("fail") /\ UNCHANGED cache
    /\ Stop(i)
    /\ UNCHANGED <<provider, account, adminVars, due, lock, mutex>>

-----------------------------------------------------------------------------
(* A request: GetAccessToken of the Claude provider                        *)

StartRequest(r) ==
    /\ pc[r] = "idle"
    /\ ~account.grok /\ account.status = "active"
    /\ GoTo(r, "lookup")
    /\ run' = [run EXCEPT ![r].own = account.gen]
    /\ UNCHANGED <<provider, account, adminVars, due, cache, lock, mutex, troubles>>

\* A cached token is served; else one in its window is refreshed.
LookUp(r) ==
    /\ pc[r] = "lookup"
    /\ \/ cache /\ Stop(r) /\ UNCHANGED troubles
       \/ /\ IF cache THEN Suffer("fail") ELSE UNCHANGED troubles
          /\ GoTo(r, IF NeedsRefresh(run[r].own) THEN "mutex" ELSE "check")
          /\ UNCHANGED run
    /\ UNCHANGED <<provider, account, adminVars, due, cache, lock, mutex>>

\* Somebody else refreshes: the request has slept and looks into the cache again.
WaitForCache(r) ==
    /\ pc[r] = "wait"
    /\ IF cache THEN Stop(r) ELSE GoTo(r, "check") /\ UNCHANGED run
    /\ UNCHANGED <<provider, account, adminVars, due, cache, lock, mutex, troubles>>

\* A newer version is stored: its token is served and nothing is cached.
CheckTokenVersion(r) ==
    /\ pc[r] = "check"
    /\ \/ /\ IF TokenVersion(account.gen) > TokenVersion(run[r].own)
             THEN Stop(r)
             ELSE GoTo(r, "set") /\ UNCHANGED run
          /\ UNCHANGED troubles
       \/ Suffer("fail") /\ GoTo(r, "set") /\ UNCHANGED run
    /\ UNCHANGED <<provider, account, adminVars, due, cache, lock, mutex>>

SetAccessToken(r) ==
    /\ pc[r] = "set"
    /\ \/ cache' = TRUE /\ UNCHANGED troubles
       \/ Suffer("fail") /\ UNCHANGED cache
    /\ Stop(r)
    /\ UNCHANGED <<provider, account, adminVars, due, lock, mutex>>

-----------------------------------------------------------------------------
(* The administrator                                                       *)

\* The provider gives out credentials that replace the ones before; the request
\* ApplyOAuthCredentials brings them.
Authorize ==
    /\ admin.step = "idle"
    /\ provider < MaxGen /\ Cardinality(granted \cup manual) < MaxByHand
    /\ provider' = provider + 1
    /\ granted' = granted \cup {provider'}
    /\ admin' = [NoAdmin EXCEPT !.step = "load", !.gen = provider']
    /\ UNCHANGED <<account, manual, uncleared, crossed,
                   due, cache, lock, mutex, pc, run, troubles>>

\* Refresh reads the account, whatever its status.
StartManualRefresh ==
    /\ admin.step = "idle"
    /\ provider < MaxGen /\ Cardinality(granted \cup manual) < MaxByHand
    /\ admin' = [NoAdmin EXCEPT !.step = "refresh", !.manual = TRUE, !.gen = account.gen]
    /\ UNCHANGED <<provider, account, granted, manual, uncleared, crossed,
                   due, cache, lock, mutex, pc, run, troubles>>

\* refreshSingleAccount calls the provider, without the mutex and the lock.  A failed
\* call and a refresh token that is not the newest end the request.
RefreshSingleAccount ==
    /\ admin.step = "refresh"
    /\ \/ /\ admin.gen = provider /\ provider < MaxGen
          /\ provider' = provider + 1
          /\ manual' = manual \cup {provider'}
          /\ admin' = [admin EXCEPT !.step = "load", !.gen = provider']
          /\ crossed' = (crossed \/ \E p \in Process : pc[p] = "refresh")
          /\ UNCHANGED troubles
       \/ /\ admin.gen = provider /\ provider < MaxGen
          /\ provider' = provider + 1
          /\ Suffer("lost")
          /\ admin' = NoAdmin
          /\ UNCHANGED <<manual, crossed>>
       \/ /\ IF admin.gen = provider THEN Suffer("fail") ELSE UNCHANGED troubles
          /\ admin' = NoAdmin
          /\ UNCHANGED <<provider, manual, crossed>>
    /\ UNCHANGED <<account, granted, uncleared, due, cache, lock, mutex, pc, run>>

\* UpdateAccount reads the row, and writes it back with the new credentials and the
\* status it has read.  A failure ends the request, with the credentials lost, or stored
\* when only the last read of the row failed.
UpdateAccount ==
    /\ \/ /\ admin.step = "load"
          /\ admin' = [admin EXCEPT !.step = "store", !.status = account.status]
          /\ UNCHANGED <<account, uncleared, troubles>>
       \/ /\ admin.step \in {"load", "store"}
          /\ Suffer("lost")
          /\ admin' = NoAdmin
          /\ UNCHANGED <<account, uncleared>>
       \/ /\ admin.step = "store"
          /\ account' = [account EXCEPT !.gen = admin.gen, !.status = admin.status]
          /\ uncleared' = (admin.status = "error" /\ (uncleared \/ ~admin.manual))
          /\ \/ /\ admin' = [NoAdmin EXCEPT !.step = IF admin.manual THEN "invalidate" ELSE "clear"]
                /\ UNCHANGED troubles
             \/ Suffer("fail") /\ admin' = NoAdmin
    /\ UNCHANGED <<provider, granted, manual, crossed, due, cache, lock, mutex, pc, run>>

\* ApplyOAuthCredentials goes on whether the error is cleared or not.
ClearAccountError ==
    /\ admin.step = "clear"
    /\ \/ /\ account' = [account EXCEPT !.status = "active"]
          /\ uncleared' = FALSE
          /\ UNCHANGED troubles
       \/ Suffer("fail") /\ UNCHANGED <<account, uncleared>>
    /\ admin' = [admin EXCEPT !.step = "invalidate"]
    /\ UNCHANGED <<provider, granted, manual, crossed, due, cache, lock, mutex, pc, run>>

\* The cached token is deleted, or not; or the instance that serves the request dies.
EndAdminRequest ==
    /\ \/ admin.step = "invalidate" /\ cache' = FALSE /\ UNCHANGED troubles
       \/ admin.step = "invalidate" /\ Suffer("fail") /\ UNCHANGED cache
       \/ admin.step # "idle" /\ Suffer("lost") /\ UNCHANGED cache
    /\ admin' = NoAdmin
    /\ UNCHANGED <<provider, account, granted, manual, uncleared, crossed,
                   due, lock, mutex, pc, run>>

AdminStep == RefreshSingleAccount \/ UpdateAccount \/ ClearAccountError \/ EndAdminRequest

-----------------------------------------------------------------------------
(* Time and faults                                                         *)

TokenExpires ==
    /\ provider < MaxGen
    /\ due < account.gen
    /\ due' = account.gen
    /\ UNCHANGED <<provider, account, adminVars, cache, lock, mutex, pc, run, troubles>>

CacheExpires ==
    /\ cache
    /\ cache' = FALSE
    /\ UNCHANGED <<provider, account, adminVars, due, lock, mutex, pc, run, troubles>>

\* Variant with a defect: the lock is set without a TTL.
LockNeverExpires ==
    /\ FALSE
    /\ UNCHANGED vars

\* The TTL runs out.  If the one who set it still runs, the lease is lost; an attempt of
\* the background refresher has timed out by then (clampRefreshAttemptToLockLease).
LockExpires ==
    LET running == run[lock].locked IN
    /\ lock # Nobody
    /\ lock' = Nobody
    /\ IF running THEN Suffer("lease") ELSE UNCHANGED troubles
    /\ run' = IF running /\ Background(lock) THEN [run EXCEPT ![lock].late = TRUE] ELSE run
    /\ UNCHANGED <<provider, account, adminVars, due, cache, mutex, pc>>

\* An instance dies with its refresher and its requests; the lock stays in Redis.
Crash(i) ==
    /\ \E p \in Process : Home(p) = i /\ pc[p] # "idle"
    /\ Suffer("lost")
    /\ mutex' = [mutex EXCEPT ![i] = Nobody]
    /\ pc' = [p \in Process |-> IF Home(p) = i THEN "idle" ELSE pc[p]]
    /\ run' = [p \in Process |-> IF Home(p) = i THEN NoRun ELSE run[p]]
    /\ UNCHANGED <<provider, account, adminVars, due, cache, lock>>

-----------------------------------------------------------------------------
RefreshIfNeeded(p) ==
    \/ TakeMutex(p) \/ AcquireRefreshLock(p) \/ Reread(p) \/ Refresh(p) \/ Recover(p)
    \/ Persist(p) \/ LoadDurable(p) \/ ReleaseRefreshLock(p)

BackgroundStep(i) ==
    StartBackground(i) \/ RefreshIfNeeded(i) \/ SetError(i) \/ InvalidateToken(i)

RequestStep(r) ==
    LookUp(r) \/ RefreshIfNeeded(r) \/ WaitForCache(r) \/ CheckTokenVersion(r) \/ SetAccessToken(r)

Next ==
    \/ \E i \in Instances : BackgroundStep(i) \/ Crash(i)
    \/ \E r \in Requests : StartRequest(r) \/ RequestStep(r)
    \/ Authorize \/ StartManualRefresh \/ AdminStep
    \/ TokenExpires \/ CacheExpires \/ LockExpires

Spec == Init /\ [][Next]_vars

\* The refresher's ticker ticks, a refresh that has begun goes on, and Redis expires keys.
\* Nothing is asked of the requests and of the administrator.
FairSpec ==
    /\ Spec
    /\ \A i \in Instances : WF_vars(BackgroundStep(i))
    /\ WF_vars(LockExpires)

-----------------------------------------------------------------------------
(* Properties                                                              *)

Quiescent == (\A p \in Process : pc[p] = "idle") /\ admin.step = "idle"

\* An account in error can really not be refreshed: another refresher that has just
\* rotated the token, or an administrator who has just replaced it, is not punished for
\* it.  The exceptions are the lost lock; an authorization of an account whose updates
\* are unconditional; an authorization whose ClearAccountError was not reached or failed,
\* which is only logged; and a refresh by hand, which takes no lock, beside a refresher.
HealthyNotDisabled ==
    /\ account.status = "error"
    /\ troubles["redis"] = 0 /\ troubles["lease"] = 0
    /\ account.grok \/ granted = {1}
    /\ ~uncleared /\ ~crossed
    => account.gen # provider

\* Once all is quiet the stored refresh token is the one the provider accepts, unless
\* an answer of the provider was lost on the way to the row: neither two refreshers
\* nor, for Grok, a refresher and an administrator, overwrite each other's credentials;
\* nor does a refresh by hand.
StoredIsUsable ==
    /\ Quiescent
    /\ troubles["lost"] = 0 /\ troubles["lease"] = 0
    /\ account.grok \/ granted = {1}
    => account.gen = provider

\* Of all instances and requests at most one is between the reread of the account and
\* the write of its credentials, unless a lease is lost or Redis does not answer: the
\* mutex of an instance and the lock between them, left in whatever way.
OneRefresher ==
    troubles["lease"] + troubles["redis"] = 0 =>
        Cardinality({p \in Process :
            pc[p] \in {"reread", "refresh", "recover", "persist", "durable"}}) <= 1

\* A token about to expire is refreshed, or its account disabled, whoever crashes with
\* the lock or waits for it, if the requests pause: they do not disable an account,
\* and a refresher that finds the lock held gives up for its cycle.
DueIsRefreshed ==
    <>[](\A r \in Requests : pc[r] = "idle") =>
        []<>(account.status = "error" \/ ~NeedsRefresh(account.gen))
=============================================================================
