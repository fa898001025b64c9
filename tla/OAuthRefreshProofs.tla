------------------------- MODULE OAuthRefreshProofs -------------------------
(***************************************************************************)
(* Proofs about OAuthRefresh for any number of instances, requests,        *)
(* credentials, requests of administrators and troubles.                   *)
(***************************************************************************)
EXTENDS OAuthRefresh, FiniteSetTheorems, TLAPS

USE DEF adminVars

Critical == {"reread", "refresh", "recover", "persist", "durable"}
Persisting == {p \in Process : pc[p] = "persist"}

\* A process that is about to disable the account for the credentials run[p].gen.
Condemns(p) ==
    pc[p] \in {"recover", "setError"} \/ (pc[p] = "unlock" /\ run[p].next = "setError")

\* The lock guards everything, as long as it is not lost.
LockHolds == troubles["lease"] = 0 /\ troubles["redis"] = 0

\* An administrator has credentials that are not stored yet.
Applying == admin.step \in {"load", "store"}

\* Where a process goes on after RefreshIfNeeded; another attempt is made only while there
\* are some left.
Nexts == {"idle", "mutex", "check", "wait", "setError", "invalidate"}

NextInv ==
    \A p \in Process :
        /\ run[p].next \in Nexts
        /\ run[p].next = "mutex" => run[p].attempt < MaxAttempts
        /\ pc[p] # "unlock" => run[p].next = "idle"

\* Credentials are known only after the provider gave them out, and those that an
\* administrator has not applied yet are known to nobody else.
OrderInv ==
    /\ account.gen <= provider /\ due <= provider /\ due < MaxGen
    /\ \A p \in Process :
          /\ run[p].gen <= due /\ run[p].got <= provider
          /\ p \in Persisting => run[p].gen < run[p].got
    /\ admin.gen <= provider
    /\ admin.step = "store" => admin.status \in {"active", "error"}
    /\ Applying =>
          /\ admin.gen = provider /\ account.gen < provider
          /\ \A p \in Process : run[p].gen < provider /\ run[p].got < provider

\* New credentials are known only to the process that stores them, and no two such
\* processes have them from the same refresh token.  A refresh by hand does not begin
\* with them.
FreshInv ==
    \A p \in Persisting :
        /\ account.gen # run[p].got
        /\ \A q \in Process : run[q].gen # run[p].got
        /\ \A q \in Persisting :
              run[p].gen = run[q].gen \/ run[p].got = run[q].got => p = q
        /\ admin.step = "refresh" => admin.gen # run[p].got

\* The mutex of an instance is held from the lock to the unlock.
MutexInv ==
    \A p \in Process : pc[p] \in Critical \cup {"lock", "unlock"} => mutex[Home(p)] = p

\* Who has set the lock will delete it; who is in the critical section has set it.
LockInv ==
    \A p \in Process :
        /\ run[p].locked => pc[p] \in Critical \cup {"unlock"}
        /\ run[p].locked /\ troubles["lease"] = 0 => lock = p
        /\ pc[p] \in Critical /\ troubles["redis"] = 0 => run[p].locked
        /\ run[p].late => troubles["lease"] > 0

\* The newest credentials are stored, or on their way: with the administrator or with a
\* process whose write will be accepted.
StoredInv ==
    /\ troubles["lost"] = 0 /\ troubles["lease"] = 0
    /\ account.grok \/ granted = {1}
    => /\ \/ account.gen = provider
          \/ Applying
          \/ \E p \in Persisting : run[p].got = provider /\ run[p].gen = account.gen
       /\ ~account.grok => \A p \in Persisting : run[p].got = provider /\ run[p].gen = account.gen

\* Grok: the credentials an account is, or will be, disabled for are no longer accepted,
\* and nobody is about to replace them.  A refresh by hand that no refresher crosses
\* begins with credentials that nobody is about to disable the account for, and ends
\* before anybody is.
GrokInv ==
    LockHolds /\ account.grok =>
        /\ \A p \in Process : Condemns(p) =>
              /\ run[p].gen # provider
              /\ \A q \in Persisting : run[q].gen # run[p].gen
        /\ admin.step = "refresh" => admin.gen <= account.gen
        /\ ~crossed =>
              /\ account.status = "error" /\ ~uncleared =>
                    /\ account.gen # provider
                    /\ \A q \in Persisting : run[q].gen # account.gen
              /\ ByHand =>
                    /\ \A p \in Process : /\ pc[p] # "refresh"
                                          /\ Condemns(p) => run[p].gen # account.gen
                    /\ account.status = "error" => uncleared
                    /\ admin.step = "store" /\ admin.status = "error" => uncleared

\* Others, while nobody authorizes them again: the stored credentials are no longer
\* accepted and nobody is about to replace them.  Beside a refresh by hand nobody
\* refreshes, unless they cross.
DeadInv ==
    LockHolds /\ ~account.grok /\ granted = {1} /\ ~crossed =>
        /\ admin.step # "clear"
        /\ admin.step \in {"refresh", "load", "store"} => admin.manual
        /\ admin.step = "refresh" => admin.gen <= account.gen
        /\ \A p \in Process : pc[p] \in {"refresh", "persist"} => run[p].gen = account.gen
        /\ Applying =>
              /\ \A p \in Process : pc[p] \notin {"refresh", "persist"} /\ ~Condemns(p)
              /\ account.status = "active"
              /\ admin.step = "store" => admin.status = "active"
        /\ account.status = "error" \/ (\E p \in Process : Condemns(p)) =>
              account.gen # provider /\ Persisting = {}

IInv ==
    /\ TypeOK /\ NextInv /\ OrderInv /\ FreshInv /\ MutexInv /\ LockInv
    /\ StoredInv /\ GrokInv /\ DeadInv

-----------------------------------------------------------------------------
(* Lemmas about the operators                                              *)

\* Every process has an instance.
LEMMA HomeType ==
    ASSUME NEW p \in Process
    PROVE  Home(p) \in Instances
BY RefreshAssumption DEF Process, Home, Background

\* A trouble is counted under its own name.
LEMMA SufferCounts ==
    ASSUME TypeOK, NEW t \in Trouble, Suffer(t)
    PROVE  /\ troubles' \in [Trouble -> 0..MaxTroubles]
           /\ troubles'[t] = troubles[t] + 1 /\ troubles'[t] > 0
           /\ \A u \in Trouble : u # t => troubles'[u] = troubles[u]
<1>1. troubles \in [Trouble -> 0..MaxTroubles] /\ MaxTroubles \in Nat
    BY RefreshAssumption DEF TypeOK
<1>2. \A u \in Trouble : troubles[u] \in 0..MaxTroubles
    BY <1>1
<1>3. troubles[t] + 1 \in 0..MaxTroubles /\ troubles[t] + 1 > 0
    BY <1>1, <1>2 DEF Suffer, Troubles, Trouble
<1>4. QED
    BY <1>1, <1>2, <1>3 DEF Suffer

\* What a process remembers.
LEMMA RunType ==
    ASSUME TypeOK, NEW p \in Process
    PROVE  /\ run[p].own \in 0..MaxGen /\ run[p].gen \in 0..MaxGen /\ run[p].got \in 0..MaxGen
           /\ run[p].locked \in BOOLEAN /\ run[p].late \in BOOLEAN
           /\ run[p].attempt \in 0..MaxAttempts /\ run[p].next \in Label
           /\ run[p].gen \in Int /\ run[p].got \in Int /\ run[p].attempt \in Int
           /\ NoRun \in Run
<1>1. run[p] \in Run
    BY DEF TypeOK
<1>2. /\ run[p].own \in 0..MaxGen /\ run[p].gen \in 0..MaxGen /\ run[p].got \in 0..MaxGen
      /\ run[p].locked \in BOOLEAN /\ run[p].late \in BOOLEAN
      /\ run[p].attempt \in 0..MaxAttempts /\ run[p].next \in Label
    BY <1>1 DEF Run
<1>3. NoRun \in Run
    BY RefreshAssumption DEF NoRun, Run, Label
<1>4. QED
    BY <1>2, <1>3, RefreshAssumption

\* RefreshIfNeeded returns without new credentials.
LEMMA LeaveFacts ==
    ASSUME TypeOK, NEW p \in Process, NEW next \in Label, Leave(p, next)
    PROVE  /\ run' \in [Process -> Run]
           /\ \A q \in Process : q # p => run'[q] = run[q]
           /\ pc' = [pc EXCEPT ![p] = "unlock"]
           /\ run'[p].next = next /\ run'[p].got = 0
           /\ run'[p].gen = IF next = "setError" THEN run[p].gen ELSE 0
           /\ run'[p].attempt = run[p].attempt /\ run'[p].locked = run[p].locked
           /\ run'[p].late = run[p].late
<1> DEFINE g == IF next = "setError" THEN run[p].gen ELSE 0
<1>1. run \in [Process -> Run] /\ run[p] \in Run /\ g \in 0..MaxGen /\ 0 \in 0..MaxGen
    BY RunType, RefreshAssumption DEF TypeOK
<1>2. run' = [run EXCEPT ![p] = [run[p] EXCEPT !.next = next, !.got = 0, !.gen = g]]
    BY <1>1 DEF Leave
<1> HIDE DEF g
<1>3. [run[p] EXCEPT !.next = next, !.got = 0, !.gen = g] \in Run
    BY <1>1 DEF Run
<1>4. /\ run' \in [Process -> Run]
      /\ \A q \in Process : q # p => run'[q] = run[q]
      /\ run'[p].next = next /\ run'[p].got = 0 /\ run'[p].gen = g
      /\ run'[p].attempt = run[p].attempt /\ run'[p].locked = run[p].locked
      /\ run'[p].late = run[p].late
    BY <1>1, <1>2, <1>3 DEF Run
<1>5. QED
    BY <1>4 DEF Leave, GoTo, g

\* RefreshIfNeeded returns an account.
LEMMA LeaveWithFacts ==
    ASSUME TypeOK, NEW p \in Process, NEW next \in Label, NEW g \in 0..MaxGen,
           LeaveWith(p, g, next)
    PROVE  /\ run' \in [Process -> Run]
           /\ \A q \in Process : q # p => run'[q] = run[q]
           /\ pc' = [pc EXCEPT ![p] = "unlock"]
           /\ run'[p].next = next /\ run'[p].got = 0 /\ run'[p].gen = 0
           /\ run'[p].attempt = run[p].attempt /\ run'[p].locked = run[p].locked
           /\ run'[p].late = run[p].late
<1> DEFINE own == IF Background(p) THEN 0 ELSE g
<1>1. run \in [Process -> Run] /\ run[p] \in Run /\ own \in 0..MaxGen /\ 0 \in 0..MaxGen
    BY RefreshAssumption DEF TypeOK
<1>2. run' = [run EXCEPT ![p] = [run[p] EXCEPT !.own = own, !.gen = 0, !.got = 0, !.next = next]]
    BY <1>1 DEF LeaveWith
<1> HIDE DEF own
<1>3. [run[p] EXCEPT !.own = own, !.gen = 0, !.got = 0, !.next = next] \in Run
    BY <1>1 DEF Run
<1>4. /\ run' \in [Process -> Run]
      /\ \A q \in Process : q # p => run'[q] = run[q]
      /\ run'[p].next = next /\ run'[p].got = 0 /\ run'[p].gen = 0
      /\ run'[p].attempt = run[p].attempt /\ run'[p].locked = run[p].locked
      /\ run'[p].late = run[p].late
    BY <1>1, <1>2, <1>3 DEF Run
<1>5. QED
    BY <1>4 DEF LeaveWith, GoTo

\* A process that starts over has forgotten everything.
LEMMA ForgetFacts ==
    ASSUME TypeOK, NEW p \in Process, run' = [run EXCEPT ![p] = NoRun]
    PROVE  /\ run' \in [Process -> Run]
           /\ \A q \in Process : q # p => run'[q] = run[q]
           /\ run'[p] = NoRun
BY RunType DEF TypeOK

-----------------------------------------------------------------------------
(* What the steps of a process do to the credentials                       *)

Step(p) ==
    \/ RefreshIfNeeded(p)
    \/ p \in Instances /\ (StartBackground(p) \/ SetError(p) \/ InvalidateToken(p))
    \/ /\ p \in Requests
       /\ \/ StartRequest(p) \/ LookUp(p) \/ WaitForCache(p) \/ CheckTokenVersion(p)
          \/ SetAccessToken(p)

\* It changes nobody's memory but its own.
Alone(p) ==
    /\ run' \in [Process -> Run] /\ pc' \in [Process -> Label]
    /\ \A q \in Process : q # p => run'[q] = run[q] /\ pc'[q] = pc[q]
    /\ run'[p].next \in Nexts
    /\ run'[p].next = "mutex" => run'[p].attempt < MaxAttempts
    /\ pc'[p] # "unlock" => run'[p].next = "idle"

\* Nothing happens to the credentials.
Passive(p) ==
    /\ pc[p] # "persist" /\ pc'[p] \notin {"refresh", "persist"}
    /\ run'[p].gen \in {0, run[p].gen} /\ run'[p].got \in {0, run[p].got}
    /\ Condemns(p)' => Condemns(p) /\ run'[p].gen = run[p].gen
    /\ UNCHANGED <<provider, account>>

\* The stored credentials are read for a refresh.
Reads(p) ==
    /\ pc[p] # "persist" /\ pc'[p] = "refresh"
    /\ account.status = "active" /\ NeedsRefresh(account.gen)
    /\ run'[p].gen = account.gen /\ run'[p].got = run[p].got
    /\ ByHand => crossed'
    /\ UNCHANGED <<provider, account>>

\* The provider gives new credentials.
Rotates(p) ==
    /\ pc[p] = "refresh" /\ pc'[p] = "persist"
    /\ run[p].gen = provider /\ provider' = provider + 1
    /\ run'[p].gen = run[p].gen /\ run'[p].got = provider + 1
    /\ UNCHANGED account

\* The new credentials are lost.
Loses(p) ==
    /\ pc[p] = "refresh" /\ pc'[p] = "unlock" /\ ~Condemns(p)'
    /\ run[p].gen = provider /\ provider' = provider + 1
    /\ run'[p].gen = 0 /\ run'[p].got = 0
    /\ run[p].late \/ troubles'["lost"] > 0
    /\ UNCHANGED account

\* The provider does not accept the credentials.
IsRejected(p) ==
    /\ pc[p] = "refresh" /\ pc'[p] = "recover"
    /\ run[p].gen # provider
    /\ run'[p].gen = run[p].gen /\ run'[p].got = run[p].got
    /\ UNCHANGED <<provider, account>>

\* The new credentials are stored.
Stores(p) ==
    /\ pc[p] = "persist" /\ pc'[p] \in {"durable", "unlock"} /\ ~Condemns(p)'
    /\ account.grok => account.gen = run[p].gen
    /\ account' = [account EXCEPT !.gen = run[p].got]
    /\ run'[p].gen \in {0, run[p].gen} /\ run'[p].got \in {0, run[p].got}
    /\ UNCHANGED provider

\* The new credentials are not stored.
Drops(p) ==
    /\ pc[p] = "persist" /\ pc'[p] = "unlock" /\ ~Condemns(p)'
    /\ \/ account.grok /\ account.gen # run[p].gen
       \/ run[p].late
       \/ troubles'["lost"] > 0
    /\ run'[p].gen = 0 /\ run'[p].got = 0
    /\ UNCHANGED <<provider, account>>

\* The account is disabled.
Disables(p) ==
    /\ pc[p] = "setError" /\ pc'[p] = "invalidate"
    /\ account.grok => account.gen = run[p].gen
    /\ account' = [account EXCEPT !.status = "error"]
    /\ run'[p].gen = 0 /\ run'[p].got = 0
    /\ UNCHANGED provider

Effect(p) ==
    \/ Passive(p) \/ Reads(p) \/ Rotates(p) \/ Loses(p) \/ IsRejected(p) \/ Stores(p)
    \/ Drops(p) \/ Disables(p)

\* The rest of the state keeps its type, and troubles are not forgotten.
Remainder ==
    /\ troubles' \in [Trouble -> 0..MaxTroubles]
    /\ \A t \in Trouble : troubles[t] > 0 => troubles'[t] > 0
    /\ cache' \in BOOLEAN /\ lock' \in Process \cup {Nobody}
    /\ mutex' \in [Instances -> Process \cup {Nobody}]
    /\ crossed' \in BOOLEAN /\ (crossed => crossed')
    /\ UNCHANGED <<granted, manual, admin, uncleared, due>>

\* A step of a process keeps the types of what it shares with the others.
LEMMA StepRemainder ==
    ASSUME TypeOK, NEW p \in Process, Step(p)
    PROVE  Remainder
<1>1. /\ \/ troubles' = troubles
         \/ Suffer("redis") \/ Suffer("fail") \/ Suffer("lost")
      /\ cache' = cache \/ cache' = FALSE \/ cache' = TRUE
      /\ lock' \in {lock, p, Nobody}
      /\ \/ UNCHANGED mutex
         \/ mutex' = [mutex EXCEPT ![Home(p)] = p]
         \/ mutex' = [mutex EXCEPT ![Home(p)] = Nobody]
      /\ crossed' = crossed \/ crossed' = (crossed \/ ByHand)
      /\ UNCHANGED <<granted, manual, admin, uncleared, due>>
    BY DEF Step, RefreshIfNeeded, TakeMutex, AcquireRefreshLock, Reread, Refresh, Recover, Persist,
           LoadDurable, ReleaseRefreshLock, StartBackground, SetError, InvalidateToken,
           StartRequest, LookUp, WaitForCache, CheckTokenVersion, SetAccessToken, LateOrSuffers
<1>2. /\ troubles' \in [Trouble -> 0..MaxTroubles]
      /\ \A t \in Trouble : troubles[t] > 0 => troubles'[t] > 0
    BY <1>1, SufferCounts DEF Trouble, TypeOK
<1>3. cache' \in BOOLEAN
    BY <1>1 DEF TypeOK
<1>4. mutex' \in [Instances -> Process \cup {Nobody}]
    BY <1>1, HomeType DEF TypeOK
<1>5. lock' \in Process \cup {Nobody}
    BY <1>1 DEF TypeOK
<1>6. crossed' \in BOOLEAN /\ (crossed => crossed')
    <2>1. CASE crossed' = crossed
        BY <2>1, Zenon DEF TypeOK
    <2>2. CASE crossed' = (crossed \/ ByHand)
        BY <2>2, Zenon
    <2>3. QED
        BY <1>1, <2>1, <2>2, Zenon
<1>7. QED
    BY <1>1, <1>2, <1>3, <1>4, <1>5, <1>6 DEF Remainder

\* A process that leaves RefreshIfNeeded without having stored anything, for a place that
\* does not disable the account.
LEMMA LeavingIsPassive ==
    ASSUME TypeOK, NextInv, NEW p \in Process, pc[p] # "persist", UNCHANGED <<provider, account>>,
           NEW next \in Nexts, next # "setError",
           next = "mutex" => run[p].attempt < MaxAttempts,
           Leave(p, next) \/ \E g \in 0..MaxGen : LeaveWith(p, g, next)
    PROVE  Alone(p) /\ Passive(p)
<1>1. /\ run' \in [Process -> Run]
      /\ \A q \in Process : q # p => run'[q] = run[q]
      /\ pc' = [pc EXCEPT ![p] = "unlock"]
      /\ run'[p].next = next /\ run'[p].got = 0 /\ run'[p].gen = 0
      /\ run'[p].attempt = run[p].attempt
    BY LeaveFacts, LeaveWithFacts DEF Nexts, Label
<1>2. pc \in [Process -> Label] /\ pc' \in [Process -> Label] /\ pc'[p] = "unlock"
    BY <1>1 DEF TypeOK, Label
<1>3. Alone(p)
    BY <1>1, <1>2 DEF Alone
<1>4. ~Condemns(p)'
    BY <1>1, <1>2 DEF Condemns
<1>5. QED
    BY <1>1, <1>2, <1>3, <1>4 DEF Passive

\* Each step of RefreshIfNeeded does one of these things to the credentials.
LEMMA RefreshEffect ==
    ASSUME TypeOK, NextInv, OrderInv, NEW p \in Process, RefreshIfNeeded(p)
    PROVE  Alone(p) /\ Effect(p)
<1>a. /\ pc \in [Process -> Label] /\ run \in [Process -> Run]
      /\ run[p].next \in Nexts
      /\ run[p].next = "mutex" => run[p].attempt < MaxAttempts
      /\ pc[p] # "unlock" => run[p].next = "idle"
    BY DEF TypeOK, NextInv
<1>b. account.gen \in 0..MaxGen /\ run[p].got \in 0..MaxGen
    BY RunType, RefreshAssumption DEF TypeOK, Account, Gen
<1>c. /\ AfterError(p) \in Nexts /\ AfterError(p) \in Label /\ AfterError(p) # "setError"
      /\ AfterError(p) = "mutex" => run[p].attempt < MaxAttempts
      /\ Unchanged(p) \in {"idle", "check"}
    BY DEF AfterError, Unchanged, Label, Nexts
<1>d. {"idle", "check", "wait", "invalidate", "setError"} \subseteq Label \cap Nexts
    BY DEF Label, Nexts
<1>1. CASE TakeMutex(p)
    BY <1>1, <1>a DEF TakeMutex, GoTo, Alone, Effect, Passive, Condemns, Label
<1>2. CASE AcquireRefreshLock(p)
    <2>1. pc[p] = "lock" /\ UNCHANGED <<provider, account>>
        BY <1>2 DEF AcquireRefreshLock
    <2>2. CASE run' = [run EXCEPT ![p].locked = TRUE] /\ GoTo(p, "reread")
        <3>1. run' = [run EXCEPT ![p] = [run[p] EXCEPT !.locked = TRUE]] /\ run[p] \in Run
            BY <1>a, <2>2
        <3>2. /\ run' \in [Process -> Run] /\ \A q \in Process : q # p => run'[q] = run[q]
              /\ run'[p].next = run[p].next /\ run'[p].attempt = run[p].attempt
              /\ run'[p].gen = run[p].gen /\ run'[p].got = run[p].got
            BY <3>1, <1>a DEF Run
        <3>3. QED
            BY <1>a, <2>1, <2>2, <3>2 DEF GoTo, Alone, Effect, Passive, Condemns, Label
    <2>3. CASE Leave(p, IF Background(p) THEN "idle" ELSE "wait")
        BY <1>d, <2>1, <2>3, LeavingIsPassive DEF Effect
    <2>4. CASE GoTo(p, "reread") /\ UNCHANGED run
        BY <1>a, <2>1, <2>4 DEF GoTo, Alone, Effect, Passive, Condemns, Label
    <2>5. QED
        BY <1>2, <2>2, <2>3, <2>4 DEF AcquireRefreshLock
<1>3. CASE Reread(p)
    <2>1. pc[p] = "reread" /\ UNCHANGED <<provider, account>>
        BY <1>3 DEF Reread
    <2>2. CASE /\ account.status = "active" /\ NeedsRefresh(account.gen)
               /\ GoTo(p, "refresh") /\ run' = [run EXCEPT ![p].gen = account.gen]
               /\ crossed' = (crossed \/ ByHand)
        <3>a. ByHand => crossed'
            BY <2>2
        <3>1. run' = [run EXCEPT ![p] = [run[p] EXCEPT !.gen = account.gen]] /\ run[p] \in Run
            BY <1>a, <2>2
        <3>2. /\ run' \in [Process -> Run] /\ \A q \in Process : q # p => run'[q] = run[q]
              /\ run'[p].next = run[p].next /\ run'[p].attempt = run[p].attempt
              /\ run'[p].gen = account.gen /\ run'[p].got = run[p].got
            BY <3>1, <1>a, <1>b DEF Run
        <3>3. QED
            BY <1>a, <2>1, <2>2, <3>a, <3>2 DEF GoTo, Alone, Effect, Reads, Label
    <2>3. CASE Leave(p, Unchanged(p)) \/ LeaveWith(p, account.gen, Unchanged(p))
        BY <1>b, <1>c, <1>d, <2>1, <2>3, LeavingIsPassive DEF Effect
    <2>4. QED
        BY <1>3, <2>2, <2>3 DEF Reread
<1>4. CASE Refresh(p)
    <2>1. pc[p] = "refresh" /\ UNCHANGED account
        BY <1>4 DEF Refresh
    <2>2. CASE /\ run[p].gen = provider /\ provider' = provider + 1
               /\ run' = [run EXCEPT ![p].got = provider'] /\ GoTo(p, "persist")
        <3>a. provider' \in 0..MaxGen
            BY <2>2, RunType, RefreshAssumption DEF OrderInv, TypeOK, Gen
        <3>1. run' = [run EXCEPT ![p] = [run[p] EXCEPT !.got = provider']] /\ run[p] \in Run
            BY <1>a, <2>2
        <3>2. /\ run' \in [Process -> Run] /\ \A q \in Process : q # p => run'[q] = run[q]
              /\ run'[p].next = run[p].next /\ run'[p].attempt = run[p].attempt
              /\ run'[p].gen = run[p].gen /\ run'[p].got = provider'
            BY <3>1, <3>a, <1>a DEF Run
        <3>3. QED
            BY <1>a, <2>1, <2>2, <3>2 DEF GoTo, Alone, Effect, Rotates, Label
    <2>3. CASE /\ run[p].gen = provider /\ provider' = provider + 1
               /\ LateOrSuffers(p, "lost") /\ Leave(p, AfterError(p))
        <3>1. run[p].late \/ troubles'["lost"] > 0
            BY <2>3, SufferCounts DEF LateOrSuffers, Trouble
        <3>2. /\ run' \in [Process -> Run] /\ \A q \in Process : q # p => run'[q] = run[q]
              /\ pc' = [pc EXCEPT ![p] = "unlock"]
              /\ run'[p].next = AfterError(p) /\ run'[p].attempt = run[p].attempt
              /\ run'[p].gen = 0 /\ run'[p].got = 0
            BY <1>c, <2>3, LeaveFacts
        <3>3. pc' \in [Process -> Label] /\ pc'[p] = "unlock"
            BY <1>a, <3>2 DEF Label
        <3>4. ~Condemns(p)' /\ Alone(p)
            BY <1>a, <1>c, <3>2, <3>3 DEF Condemns, Alone
        <3>5. QED
            BY <2>1, <2>3, <3>1, <3>2, <3>3, <3>4 DEF Effect, Loses
    <2>4. CASE Leave(p, AfterError(p)) /\ UNCHANGED provider
        BY <1>c, <2>1, <2>4, LeavingIsPassive DEF Effect
    <2>5. CASE run[p].gen # provider /\ GoTo(p, "recover") /\ UNCHANGED <<provider, run>>
        BY <1>a, <2>1, <2>5 DEF GoTo, Alone, Effect, IsRejected, Label
    <2>6. QED
        BY <1>4, <2>2, <2>3, <2>4, <2>5 DEF Refresh
<1>5. CASE Recover(p)
    <2>1. pc[p] = "recover" /\ UNCHANGED <<provider, account>>
        BY <1>5 DEF Recover
    <2>2. CASE Leave(p, "setError")
        <3>1. /\ run' \in [Process -> Run] /\ \A q \in Process : q # p => run'[q] = run[q]
              /\ pc' = [pc EXCEPT ![p] = "unlock"]
              /\ run'[p].next = "setError" /\ run'[p].gen = run[p].gen /\ run'[p].got = 0
            BY <1>d, <2>2, LeaveFacts
        <3>2. pc' \in [Process -> Label] /\ pc'[p] = "unlock"
            BY <1>a, <3>1 DEF Label
        <3>3. QED
            BY <1>a, <1>d, <2>1, <3>1, <3>2 DEF Alone, Effect, Passive, Condemns
    <2>3. CASE \/ Leave(p, "check") \/ Leave(p, AfterError(p))
               \/ LeaveWith(p, account.gen, Unchanged(p))
        BY <1>b, <1>c, <1>d, <2>1, <2>3, LeavingIsPassive DEF Effect
    <2>4. QED
        BY <1>5, <2>2, <2>3 DEF Recover
<1>6. CASE Persist(p)
    <2> DEFINE applies == ~account.grok \/ account.gen = run[p].gen
               failed == IF account.grok THEN "idle" ELSE AfterError(p)
               stored == IF Background(p) THEN "invalidate" ELSE "check"
    <2>a. /\ failed \in Label \cap Nexts /\ failed # "setError"
          /\ failed = "mutex" => run[p].attempt < MaxAttempts
          /\ stored \in Label \cap Nexts /\ stored # "setError" /\ stored # "mutex"
        BY <1>c, <1>d
    <2>b. pc[p] = "persist" /\ UNCHANGED provider
        BY <1>6 DEF Persist
    <2>c. \/ applies /\ account' = [account EXCEPT !.gen = run[p].got] /\ GoTo(p, "durable")
             /\ UNCHANGED run
          \/ applies /\ account' = [account EXCEPT !.gen = run[p].got]
             /\ (LeaveWith(p, run[p].got, stored) \/ Leave(p, failed))
          \/ ~applies /\ LeaveWith(p, account.gen, Unchanged(p)) /\ UNCHANGED account
          \/ LateOrSuffers(p, "lost") /\ Leave(p, failed) /\ UNCHANGED account
        BY <1>6 DEF Persist
    <2> HIDE DEF applies, failed, stored
    <2>d. ASSUME NEW next \in {failed, stored, Unchanged(p)},
                 Leave(p, next) \/ \E g \in 0..MaxGen : LeaveWith(p, g, next)
          PROVE  /\ Alone(p) /\ ~Condemns(p)' /\ pc'[p] = "unlock"
                 /\ run'[p].gen = 0 /\ run'[p].got = 0
        <3>1. /\ next \in Label \cap Nexts /\ next # "setError"
              /\ next = "mutex" => run[p].attempt < MaxAttempts
            BY <1>c, <1>d, <2>a
        <3>2. /\ run' \in [Process -> Run]
              /\ \A q \in Process : q # p => run'[q] = run[q]
              /\ pc' = [pc EXCEPT ![p] = "unlock"]
              /\ run'[p].next = next /\ run'[p].got = 0 /\ run'[p].gen = 0
              /\ run'[p].attempt = run[p].attempt
            BY <2>d, <3>1, LeaveFacts, LeaveWithFacts
        <3>3. pc' \in [Process -> Label] /\ pc'[p] = "unlock"
            BY <1>a, <3>2 DEF Label
        <3>4. QED
            BY <1>a, <3>1, <3>2, <3>3 DEF Alone, Condemns
    <2>1. CASE applies /\ account' = [account EXCEPT !.gen = run[p].got] /\ GoTo(p, "durable")
               /\ UNCHANGED run
        BY <1>a, <2>1, <2>b DEF GoTo, Alone, Effect, Stores, Condemns, Label, applies
    <2>2. CASE applies /\ account' = [account EXCEPT !.gen = run[p].got]
               /\ (LeaveWith(p, run[p].got, stored) \/ Leave(p, failed))
        <3>1. /\ Alone(p) /\ ~Condemns(p)' /\ pc'[p] = "unlock"
              /\ run'[p].gen = 0 /\ run'[p].got = 0
            BY <1>b, <2>2, <2>d
        <3>2. QED
            BY <2>2, <2>b, <3>1 DEF Effect, Stores, applies
    <2>3. CASE ~applies /\ LeaveWith(p, account.gen, Unchanged(p)) /\ UNCHANGED account
        <3>1. /\ Alone(p) /\ ~Condemns(p)' /\ pc'[p] = "unlock"
              /\ run'[p].gen = 0 /\ run'[p].got = 0
            BY <1>b, <2>3, <2>d
        <3>2. QED
            BY <2>3, <2>b, <3>1 DEF Effect, Drops, applies
    <2>4. CASE LateOrSuffers(p, "lost") /\ Leave(p, failed) /\ UNCHANGED account
        <3>1. /\ Alone(p) /\ ~Condemns(p)' /\ pc'[p] = "unlock"
              /\ run'[p].gen = 0 /\ run'[p].got = 0
            BY <2>4, <2>d
        <3>2. run[p].late \/ troubles'["lost"] > 0
            BY <2>4, SufferCounts DEF LateOrSuffers, Trouble
        <3>3. QED
            BY <2>4, <2>b, <3>1, <3>2 DEF Effect, Drops
    <2>5. QED
        BY <2>c, <2>1, <2>2, <2>3, <2>4
<1>7. CASE LoadDurable(p)
    <2>1. /\ pc[p] = "durable" /\ UNCHANGED <<provider, account>>
          /\ Leave(p, "invalidate") \/ Leave(p, "idle")
        BY <1>7 DEF LoadDurable
    <2>2. QED
        BY <1>d, <2>1, LeavingIsPassive DEF Effect
<1>8. CASE ReleaseRefreshLock(p)
    <2> DEFINE kept == CASE run[p].next = "idle"  -> NoRun
                         [] run[p].next = "mutex" -> [NoRun EXCEPT !.attempt = run[p].attempt + 1]
                         [] OTHER -> [NoRun EXCEPT !.own = run[p].own, !.gen = run[p].gen]
    <2>1. /\ pc[p] = "unlock" /\ UNCHANGED <<provider, account>>
          /\ pc' = [pc EXCEPT ![p] = run[p].next] /\ run' = [run EXCEPT ![p] = kept]
        BY <1>8 DEF ReleaseRefreshLock, GoTo
    <2>2. /\ kept \in Run /\ kept.next = "idle" /\ kept.got = 0
          /\ kept.gen = 0 \/ kept.gen = run[p].gen
          /\ run[p].next = "setError" => kept.gen = run[p].gen
        <3>1. CASE run[p].next = "idle"
            BY <3>1, RunType DEF NoRun
        <3>2. CASE run[p].next = "mutex"
            <4>1. run[p].attempt + 1 \in 0..MaxAttempts
                BY <1>a, <3>2, RunType, RefreshAssumption
            <4>2. kept = [NoRun EXCEPT !.attempt = run[p].attempt + 1]
                BY <3>2
            <4>3. QED
                BY <3>2, <4>1, <4>2, RunType DEF NoRun, Run
        <3>3. CASE run[p].next \notin {"idle", "mutex"}
            <4>1. kept = [NoRun EXCEPT !.own = run[p].own, !.gen = run[p].gen]
                BY <3>3
            <4>2. QED
                BY <3>3, <4>1, RunType DEF NoRun, Run
        <3>4. QED
            BY <3>1, <3>2, <3>3
    <2> HIDE DEF kept
    <2>3. /\ run' \in [Process -> Run] /\ \A q \in Process : q # p => run'[q] = run[q]
          /\ run'[p] = kept
        BY <1>a, <2>1, <2>2
    <2>4. /\ pc' \in [Process -> Label] /\ pc'[p] = run[p].next
          /\ \A q \in Process : q # p => pc'[q] = pc[q]
        BY <1>a, <2>1, RunType
    <2>5. run[p].next \notin {"refresh", "persist", "unlock", "recover"}
        BY <1>a DEF Nexts
    <2>6. Alone(p)
        BY <2>2, <2>3, <2>4, <2>5 DEF Alone, Nexts
    <2>7. Passive(p)
        BY <2>1, <2>2, <2>3, <2>4, <2>5 DEF Passive, Condemns
    <2>8. QED
        BY <2>6, <2>7 DEF Effect
<1>9. QED
    BY <1>1, <1>2, <1>3, <1>4, <1>5, <1>6, <1>7, <1>8 DEF RefreshIfNeeded

\* So does each step of a process.
LEMMA StepEffect ==
    ASSUME TypeOK, NextInv, OrderInv, NEW p \in Process, Step(p)
    PROVE  Alone(p) /\ Effect(p)
<1>a. /\ pc \in [Process -> Label] /\ run \in [Process -> Run]
      /\ run[p].next \in Nexts
      /\ run[p].next = "mutex" => run[p].attempt < MaxAttempts
      /\ pc[p] # "unlock" => run[p].next = "idle"
    BY DEF TypeOK, NextInv
<1>b. /\ NoRun.next = "idle" /\ NoRun.gen = 0 /\ NoRun.got = 0 /\ "idle" \in Nexts
    BY DEF NoRun, Nexts
<1>c. ASSUME NEW label \in Label \ {"refresh", "persist", "unlock", "recover", "setError"},
             GoTo(p, label), UNCHANGED <<provider, account>>, pc[p] \notin {"persist", "unlock"},
             UNCHANGED run \/ run' = [run EXCEPT ![p] = NoRun]
      PROVE  Alone(p) /\ Effect(p)
    <2>1. /\ pc' \in [Process -> Label] /\ pc'[p] = label
          /\ \A q \in Process : q # p => pc'[q] = pc[q]
        BY <1>a, <1>c DEF GoTo
    <2>2. /\ run' \in [Process -> Run] /\ \A q \in Process : q # p => run'[q] = run[q]
          /\ run'[p] = run[p] \/ run'[p] = NoRun
        BY <1>a, <1>c, ForgetFacts
    <2>3. Alone(p)
        BY <1>a, <1>b, <1>c, <2>1, <2>2 DEF Alone
    <2>4. Passive(p)
        BY <1>a, <1>b, <1>c, <2>1, <2>2 DEF Passive, Condemns
    <2>5. QED
        BY <2>3, <2>4 DEF Effect
<1>d. ASSUME NEW label \in Label \ {"refresh", "persist", "unlock", "recover", "setError"},
             GoTo(p, label), UNCHANGED <<provider, account>>, pc[p] \notin {"persist", "unlock"},
             run' \in [Process -> Run], \A q \in Process : q # p => run'[q] = run[q],
             run'[p].next = run[p].next, run'[p].gen = run[p].gen, run'[p].got = run[p].got
      PROVE  Alone(p) /\ Effect(p)
    <2>1. /\ pc' \in [Process -> Label] /\ pc'[p] = label
          /\ \A q \in Process : q # p => pc'[q] = pc[q]
        BY <1>a, <1>d DEF GoTo
    <2>2. QED
        BY <1>a, <1>d, <2>1 DEF Alone, Effect, Passive, Condemns
<1>1. CASE RefreshIfNeeded(p)
    BY <1>1, RefreshEffect
<1>2. CASE StartBackground(p)
    <2>1. run' = [run EXCEPT ![p] = [run[p] EXCEPT !.attempt = 1]] /\ run[p] \in Run
        BY <1>2, <1>a DEF StartBackground
    <2>2. 1 \in 0..MaxAttempts
        BY RefreshAssumption
    <2>3. /\ run' \in [Process -> Run] /\ \A q \in Process : q # p => run'[q] = run[q]
          /\ run'[p].next = run[p].next /\ run'[p].gen = run[p].gen /\ run'[p].got = run[p].got
        BY <1>a, <2>1, <2>2 DEF Run
    <2>4. QED
        BY <1>2, <1>d, <2>3 DEF StartBackground, Label
<1>3. CASE SetError(p)
    <2>1. CASE /\ ~account.grok \/ (account.gen = run[p].gen /\ account.status = "active")
               /\ account' = [account EXCEPT !.status = "error"]
               /\ GoTo(p, "invalidate") /\ run' = [run EXCEPT ![p] = NoRun]
        <3>1. /\ pc' \in [Process -> Label] /\ pc'[p] = "invalidate"
              /\ \A q \in Process : q # p => pc'[q] = pc[q]
            BY <1>a, <2>1 DEF GoTo, Label
        <3>2. /\ run' \in [Process -> Run] /\ \A q \in Process : q # p => run'[q] = run[q]
              /\ run'[p] = NoRun
            BY <2>1, ForgetFacts
        <3>3. pc[p] = "setError" /\ UNCHANGED provider
            BY <1>3 DEF SetError
        <3>4. QED
            BY <1>b, <2>1, <3>1, <3>2, <3>3 DEF Alone, Effect, Disables
    <2>2. QED
        BY <1>3, <1>c, <2>1 DEF SetError, Stop, Label
<1>4. CASE InvalidateToken(p)
    BY <1>4, <1>c DEF InvalidateToken, Stop, Label
<1>5. CASE StartRequest(p)
    <2>1. run' = [run EXCEPT ![p] = [run[p] EXCEPT !.own = account.gen]] /\ run[p] \in Run
        BY <1>5, <1>a DEF StartRequest
    <2>2. account.gen \in 0..MaxGen
        BY RefreshAssumption DEF TypeOK, Account, Gen
    <2>3. /\ run' \in [Process -> Run] /\ \A q \in Process : q # p => run'[q] = run[q]
          /\ run'[p].next = run[p].next /\ run'[p].gen = run[p].gen /\ run'[p].got = run[p].got
        BY <1>a, <2>1, <2>2 DEF Run
    <2>4. QED
        BY <1>5, <1>d, <2>3 DEF StartRequest, Label
<1>6. CASE LookUp(p)
    BY <1>6, <1>c DEF LookUp, Stop, Label
<1>7. CASE WaitForCache(p)
    BY <1>7, <1>c DEF WaitForCache, Stop, Label
<1>8. CASE CheckTokenVersion(p)
    BY <1>8, <1>c DEF CheckTokenVersion, Stop, Label
<1>9. CASE SetAccessToken(p)
    BY <1>9, <1>c DEF SetAccessToken, Stop, Label
<1>10. QED
    BY <1>1, <1>2, <1>3, <1>4, <1>5, <1>6, <1>7, <1>8, <1>9 DEF Step

\* What else happens: time, Redis, a crash, the administrator.
LEMMA NextCases ==
    ASSUME Next
    PROVE  \/ \E p \in Process : Step(p)
           \/ \E i \in Instances : Crash(i)
           \/ Authorize \/ StartManualRefresh \/ AdminStep
           \/ TokenExpires \/ CacheExpires \/ LockExpires
BY DEF Next, BackgroundStep, RequestStep, Step, Process

\* Processes keep what they know of the credentials, or forget it.
Calm ==
    \A p \in Process :
        \/ pc'[p] = "idle" /\ run'[p] = NoRun
        \/ /\ pc'[p] = pc[p]
           /\ run'[p].gen = run[p].gen /\ run'[p].got = run[p].got
           /\ run'[p].next = run[p].next /\ run'[p].attempt = run[p].attempt

\* A crash is a lost result, and its processes start over.
LEMMA CrashFacts ==
    ASSUME TypeOK, NEW i \in Instances, Crash(i)
    PROVE  /\ Calm /\ Remainder /\ troubles'["lost"] > 0
           /\ run' \in [Process -> Run] /\ pc' \in [Process -> Label]
           /\ UNCHANGED <<provider, account>>
<1>1. /\ troubles' \in [Trouble -> 0..MaxTroubles] /\ troubles'["lost"] > 0
      /\ \A t \in Trouble : troubles[t] > 0 => troubles'[t] > 0
    BY SufferCounts DEF Crash, Trouble
<1>2. mutex' \in [Instances -> Process \cup {Nobody}]
    BY DEF Crash, TypeOK
<1>3. Remainder
    BY <1>1, <1>2 DEF Remainder, Crash, TypeOK
<1>4. \A p \in Process : /\ pc'[p] = IF Home(p) = i THEN "idle" ELSE pc[p]
                         /\ run'[p] = IF Home(p) = i THEN NoRun ELSE run[p]
    BY DEF Crash
<1>5. Calm
    BY <1>4 DEF Calm
<1>6. run' \in [Process -> Run] /\ pc' \in [Process -> Label]
    BY RunType DEF Crash, TypeOK, Label
<1>7. QED
    BY <1>1, <1>3, <1>5, <1>6 DEF Crash

\* When the lock expires under its holder, the lease is lost.
LEMMA LockExpiresFacts ==
    ASSUME TypeOK, LockExpires
    PROVE  /\ Calm /\ Remainder /\ lock \in Process
           /\ run' \in [Process -> Run] /\ UNCHANGED <<pc, provider, account>>
           /\ run[lock].locked => troubles'["lease"] > 0
           /\ \A p \in Process : /\ run'[p].locked = run[p].locked
                                 /\ run'[p].late => run[p].late \/ troubles'["lease"] > 0
<1>1. lock \in Process /\ run[lock] \in Run /\ run \in [Process -> Run]
    BY DEF LockExpires, TypeOK
<1>2. /\ troubles' \in [Trouble -> 0..MaxTroubles]
      /\ \A t \in Trouble : troubles[t] > 0 => troubles'[t] > 0
      /\ run[lock].locked => troubles'["lease"] > 0
    BY SufferCounts DEF LockExpires, Trouble, TypeOK
<1>3. Remainder
    BY <1>2 DEF Remainder, LockExpires, TypeOK
<1>4. CASE run' = run
    BY <1>1, <1>2, <1>3, <1>4 DEF LockExpires, Calm
<1>5. CASE run[lock].locked /\ run' = [run EXCEPT ![lock].late = TRUE]
    <2>1. run' = [run EXCEPT ![lock] = [run[lock] EXCEPT !.late = TRUE]]
        BY <1>1, <1>5
    <2>2. /\ run' \in [Process -> Run] /\ \A q \in Process : q # lock => run'[q] = run[q]
          /\ run'[lock].next = run[lock].next /\ run'[lock].attempt = run[lock].attempt
          /\ run'[lock].gen = run[lock].gen /\ run'[lock].got = run[lock].got
          /\ run'[lock].locked = run[lock].locked
        BY <1>1, <2>1 DEF Run
    <2>3. QED
        BY <1>1, <1>2, <1>3, <1>5, <2>2 DEF LockExpires, Calm
<1>6. QED
    BY <1>4, <1>5 DEF LockExpires

-----------------------------------------------------------------------------
(* What the administrator does to the credentials                          *)

\* A refresh by hand reads the account.
AdminReads ==
    /\ admin'.step = "refresh" /\ admin'.manual /\ admin'.gen = account.gen
    /\ admin.step = "idle"
    /\ UNCHANGED <<provider, account, uncleared>>

\* The provider gives it new credentials.
AdminRotates ==
    /\ admin.step = "refresh" /\ admin'.step = "load" /\ admin'.manual = admin.manual
    /\ admin.gen = provider /\ provider' = provider + 1 /\ admin'.gen = provider + 1
    /\ ~crossed' => \A p \in Process : pc[p] # "refresh"
    /\ UNCHANGED <<account, uncleared>>

\* They are lost.
AdminLoses ==
    /\ admin.step = "refresh" /\ admin'.step = "idle" /\ admin'.gen = 0
    /\ admin.gen = provider /\ provider' = provider + 1
    /\ troubles'["lost"] > 0
    /\ UNCHANGED <<account, uncleared>>

\* UpdateAccount reads the row.
AdminLoads ==
    /\ admin.step = "load" /\ admin'.step = "store"
    /\ admin'.manual = admin.manual /\ admin'.gen = admin.gen /\ admin'.status = account.status
    /\ UNCHANGED <<provider, account, uncleared>>

\* UpdateAccount writes the row.
AdminStores ==
    /\ admin.step = "store" /\ admin'.step \in {"idle", "clear", "invalidate"} /\ admin'.gen = 0
    /\ admin.manual => admin'.step # "clear"
    /\ account'.gen = admin.gen /\ account'.status = admin.status
    /\ admin.status = "error" /\ (uncleared \/ ~admin.manual) => uncleared'
    /\ UNCHANGED provider

\* The error is cleared.
AdminClears ==
    /\ admin.step = "clear" /\ admin'.step = "invalidate" /\ admin'.gen <= provider
    /\ account'.gen = account.gen /\ account'.status = "active"
    /\ UNCHANGED provider

\* The rest leaves the credentials and the account alone; those that are not stored are
\* lost.
AdminEnds ==
    /\ admin'.step \in {"idle", "invalidate"} /\ admin'.gen <= provider
    /\ Applying => troubles'["lost"] > 0
    /\ UNCHANGED <<provider, account, uncleared>>

AdminEffect ==
    \/ AdminReads \/ AdminRotates \/ AdminLoses \/ AdminLoads \/ AdminStores \/ AdminClears
    \/ AdminEnds

AdminRemainder ==
    /\ troubles' \in [Trouble -> 0..MaxTroubles]
    /\ \A t \in Trouble : troubles[t] > 0 => troubles'[t] > 0
    /\ cache' \in BOOLEAN /\ uncleared' \in BOOLEAN
    /\ crossed' \in BOOLEAN /\ (crossed => crossed')
    /\ provider' \in Gen /\ manual' \subseteq Gen /\ admin' \in Admin /\ account' \in Account
    /\ account'.grok = account.grok
    /\ UNCHANGED <<granted, due, lock, mutex, pc, run>>

\* The steps of UpdateAccount, the only ones that write credentials by hand.
LEMMA UpdateFacts ==
    ASSUME TypeOK, OrderInv, UpdateAccount
    PROVE  AdminEffect /\ AdminRemainder
<1>a. /\ admin \in Admin /\ account \in Account /\ provider \in Gen /\ MaxGen \in Nat
      /\ NoAdmin \in Admin /\ NoAdmin.step = "idle" /\ NoAdmin.gen = 0 /\ 0 <= provider
    BY RefreshAssumption DEF TypeOK, NoAdmin, Admin, Gen
<1>b. UNCHANGED <<provider, granted, manual, crossed, due, cache, lock, mutex, pc, run>>
    BY DEF UpdateAccount
<1>c. \A t \in Trouble : Suffer(t) =>
          /\ troubles' \in [Trouble -> 0..MaxTroubles] /\ troubles'[t] > 0
          /\ \A u \in Trouble : troubles[u] > 0 => troubles'[u] > 0
    BY SufferCounts
<1>d. UNCHANGED troubles =>
          /\ troubles' \in [Trouble -> 0..MaxTroubles]
          /\ \A u \in Trouble : troubles[u] > 0 => troubles'[u] > 0
    BY DEF TypeOK
<1>1. CASE /\ admin.step = "load" /\ UNCHANGED <<account, uncleared, troubles>>
           /\ admin' = [admin EXCEPT !.step = "store", !.status = account.status]
    <2>1. /\ admin' \in Admin /\ admin'.step = "store" /\ admin'.manual = admin.manual
          /\ admin'.gen = admin.gen /\ admin'.status = account.status
        BY <1>1, <1>a DEF Admin, Account
    <2>2. AdminLoads
        BY <1>1, <1>b, <2>1 DEF AdminLoads
    <2>3. QED
        BY <1>1, <1>a, <1>b, <1>d, <2>1, <2>2 DEF AdminEffect, AdminRemainder, TypeOK
<1>2. CASE Suffer("lost") /\ admin' = NoAdmin /\ UNCHANGED <<account, uncleared>>
    <2>1. AdminEnds
        BY <1>2, <1>a, <1>b, <1>c DEF AdminEnds, Trouble
    <2>2. QED
        BY <1>2, <1>a, <1>b, <1>c, <2>1 DEF AdminEffect, AdminRemainder, TypeOK, Trouble
<1>3. CASE /\ admin.step = "store"
           /\ account' = [account EXCEPT !.gen = admin.gen, !.status = admin.status]
           /\ uncleared' = (admin.status = "error" /\ (uncleared \/ ~admin.manual))
           /\ \/ /\ admin' = [NoAdmin EXCEPT !.step = IF admin.manual THEN "invalidate"
                                                                   ELSE "clear"]
                 /\ UNCHANGED troubles
              \/ Suffer("fail") /\ admin' = NoAdmin
    <2>1. /\ admin' \in Admin /\ admin'.gen = 0
          /\ admin'.step \in {"idle", "clear", "invalidate"}
          /\ admin.manual => admin'.step # "clear"
        BY <1>3, <1>a DEF NoAdmin, Admin
    <2>2. admin.gen \in Gen
        BY <1>3, <1>a DEF OrderInv, Applying
    <2>3. admin.status \in {"active", "error"}
        BY <1>3 DEF OrderInv
    <2>4. /\ account' \in Account /\ account'.grok = account.grok
          /\ account'.gen = admin.gen /\ account'.status = admin.status
        BY <1>3, <1>a, <2>2, <2>3 DEF Account
    <2>5. uncleared' \in BOOLEAN
        BY <1>3
    <2>6. AdminStores
        BY <1>3, <1>b, <2>1, <2>4 DEF AdminStores
    <2>7. /\ troubles' \in [Trouble -> 0..MaxTroubles]
          /\ \A t \in Trouble : troubles[t] > 0 => troubles'[t] > 0
        BY <1>3, <1>c, <1>d DEF Trouble
    <2>8. QED
        BY <1>b, <2>1, <2>4, <2>5, <2>6, <2>7 DEF AdminEffect, AdminRemainder, TypeOK
<1>4. QED
    BY <1>1, <1>2, <1>3 DEF UpdateAccount

\* Each step of an administrator's request does one of these things.
LEMMA AdminFacts ==
    ASSUME TypeOK, OrderInv, StartManualRefresh \/ AdminStep
    PROVE  AdminEffect /\ AdminRemainder
<1>a. /\ admin \in Admin /\ account \in Account /\ provider \in Gen /\ MaxGen \in Nat
      /\ NoAdmin \in Admin /\ NoAdmin.step = "idle" /\ NoAdmin.gen = 0 /\ 0 <= provider
      /\ admin.gen <= provider
    BY RefreshAssumption DEF TypeOK, NoAdmin, Admin, Gen, OrderInv
<1>c. \A t \in Trouble : Suffer(t) =>
          /\ troubles' \in [Trouble -> 0..MaxTroubles] /\ troubles'[t] > 0
          /\ \A u \in Trouble : troubles[u] > 0 => troubles'[u] > 0
    BY SufferCounts
<1>d. UNCHANGED troubles =>
          /\ troubles' \in [Trouble -> 0..MaxTroubles]
          /\ \A u \in Trouble : troubles[u] > 0 => troubles'[u] > 0
    BY DEF TypeOK
<1>1. CASE StartManualRefresh
    <2>1. /\ admin' \in Admin /\ admin'.step = "refresh" /\ admin'.manual
          /\ admin'.gen = account.gen
        <3>1. admin' = [step |-> "refresh", manual |-> TRUE, gen |-> account.gen,
                        status |-> "none"]
            BY <1>1 DEF StartManualRefresh, NoAdmin
        <3>2. account.gen \in 0..MaxGen
            BY <1>a DEF Account, Gen
        <3>3. QED
            BY <3>1, <3>2 DEF Admin
    <2>2. AdminReads
        BY <1>1, <2>1 DEF StartManualRefresh, AdminReads
    <2>3. QED
        BY <1>1, <1>a, <1>d, <2>1, <2>2 DEF StartManualRefresh, AdminEffect, AdminRemainder, TypeOK
<1>2. CASE RefreshSingleAccount
    <2>a. UNCHANGED <<account, granted, uncleared, due, cache, lock, mutex, pc, run>>
        BY <1>2 DEF RefreshSingleAccount
    <2>b. admin.step = "refresh"
        BY <1>2 DEF RefreshSingleAccount
    <2>1. CASE /\ admin.gen = provider /\ provider < MaxGen
               /\ provider' = provider + 1
               /\ manual' = manual \cup {provider'}
               /\ admin' = [admin EXCEPT !.step = "load", !.gen = provider']
               /\ crossed' = (crossed \/ \E p \in Process : pc[p] = "refresh")
               /\ UNCHANGED troubles
        <3>1. provider' \in Gen /\ manual' \subseteq Gen
            BY <2>1, <1>a DEF TypeOK, Gen
        <3>2. /\ admin' \in Admin /\ admin'.step = "load" /\ admin'.manual = admin.manual
              /\ admin'.gen = provider + 1
            <4>1. admin' = [admin EXCEPT !.step = "load", !.gen = provider'] /\ provider' \in 0..MaxGen
                BY <2>1, <3>1, <1>a DEF Gen
            <4>2. QED
                BY <2>1, <4>1, <1>a DEF Admin
        <3>3. /\ crossed' \in BOOLEAN /\ (crossed => crossed')
              /\ ~crossed' => \A p \in Process : pc[p] # "refresh"
            BY <2>1
        <3>4. AdminRotates
            BY <2>1, <2>a, <2>b, <3>2, <3>3 DEF AdminRotates
        <3>5. QED
            BY <1>a, <1>d, <2>1, <2>a, <3>1, <3>2, <3>3, <3>4
            DEF AdminEffect, AdminRemainder, TypeOK
    <2>2. CASE /\ admin.gen = provider /\ provider < MaxGen
               /\ provider' = provider + 1
               /\ Suffer("lost") /\ admin' = NoAdmin /\ UNCHANGED <<manual, crossed>>
        <3>1. provider' \in Gen
            BY <2>2, <1>a DEF Gen
        <3>2. AdminLoses
            BY <2>2, <2>a, <2>b, <1>a, <1>c DEF AdminLoses, Trouble
        <3>3. QED
            BY <1>a, <1>c, <2>2, <2>a, <3>1, <3>2
            DEF AdminEffect, AdminRemainder, TypeOK, Trouble
    <2>3. CASE /\ IF admin.gen = provider THEN Suffer("fail") ELSE UNCHANGED troubles
               /\ admin' = NoAdmin /\ UNCHANGED <<provider, manual, crossed>>
        <3>1. AdminEnds
            BY <2>3, <2>a, <2>b, <1>a DEF AdminEnds, Applying
        <3>2. /\ troubles' \in [Trouble -> 0..MaxTroubles]
              /\ \A t \in Trouble : troubles[t] > 0 => troubles'[t] > 0
            BY <2>3, <1>c, <1>d DEF Trouble
        <3>3. QED
            BY <1>a, <2>3, <2>a, <3>1, <3>2 DEF AdminEffect, AdminRemainder, TypeOK
    <2>4. QED
        BY <1>2, <2>1, <2>2, <2>3 DEF RefreshSingleAccount
<1>3. CASE ClearAccountError
    <2>1. /\ admin' \in Admin /\ admin'.step = "invalidate" /\ admin'.gen <= provider
        BY <1>3, <1>a DEF ClearAccountError, Admin
    <2>2. CASE /\ account' = [account EXCEPT !.status = "active"]
               /\ uncleared' = FALSE /\ UNCHANGED troubles
        <3>1. /\ account' \in Account /\ account'.grok = account.grok
              /\ account'.gen = account.gen /\ account'.status = "active"
            BY <2>2, <1>a DEF Account
        <3>2. AdminClears
            BY <1>3, <2>1, <3>1 DEF ClearAccountError, AdminClears
        <3>3. QED
            BY <1>3, <1>d, <2>1, <2>2, <3>1, <3>2
            DEF ClearAccountError, AdminEffect, AdminRemainder, TypeOK
    <2>3. CASE Suffer("fail") /\ UNCHANGED <<account, uncleared>>
        <3>1. AdminEnds
            BY <1>3, <2>1, <2>3 DEF ClearAccountError, AdminEnds, Applying
        <3>2. QED
            BY <1>3, <1>c, <2>1, <2>3, <3>1
            DEF ClearAccountError, AdminEffect, AdminRemainder, TypeOK, Trouble
    <2>4. QED
        BY <1>3, <2>2, <2>3 DEF ClearAccountError
<1>4. CASE EndAdminRequest
    <2>1. /\ troubles' \in [Trouble -> 0..MaxTroubles]
          /\ \A t \in Trouble : troubles[t] > 0 => troubles'[t] > 0
          /\ cache' \in BOOLEAN
          /\ Applying => troubles'["lost"] > 0
        BY <1>4, <1>c, <1>d DEF EndAdminRequest, TypeOK, Trouble, Applying
    <2>2. AdminEnds
        BY <1>4, <1>a, <2>1 DEF EndAdminRequest, AdminEnds
    <2>3. QED
        BY <1>4, <1>a, <2>1, <2>2 DEF EndAdminRequest, AdminEffect, AdminRemainder, TypeOK
<1>5. CASE UpdateAccount
    BY <1>5, UpdateFacts
<1>6. QED
    BY <1>1, <1>2, <1>3, <1>4, <1>5 DEF AdminStep

-----------------------------------------------------------------------------
\* The types, the places to go on at, and the order of the credentials.
LEMMA TypeStep ==
    ASSUME TypeOK, NextInv, OrderInv, Next
    PROVE  TypeOK' /\ NextInv'
<1>a. /\ provider \in Gen /\ account \in Account /\ MaxGen \in Nat
      /\ due \in 0..MaxGen
    BY RefreshAssumption DEF TypeOK
<1>1. ASSUME NEW p \in Process, Step(p)
      PROVE  TypeOK' /\ NextInv'
    <2>1. Alone(p) /\ Effect(p) /\ Remainder
        BY <1>1, StepEffect, StepRemainder
    <2>2. provider' \in Gen
        <3>1. Rotates(p) \/ Loses(p) => provider' = provider + 1 /\ provider <= due
            BY DEF Rotates, Loses, OrderInv
        <3>2. UNCHANGED provider \/ Rotates(p) \/ Loses(p)
            BY <2>1 DEF Effect, Passive, Reads, IsRejected, Stores, Drops, Disables
        <3>3. QED
            BY <1>a, <3>1, <3>2 DEF OrderInv, Gen
    <2>3. account' \in Account
        <3>1. \/ UNCHANGED account
              \/ /\ account' = [account EXCEPT !.gen = run[p].got]
                 /\ run[p].gen < run[p].got
              \/ account' = [account EXCEPT !.status = "error"]
            BY <2>1 DEF Effect, Passive, Reads, Rotates, Loses, IsRejected, Stores, Drops, Disables,
                        OrderInv, Persisting
        <3>2. run[p].gen < run[p].got => run[p].got \in Gen
            BY <1>a, RunType DEF Gen
        <3>3. QED
            BY <1>a, <3>1, <3>2 DEF Account
    <2>4. TypeOK'
        BY <2>1, <2>2, <2>3 DEF TypeOK, Alone, Remainder
    <2>5. NextInv'
        BY <2>1 DEF NextInv, Alone
    <2>6. QED
        BY <2>4, <2>5
<1>2. ASSUME NEW i \in Instances, Crash(i)
      PROVE  TypeOK' /\ NextInv'
    <2>1. TypeOK'
        BY <1>2, CrashFacts DEF TypeOK, Remainder
    <2>2. NextInv'
        BY <1>2, CrashFacts DEF NextInv, Calm, NoRun, Nexts
    <2>3. QED
        BY <2>1, <2>2
<1>3. CASE Authorize
    <2>1. provider' \in Gen /\ granted' \subseteq Gen
        BY <1>3, <1>a DEF Authorize, Gen, TypeOK
    <2>a. admin' = [step |-> "load", manual |-> FALSE, gen |-> provider', status |-> "none"]
        BY <1>3 DEF Authorize, NoAdmin
    <2>b. admin' \in Admin
        BY <1>a, <2>1, <2>a DEF Admin, Gen
    <2>2. QED
        BY <1>3, <2>1, <2>b DEF Authorize, TypeOK, NextInv
<1>4. CASE StartManualRefresh \/ AdminStep
    <2>1. AdminRemainder
        BY <1>4, AdminFacts
    <2>2. TypeOK'
        BY <2>1 DEF AdminRemainder, TypeOK
    <2>3. NextInv'
        BY <2>1 DEF AdminRemainder, NextInv
    <2>4. QED
        BY <2>2, <2>3
<1>5. CASE TokenExpires
    BY <1>5, <1>a DEF TokenExpires, TypeOK, NextInv, Account, Gen
<1>6. CASE CacheExpires
    BY <1>6, <1>a DEF CacheExpires, TypeOK, NextInv
<1>7. CASE LockExpires
    <2>1. TypeOK'
        BY <1>7, LockExpiresFacts DEF TypeOK, Remainder
    <2>2. NextInv'
        BY <1>7, LockExpiresFacts DEF NextInv, Calm, NoRun, Nexts
    <2>3. QED
        BY <2>1, <2>2
<1>8. QED
    BY <1>1, <1>2, <1>3, <1>4, <1>5, <1>6, <1>7, NextCases

\* The numbers are integers.
LEMMA Numbers ==
    ASSUME TypeOK
    PROVE  /\ provider \in Int /\ account.gen \in Int /\ due \in Int /\ MaxGen \in Int
           /\ admin.gen \in Int /\ 0 <= due /\ 0 < provider /\ 0 < account.gen
           /\ \A p \in Process : run[p].gen \in Int /\ run[p].got \in Int
           /\ \A p \in Process : 0 <= run[p].gen /\ 0 <= run[p].got
BY RunType, RefreshAssumption DEF TypeOK, Gen, Account, Admin

\* Nobody knows credentials before the provider gives them out.
LEMMA OrderStep ==
    ASSUME TypeOK, NextInv, OrderInv, Next
    PROVE  OrderInv'
<1>a. /\ provider \in Int /\ account.gen \in Int /\ due \in Int /\ MaxGen \in Int
      /\ admin.gen \in Int /\ 0 <= due /\ 0 < provider
      /\ \A p \in Process : run[p].gen \in Int /\ run[p].got \in Int
    BY Numbers
<1>b. /\ account.gen <= provider /\ due <= provider /\ due < MaxGen
      /\ \A p \in Process : run[p].gen <= due /\ run[p].got <= provider
      /\ \A p \in Process : pc[p] = "persist" => run[p].gen < run[p].got
      /\ admin.gen <= provider
      /\ admin.step = "store" => admin.status \in {"active", "error"}
      /\ Applying =>
            /\ admin.gen = provider /\ account.gen < provider
            /\ \A p \in Process : run[p].gen < provider /\ run[p].got < provider
    BY DEF OrderInv, Persisting
<1>c. \A g : account' = [account EXCEPT !.gen = g] => account'.gen = g
    BY DEF TypeOK, Account
<1>d. account' = [account EXCEPT !.status = "error"] => account'.gen = account.gen
    BY DEF TypeOK, Account
<1>1. ASSUME NEW p \in Process, Step(p)
      PROVE  OrderInv'
    <2>1. Alone(p) /\ Effect(p) /\ UNCHANGED <<admin, due>>
        BY <1>1, StepEffect, StepRemainder DEF Remainder
    <2>2. \A q \in Process : q # p => /\ run'[q].gen = run[q].gen /\ run'[q].got = run[q].got
                                      /\ pc'[q] = pc[q]
        BY <2>1 DEF Alone
    <2>3. CASE Passive(p) \/ IsRejected(p) \/ Drops(p)
        <3>1. /\ UNCHANGED <<provider, account>> /\ pc'[p] # "persist"
              /\ run'[p].gen \in {0, run[p].gen} /\ run'[p].got \in {0, run[p].got}
            BY <2>3 DEF Passive, IsRejected, Drops
        <3>2. QED
            BY <1>a, <1>b, <2>1, <2>2, <3>1 DEF OrderInv, Persisting, Applying
    <2>4. CASE Reads(p)
        BY <1>a, <1>b, <2>1, <2>2, <2>4 DEF Reads, NeedsRefresh, OrderInv, Persisting, Applying
    <2>5. CASE Rotates(p) \/ Loses(p)
        <3>1. /\ provider' = provider + 1 /\ run[p].gen = provider /\ UNCHANGED account
              /\ run'[p].gen \in {0, run[p].gen} /\ run'[p].got \in {0, provider + 1}
              /\ pc'[p] = "persist" => run'[p].gen = provider /\ run'[p].got = provider + 1
            BY <2>5 DEF Rotates, Loses
        <3>2. ~Applying /\ ~Applying'
            BY <1>a, <1>b, <2>1, <3>1 DEF Applying
        <3>3. QED
            BY <1>a, <1>b, <2>1, <2>2, <3>1, <3>2 DEF OrderInv, Persisting, Applying
    <2>6. CASE Stores(p)
        <3>1. /\ account'.gen = run[p].got /\ UNCHANGED provider /\ pc'[p] # "persist"
              /\ run'[p].gen \in {0, run[p].gen} /\ run'[p].got \in {0, run[p].got}
            BY <1>c, <2>6 DEF Stores
        <3>2. QED
            BY <1>a, <1>b, <2>1, <2>2, <3>1 DEF OrderInv, Persisting, Applying
    <2>7. CASE Disables(p)
        <3>1. /\ account'.gen = account.gen /\ UNCHANGED provider /\ pc'[p] # "persist"
              /\ run'[p].gen = 0 /\ run'[p].got = 0
            BY <1>d, <2>7 DEF Disables
        <3>2. QED
            BY <1>a, <1>b, <2>1, <2>2, <3>1 DEF OrderInv, Persisting, Applying
    <2>8. QED
        BY <2>1, <2>3, <2>4, <2>5, <2>6, <2>7 DEF Effect
<1>2. ASSUME Calm, UNCHANGED <<provider, account, admin>>,
             due' = due \/ (provider < MaxGen /\ due < account.gen /\ due' = account.gen)
      PROVE  OrderInv'
    <2>1. \A p \in Process : /\ run'[p].gen \in {0, run[p].gen} /\ run'[p].got \in {0, run[p].got}
                             /\ pc'[p] = "persist" => /\ pc[p] = "persist"
                                                      /\ run'[p].gen = run[p].gen
                                                      /\ run'[p].got = run[p].got
        BY <1>2 DEF Calm, NoRun
    <2>2. QED
        BY <1>a, <1>b, <1>2, <2>1 DEF OrderInv, Persisting, Applying
<1>3. CASE Authorize
    <2>1. /\ provider' = provider + 1 /\ UNCHANGED <<account, due, pc, run>>
          /\ admin'.gen = provider + 1 /\ admin'.step = "load"
        BY <1>3 DEF Authorize, NoAdmin
    <2>2. QED
        BY <1>a, <1>b, <2>1 DEF OrderInv, Persisting, Applying
<1>4. CASE StartManualRefresh \/ AdminStep
    <2>1. AdminEffect /\ UNCHANGED <<due, pc, run>>
        BY <1>4, AdminFacts DEF AdminRemainder
    <2>2. account.status \in {"active", "error"}
        BY DEF TypeOK, Account
    <2>3. CASE AdminReads \/ AdminEnds \/ AdminClears \/ AdminLoses
        BY <1>a, <1>b, <2>1, <2>3
        DEF AdminReads, AdminEnds, AdminClears, AdminLoses, OrderInv, Persisting, Applying
    <2>4. CASE AdminRotates
        BY <1>a, <1>b, <2>1, <2>4 DEF AdminRotates, OrderInv, Persisting, Applying
    <2>5. CASE AdminLoads
        BY <1>a, <1>b, <2>1, <2>2, <2>5 DEF AdminLoads, OrderInv, Persisting, Applying
    <2>6. CASE AdminStores
        BY <1>a, <1>b, <2>1, <2>6 DEF AdminStores, OrderInv, Persisting, Applying
    <2>7. QED
        BY <2>1, <2>3, <2>4, <2>5, <2>6 DEF AdminEffect
<1>5. ASSUME UNCHANGED <<pc, run>>
      PROVE  Calm
    BY <1>5 DEF Calm
<1>6. QED
    BY <1>1, <1>2, <1>3, <1>4, <1>5, CrashFacts, LockExpiresFacts, NextCases
    DEF Remainder, TokenExpires, CacheExpires

\* New credentials stay with the process that stores them.
LEMMA FreshStep ==
    ASSUME TypeOK, NextInv, OrderInv, FreshInv, Next
    PROVE  FreshInv'
<1>a. /\ provider \in Int /\ account.gen \in Int /\ due \in Int /\ 0 < account.gen
      /\ admin.gen \in Int /\ 0 < provider
      /\ \A p \in Process : run[p].gen \in Int /\ run[p].got \in Int /\ 0 <= run[p].gen
    BY Numbers
<1>b. /\ account.gen <= provider /\ due <= provider
      /\ \A p \in Process : run[p].gen <= due /\ run[p].got <= provider
      /\ \A p \in Persisting : run[p].gen < run[p].got
      /\ admin.gen <= provider
      /\ Applying => /\ admin.gen = provider
                     /\ \A p \in Process : run[p].got < provider
    BY DEF OrderInv, Persisting
<1>c. \A p \in Persisting :
          /\ p \in Process /\ account.gen # run[p].got
          /\ \A q \in Process : run[q].gen # run[p].got
          /\ \A q \in Persisting :
                run[p].gen = run[q].gen \/ run[p].got = run[q].got => p = q
          /\ admin.step = "refresh" => admin.gen # run[p].got
    BY DEF FreshInv, Persisting
<1>d. \A g : account' = [account EXCEPT !.gen = g] => account'.gen = g
    BY DEF TypeOK, Account
<1>e. account' = [account EXCEPT !.status = "error"] => account'.gen = account.gen
    BY DEF TypeOK, Account
<1>f. ASSUME Persisting' \subseteq Persisting, account'.gen = account.gen, UNCHANGED admin,
             \A q \in Process : run'[q].gen \in {0, account.gen, run[q].gen},
             \A q \in Persisting' : run'[q].gen = run[q].gen /\ run'[q].got = run[q].got
      PROVE  FreshInv'
    BY <1>a, <1>b, <1>c, <1>f DEF FreshInv
<1>1. ASSUME NEW p \in Process, Step(p)
      PROVE  FreshInv'
    <2>1. Alone(p) /\ Effect(p) /\ UNCHANGED admin
        BY <1>1, StepEffect, StepRemainder DEF Remainder
    <2>2. \A q \in Process : q # p => /\ run'[q].gen = run[q].gen /\ run'[q].got = run[q].got
                                      /\ pc'[q] = pc[q]
        BY <2>1 DEF Alone
    <2>3. CASE pc'[p] # "persist" /\ ~Stores(p)
        <3>1. account'.gen = account.gen
            BY <1>e, <2>1, <2>3 DEF Effect, Passive, Reads, Rotates, Loses, IsRejected, Drops, Disables
        <3>2. run'[p].gen \in {0, account.gen, run[p].gen}
            BY <2>1, <2>3 DEF Effect, Passive, Reads, Rotates, Loses, IsRejected, Drops, Disables
        <3>3. QED
            BY <1>f, <2>1, <2>2, <2>3, <3>1, <3>2 DEF Persisting
    <2>4. CASE pc'[p] = "persist"
        <3>1. Rotates(p)
            BY <2>1, <2>4 DEF Effect, Passive, Reads, Loses, IsRejected, Stores, Drops, Disables
        <3>2. /\ UNCHANGED account /\ Persisting' = Persisting \cup {p} /\ p \notin Persisting
              /\ run[p].gen = provider /\ run'[p].gen = provider /\ run'[p].got = provider + 1
            BY <2>2, <3>1 DEF Rotates, Persisting
        <3>3. QED
            BY <1>a, <1>b, <1>c, <2>1, <2>2, <3>2 DEF FreshInv
    <2>5. CASE Stores(p)
        <3>1. /\ p \in Persisting /\ p \notin Persisting' /\ Persisting' \subseteq Persisting
              /\ account'.gen = run[p].got /\ run'[p].gen \in {0, run[p].gen}
            BY <1>d, <2>2, <2>5 DEF Stores, Persisting
        <3>2. QED
            BY <1>a, <1>b, <1>c, <2>1, <2>2, <3>1 DEF FreshInv
    <2>6. QED
        BY <2>3, <2>4, <2>5
<1>2. ASSUME Calm, UNCHANGED <<account, admin>>
      PROVE  FreshInv'
    <2>1. /\ Persisting' \subseteq Persisting
          /\ \A q \in Process : run'[q].gen \in {0, run[q].gen}
          /\ \A q \in Persisting' : run'[q].gen = run[q].gen /\ run'[q].got = run[q].got
        BY <1>2 DEF Calm, NoRun, Persisting
    <2>2. QED
        BY <1>2, <1>f, <2>1
<1>3. CASE Authorize
    <2>1. UNCHANGED <<account, pc, run>> /\ admin'.step # "refresh"
        BY <1>3 DEF Authorize, NoAdmin
    <2>2. QED
        BY <1>c, <2>1 DEF FreshInv, Persisting
<1>4. CASE StartManualRefresh \/ AdminStep
    <2>1. AdminEffect /\ UNCHANGED <<pc, run>>
        BY <1>4, AdminFacts DEF AdminRemainder
    <2>2. /\ \/ account'.gen = account.gen
             \/ Applying /\ account'.gen = admin.gen
          /\ admin'.step = "refresh" => admin'.gen = account.gen /\ UNCHANGED account
        BY <2>1 DEF AdminEffect, AdminReads, AdminRotates, AdminLoses, AdminLoads, AdminStores,
                    AdminClears, AdminEnds, Applying
    <2>3. Persisting' = Persisting
        BY <2>1 DEF Persisting
    <2>4. QED
        BY <1>a, <1>b, <1>c, <2>1, <2>2, <2>3 DEF FreshInv
<1>5. ASSUME UNCHANGED <<pc, run>>
      PROVE  Calm
    BY <1>5 DEF Calm
<1>6. QED
    BY <1>1, <1>2, <1>3, <1>4, <1>5, CrashFacts, LockExpiresFacts, NextCases
    DEF TokenExpires, CacheExpires, Remainder

-----------------------------------------------------------------------------
(* The mutex and the lock                                                  *)

Inside == Critical \cup {"lock", "unlock"}

\* A step that neither takes nor releases anything.
HoldsOn(p) ==
    /\ UNCHANGED <<lock, mutex>>
    /\ run'[p].locked => run[p].locked /\ pc'[p] \in Critical \cup {"unlock"}
    /\ run'[p].late => run[p].late
    /\ pc'[p] \in Inside => pc[p] \in Inside
    /\ pc'[p] \in Critical => pc[p] \in Critical /\ run'[p].locked = run[p].locked

\* Only these steps take or release the mutex or the lock.
LEMMA HoldsOnFacts ==
    ASSUME TypeOK, LockInv, NEW p \in Process, Step(p),
           ~TakeMutex(p), ~AcquireRefreshLock(p), ~ReleaseRefreshLock(p)
    PROVE  HoldsOn(p)
<1>a. pc \in [Process -> Label] /\ run \in [Process -> Run] /\ run[p] \in Run
    BY DEF TypeOK
<1>b. run[p].locked => pc[p] \in Critical \cup {"unlock"}
    BY DEF LockInv
<1>c. NoRun.locked = FALSE /\ NoRun.late = FALSE
    BY DEF NoRun
<1>d. account.gen \in 0..MaxGen /\ run[p].got \in 0..MaxGen
    BY RunType, RefreshAssumption DEF TypeOK, Account, Gen
<1>e. /\ AfterError(p) \in Label /\ Unchanged(p) \in Label
      /\ {"idle", "check", "setError", "invalidate"} \subseteq Label
    BY DEF AfterError, Unchanged, Label
<1>1. ASSUME pc[p] \in Critical, UNCHANGED <<lock, mutex>>, NEW next \in Label,
             Leave(p, next) \/ \E g \in 0..MaxGen : LeaveWith(p, g, next)
      PROVE  HoldsOn(p)
    <2>1. /\ pc' = [pc EXCEPT ![p] = "unlock"]
          /\ run'[p].locked = run[p].locked /\ run'[p].late = run[p].late
        BY <1>1, LeaveFacts, LeaveWithFacts
    <2>2. QED
        BY <1>1, <1>a, <2>1 DEF HoldsOn, Inside, Critical
<1>2. ASSUME pc[p] \in Critical, UNCHANGED <<lock, mutex>>,
             GoTo(p, "refresh") \/ GoTo(p, "persist") \/ GoTo(p, "recover") \/ GoTo(p, "durable"),
             run'[p].locked = run[p].locked, run'[p].late = run[p].late
      PROVE  HoldsOn(p)
    BY <1>2, <1>a DEF HoldsOn, GoTo, Inside, Critical
<1>3. ASSUME pc[p] \notin Inside, UNCHANGED <<lock, mutex>>,
             NEW label \in Label \ Inside, GoTo(p, label),
             ~run'[p].locked, run'[p].late => run[p].late
      PROVE  HoldsOn(p)
    <2>1. pc'[p] = label
        BY <1>3, <1>a DEF GoTo
    <2>2. QED
        BY <1>3, <2>1 DEF HoldsOn, Inside
<1>4. ASSUME run' = [run EXCEPT ![p] = NoRun]
      PROVE  ~run'[p].locked /\ ~run'[p].late
    BY <1>4, <1>a, <1>c
<1>5. Critical \subseteq Inside /\ {"idle", "mutex", "invalidate", "lookup", "check", "set", "wait",
                                    "setError"} \cap Inside = {}
    BY DEF Inside, Critical
<1>6. pc[p] \notin Inside => ~run[p].locked
    BY <1>b DEF Inside
<1>7. CASE Reread(p)
    <2>1. pc[p] \in Critical /\ UNCHANGED <<lock, mutex>>
        BY <1>7 DEF Reread, Critical
    <2>2. CASE GoTo(p, "refresh") /\ run' = [run EXCEPT ![p].gen = account.gen]
        <3>1. run' = [run EXCEPT ![p] = [run[p] EXCEPT !.gen = account.gen]]
            BY <1>a, <2>2
        <3>2. run'[p].locked = run[p].locked /\ run'[p].late = run[p].late
            BY <1>a, <3>1 DEF Run
        <3>3. QED
            BY <1>2, <2>1, <2>2, <3>2
    <2>3. CASE LeaveWith(p, account.gen, Unchanged(p)) \/ Leave(p, Unchanged(p))
        BY <1>1, <1>d, <1>e, <2>1, <2>3
    <2>4. QED
        BY <1>7, <2>2, <2>3 DEF Reread
<1>8. CASE Refresh(p)
    <2>1. pc[p] \in Critical /\ UNCHANGED <<lock, mutex>>
        BY <1>8 DEF Refresh, Critical
    <2>2. CASE GoTo(p, "persist") /\ run' = [run EXCEPT ![p].got = provider']
        <3>1. run' = [run EXCEPT ![p] = [run[p] EXCEPT !.got = provider']]
            BY <1>a, <2>2
        <3>2. run'[p].locked = run[p].locked /\ run'[p].late = run[p].late
            BY <1>a, <3>1 DEF Run
        <3>3. QED
            BY <1>2, <2>1, <2>2, <3>2
    <2>3. CASE Leave(p, AfterError(p))
        BY <1>1, <1>e, <2>1, <2>3
    <2>4. CASE GoTo(p, "recover") /\ UNCHANGED run
        BY <1>2, <2>1, <2>4
    <2>5. QED
        BY <1>8, <2>2, <2>3, <2>4 DEF Refresh
<1>9. CASE Recover(p)
    <2>1. pc[p] \in Critical /\ UNCHANGED <<lock, mutex>>
        BY <1>9 DEF Recover, Critical
    <2>2. \/ \E next \in Label : Leave(p, next)
          \/ LeaveWith(p, account.gen, Unchanged(p))
        BY <1>9, <1>e DEF Recover
    <2>3. QED
        BY <1>1, <1>d, <1>e, <2>1, <2>2
<1>10. CASE Persist(p)
    <2>1. pc[p] \in Critical /\ UNCHANGED <<lock, mutex>>
        BY <1>10 DEF Persist, Critical
    <2>2. \/ \E next \in Label : Leave(p, next)
          \/ \E next \in Label : LeaveWith(p, account.gen, next) \/ LeaveWith(p, run[p].got, next)
          \/ GoTo(p, "durable") /\ UNCHANGED run
        BY <1>10, <1>e DEF Persist
    <2>3. QED
        BY <1>1, <1>2, <1>d, <2>1, <2>2
<1>11. CASE LoadDurable(p)
    <2>1. /\ pc[p] \in Critical /\ UNCHANGED <<lock, mutex>>
          /\ Leave(p, "invalidate") \/ Leave(p, "idle")
        BY <1>11 DEF LoadDurable, Critical
    <2>2. QED
        BY <1>1, <1>e, <2>1
<1>12. CASE StartBackground(p) \/ StartRequest(p)
    <2>1. /\ pc[p] \notin Inside /\ UNCHANGED <<lock, mutex>>
          /\ GoTo(p, "mutex") \/ GoTo(p, "lookup")
        BY <1>12 DEF StartBackground, StartRequest, Inside, Critical
    <2>2. \/ run' = [run EXCEPT ![p] = [run[p] EXCEPT !.attempt = 1]]
          \/ run' = [run EXCEPT ![p] = [run[p] EXCEPT !.own = account.gen]]
        BY <1>12, <1>a DEF StartBackground, StartRequest
    <2>3. run'[p].locked = run[p].locked /\ run'[p].late = run[p].late
        BY <1>a, <2>2 DEF Run
    <2>4. QED
        BY <1>3, <1>5, <1>6, <2>1, <2>3 DEF Label
<1>13. CASE SetError(p) \/ InvalidateToken(p) \/ LookUp(p) \/ WaitForCache(p)
            \/ CheckTokenVersion(p) \/ SetAccessToken(p)
    <2>1. /\ pc[p] \notin Inside /\ UNCHANGED <<lock, mutex>>
          /\ \E label \in {"idle", "mutex", "invalidate", "check", "set"} : GoTo(p, label)
          /\ UNCHANGED run \/ run' = [run EXCEPT ![p] = NoRun]
        BY <1>13 DEF SetError, InvalidateToken, LookUp, WaitForCache, CheckTokenVersion,
                     SetAccessToken, Stop, Inside, Critical
    <2>2. ~run'[p].locked /\ (run'[p].late => run[p].late)
        BY <1>4, <1>6, <2>1
    <2>3. QED
        BY <1>3, <1>5, <2>1, <2>2 DEF Label
<1>14. QED
    BY <1>7, <1>8, <1>9, <1>10, <1>11, <1>12, <1>13 DEF Step, RefreshIfNeeded

\* What the steps that take or release the lock do to it.
LEMMA LockFacts ==
    ASSUME TypeOK, NextInv, NEW p \in Process
    PROVE  /\ AcquireRefreshLock(p) =>
                 /\ pc[p] = "lock" /\ UNCHANGED mutex
                 /\ \/ /\ lock = Nobody /\ lock' = p /\ run'[p].locked
                       /\ pc'[p] = "reread" /\ run'[p].late = run[p].late
                    \/ /\ UNCHANGED lock /\ pc'[p] = "unlock"
                       /\ run'[p].locked = run[p].locked /\ run'[p].late = run[p].late
                    \/ /\ UNCHANGED <<lock, run>> /\ pc'[p] = "reread" /\ troubles'["redis"] > 0
           /\ ReleaseRefreshLock(p) =>
                 /\ pc[p] = "unlock" /\ pc'[p] \notin Inside
                 /\ lock' = lock \/ (run[p].locked /\ lock' = Nobody)
                 /\ mutex' = [mutex EXCEPT ![Home(p)] = Nobody]
                 /\ ~run'[p].locked /\ ~run'[p].late
<1>a. /\ pc \in [Process -> Label] /\ run \in [Process -> Run] /\ run[p] \in Run
      /\ run[p].next \in Nexts
    BY DEF TypeOK, NextInv
<1>1. ASSUME AcquireRefreshLock(p)
      PROVE  /\ pc[p] = "lock" /\ UNCHANGED mutex
             /\ \/ /\ lock = Nobody /\ lock' = p /\ run'[p].locked
                   /\ pc'[p] = "reread" /\ run'[p].late = run[p].late
                \/ /\ UNCHANGED lock /\ pc'[p] = "unlock"
                   /\ run'[p].locked = run[p].locked /\ run'[p].late = run[p].late
                \/ /\ UNCHANGED <<lock, run>> /\ pc'[p] = "reread" /\ troubles'["redis"] > 0
    <2>a. pc[p] = "lock" /\ UNCHANGED mutex
        BY <1>1 DEF AcquireRefreshLock
    <2>1. CASE lock = Nobody /\ lock' = p /\ GoTo(p, "reread")
               /\ run' = [run EXCEPT ![p].locked = TRUE]
        <3>1. run' = [run EXCEPT ![p] = [run[p] EXCEPT !.locked = TRUE]]
            BY <1>a, <2>1
        <3>2. run'[p].locked /\ run'[p].late = run[p].late
            BY <1>a, <3>1 DEF Run
        <3>3. QED
            BY <1>a, <2>a, <2>1, <3>2 DEF GoTo
    <2>2. CASE UNCHANGED lock /\ Leave(p, IF Background(p) THEN "idle" ELSE "wait")
        <3>1. (IF Background(p) THEN "idle" ELSE "wait") \in Label
            BY DEF Label
        <3>2. /\ pc' = [pc EXCEPT ![p] = "unlock"]
              /\ run'[p].locked = run[p].locked /\ run'[p].late = run[p].late
            BY <2>2, <3>1, LeaveFacts
        <3>3. QED
            BY <1>a, <2>a, <2>2, <3>2
    <2>3. CASE Suffer("redis") /\ GoTo(p, "reread") /\ UNCHANGED <<lock, run>>
        BY <1>a, <2>a, <2>3, SufferCounts DEF GoTo, Trouble
    <2>4. QED
        BY <1>1, <2>1, <2>2, <2>3 DEF AcquireRefreshLock
<1>2. ASSUME ReleaseRefreshLock(p)
      PROVE  /\ pc[p] = "unlock" /\ pc'[p] \notin Inside
             /\ lock' = lock \/ (run[p].locked /\ lock' = Nobody)
             /\ mutex' = [mutex EXCEPT ![Home(p)] = Nobody]
             /\ ~run'[p].locked /\ ~run'[p].late
    <2>1. /\ pc[p] = "unlock" /\ pc'[p] = run[p].next
          /\ lock' = lock \/ (run[p].locked /\ lock' = Nobody)
          /\ mutex' = [mutex EXCEPT ![Home(p)] = Nobody]
        BY <1>2, <1>a DEF ReleaseRefreshLock, GoTo
    <2>2. pc'[p] \notin Inside
        BY <1>a, <2>1 DEF Nexts, Inside, Critical
    <2>3. \/ run'[p] = NoRun
          \/ run'[p] = [NoRun EXCEPT !.attempt = run[p].attempt + 1]
          \/ run'[p] = [NoRun EXCEPT !.own = run[p].own, !.gen = run[p].gen]
        BY <1>2, <1>a DEF ReleaseRefreshLock
    <2>4. \A n, o, g : /\ [NoRun EXCEPT !.attempt = n].locked = FALSE
                       /\ [NoRun EXCEPT !.attempt = n].late = FALSE
                       /\ [NoRun EXCEPT !.own = o, !.gen = g].locked = FALSE
                       /\ [NoRun EXCEPT !.own = o, !.gen = g].late = FALSE
        BY DEF NoRun
    <2>5. run'[p].locked = FALSE /\ run'[p].late = FALSE
        <3>1. CASE run'[p] = NoRun
            BY <3>1 DEF NoRun
        <3>2. CASE run'[p] = [NoRun EXCEPT !.attempt = run[p].attempt + 1]
            BY <2>4, <3>2
        <3>3. CASE run'[p] = [NoRun EXCEPT !.own = run[p].own, !.gen = run[p].gen]
            BY <2>4, <3>3
        <3>4. QED
            BY <2>3, <3>1, <3>2, <3>3
    <2>6. QED
        BY <2>1, <2>2, <2>5
<1>3. QED
    BY <1>1, <1>2

\* The mutex of an instance is taken by one process at a time.
LEMMA MutexStep ==
    ASSUME TypeOK, NextInv, OrderInv, MutexInv, LockInv, Next
    PROVE  MutexInv'
<1>a. \A p \in Process : pc[p] \in Inside => mutex[Home(p)] = p
    BY DEF MutexInv, Inside
<1>b. mutex \in [Instances -> Process \cup {Nobody}] /\ Nobody \notin Process
    BY RefreshAssumption DEF TypeOK, Process
<1>c. ASSUME \A p \in Process : pc'[p] \in Inside => mutex'[Home(p)] = p
      PROVE  MutexInv'
    BY <1>c DEF MutexInv, Inside
<1>1. ASSUME NEW p \in Process, Step(p)
      PROVE  MutexInv'
    <2>1. \A q \in Process : q # p => pc'[q] = pc[q]
        BY <1>1, StepEffect DEF Alone
    <2>2. CASE TakeMutex(p)
        BY <1>a, <1>b, <1>c, <2>1, <2>2, HomeType DEF TakeMutex
    <2>3. CASE ReleaseRefreshLock(p)
        <3>1. /\ pc[p] \in Inside /\ pc'[p] \notin Inside
              /\ mutex' = [mutex EXCEPT ![Home(p)] = Nobody]
            BY <2>3, LockFacts DEF Inside
        <3>2. QED
            BY <1>a, <1>b, <1>c, <2>1, <3>1, HomeType
    <2>4. CASE AcquireRefreshLock(p)
        BY <1>a, <1>c, <2>1, <2>4, LockFacts DEF Inside
    <2>5. CASE ~TakeMutex(p) /\ ~AcquireRefreshLock(p) /\ ~ReleaseRefreshLock(p)
        BY <1>1, <1>a, <1>c, <2>1, <2>5, HoldsOnFacts DEF HoldsOn
    <2>6. QED
        BY <2>2, <2>3, <2>4, <2>5
<1>2. ASSUME NEW i \in Instances, Crash(i)
      PROVE  MutexInv'
    <2>1. "idle" \notin Inside
        BY DEF Inside, Critical
    <2>2. QED
        BY <1>2, <1>a, <1>b, <1>c, <2>1, HomeType DEF Crash
<1>3. ASSUME UNCHANGED <<pc, mutex>>
      PROVE  MutexInv'
    BY <1>3, <1>a, <1>c
<1>4. QED
    BY <1>1, <1>2, <1>3, NextCases, AdminFacts
    DEF Authorize, AdminRemainder, TokenExpires, CacheExpires, LockExpires

\* The lock is held by the process that will delete it, until its lease is lost.
LEMMA LockStep ==
    ASSUME TypeOK, NextInv, OrderInv, LockInv, Next
    PROVE  LockInv'
<1>a. \A p \in Process :
        /\ run[p].locked => pc[p] \in Critical \cup {"unlock"}
        /\ run[p].locked /\ troubles["lease"] = 0 => lock = p
        /\ pc[p] \in Critical /\ troubles["redis"] = 0 => run[p].locked
        /\ run[p].late => troubles["lease"] > 0
    BY DEF LockInv
<1>b. \A t \in Trouble : troubles[t] \in Nat
    BY RefreshAssumption DEF TypeOK
<1>c. \A t \in Trouble : troubles'[t] \in Nat
    BY TypeStep, RefreshAssumption DEF TypeOK
<1>d. Nobody \notin Process
    BY RefreshAssumption DEF Process
<1>1. ASSUME NEW p \in Process, Step(p)
      PROVE  LockInv'
    <2>1. \A q \in Process : q # p => pc'[q] = pc[q] /\ run'[q] = run[q]
        BY <1>1, StepEffect DEF Alone
    <2>2. /\ troubles'["lease"] = 0 => troubles["lease"] = 0
          /\ troubles'["redis"] = 0 => troubles["redis"] = 0
          /\ troubles["lease"] > 0 => troubles'["lease"] > 0
        BY <1>1, <1>b, <1>c, StepRemainder DEF Remainder, Trouble
    <2>3. CASE TakeMutex(p)
        BY <1>a, <2>1, <2>2, <2>3 DEF TakeMutex, GoTo, TypeOK, LockInv, Critical
    <2>4. CASE AcquireRefreshLock(p)
        <3>1. ~run[p].locked /\ pc[p] = "lock"
            BY <1>a, <2>4, LockFacts DEF Critical
        <3>2. CASE lock = Nobody /\ lock' = p /\ run'[p].locked /\ pc'[p] = "reread"
                   /\ run'[p].late = run[p].late
            BY <1>a, <1>d, <2>1, <2>2, <3>2 DEF LockInv, Critical
        <3>3. CASE UNCHANGED lock /\ pc'[p] = "unlock"
                   /\ run'[p].locked = run[p].locked /\ run'[p].late = run[p].late
            BY <1>a, <2>1, <2>2, <3>1, <3>3 DEF LockInv, Critical
        <3>4. CASE UNCHANGED <<lock, run>> /\ pc'[p] = "reread" /\ troubles'["redis"] > 0
            BY <1>a, <1>c, <2>1, <2>2, <3>1, <3>4 DEF LockInv, Critical
        <3>5. QED
            BY <2>4, <3>2, <3>3, <3>4, LockFacts
    <2>5. CASE ReleaseRefreshLock(p)
        <3>1. /\ pc'[p] \notin Critical /\ ~run'[p].locked /\ ~run'[p].late
              /\ lock' = lock \/ (run[p].locked /\ lock' = Nobody)
            BY <2>5, LockFacts DEF Inside
        <3>2. \A q \in Process : q # p /\ run[q].locked /\ troubles["lease"] = 0 => lock' = q
            BY <1>a, <3>1
        <3>3. QED
            BY <1>a, <2>1, <2>2, <3>1, <3>2 DEF LockInv
    <2>6. CASE ~TakeMutex(p) /\ ~AcquireRefreshLock(p) /\ ~ReleaseRefreshLock(p)
        <3>1. HoldsOn(p)
            BY <1>1, <2>6, HoldsOnFacts
        <3>2. QED
            BY <1>a, <2>1, <2>2, <3>1 DEF HoldsOn, LockInv
    <2>7. QED
        BY <2>3, <2>4, <2>5, <2>6
<1>2. ASSUME NEW i \in Instances, Crash(i)
      PROVE  LockInv'
    <2>1. \A t \in Trouble : troubles[t] > 0 => troubles'[t] > 0
        BY <1>2, CrashFacts DEF Remainder
    <2>2. \A p \in Process : \/ pc'[p] = "idle" /\ run'[p] = NoRun
                             \/ pc'[p] = pc[p] /\ run'[p] = run[p]
        BY <1>2 DEF Crash
    <2>3. /\ troubles'["lease"] = 0 => troubles["lease"] = 0
          /\ troubles'["redis"] = 0 => troubles["redis"] = 0
          /\ troubles["lease"] > 0 => troubles'["lease"] > 0
        BY <1>b, <1>c, <2>1 DEF Trouble
    <2>4. ~NoRun.locked /\ ~NoRun.late /\ "idle" \notin Critical /\ UNCHANGED lock
        BY <1>2 DEF NoRun, Critical, Crash
    <2>5. QED
        BY <1>a, <2>2, <2>3, <2>4 DEF LockInv
<1>3. CASE LockExpires
    <2>1. /\ UNCHANGED pc
          /\ run[lock].locked => troubles'["lease"] > 0
          /\ \A p \in Process : /\ run'[p].locked = run[p].locked
                                /\ run'[p].late => run[p].late \/ troubles'["lease"] > 0
          /\ \A t \in Trouble : troubles[t] > 0 => troubles'[t] > 0
        BY <1>3, LockExpiresFacts DEF Remainder
    <2>2. /\ troubles'["lease"] = 0 => troubles["lease"] = 0
          /\ troubles'["redis"] = 0 => troubles["redis"] = 0
          /\ troubles["lease"] > 0 => troubles'["lease"] > 0
        BY <1>b, <1>c, <2>1 DEF Trouble
    <2>3. \A p \in Process : run[p].locked => troubles'["lease"] > 0
        BY <1>a, <1>b, <2>1, <2>2 DEF Trouble
    <2>4. QED
        BY <1>a, <1>c, <2>1, <2>2, <2>3 DEF LockInv, Trouble
<1>4. ASSUME UNCHANGED <<pc, run, lock>>, \A t \in Trouble : troubles[t] > 0 => troubles'[t] > 0
      PROVE  LockInv'
    <2>1. /\ troubles'["lease"] = 0 => troubles["lease"] = 0
          /\ troubles'["redis"] = 0 => troubles["redis"] = 0
          /\ troubles["lease"] > 0 => troubles'["lease"] > 0
        BY <1>4, <1>b, <1>c DEF Trouble
    <2>2. QED
        BY <1>4, <1>a, <2>1 DEF LockInv
<1>5. QED
    BY <1>1, <1>2, <1>3, <1>4, NextCases, AdminFacts
    DEF Authorize, AdminRemainder, TokenExpires, CacheExpires

\* While the lock holds there is one process in the critical section.
LEMMA Exclusive ==
    ASSUME LockInv, LockHolds, NEW p \in Process, NEW q \in Process,
           pc[p] \in Critical, pc[q] \in Critical
    PROVE  p = q
BY DEF LockInv, LockHolds

\* A process step does nothing to the others.
LEMMA OthersFacts ==
    ASSUME NEW p \in Process, Alone(p)
    PROVE  /\ \A q \in Process : q # p => /\ run'[q].gen = run[q].gen /\ run'[q].got = run[q].got
                                          /\ pc'[q] = pc[q] /\ Condemns(q)' = Condemns(q)
           /\ Persisting' \ {p} = Persisting \ {p}
           /\ Persisting \subseteq Process
BY DEF Alone, Condemns, Persisting

\* Nor do the steps that leave every process where it is or start it over.
LEMMA CalmFacts ==
    ASSUME Calm
    PROVE  /\ Persisting' \subseteq Persisting
           /\ \A p \in Persisting' : run'[p].gen = run[p].gen /\ run'[p].got = run[p].got
           /\ \A p \in Process : Condemns(p)' => Condemns(p) /\ run'[p].gen = run[p].gen
           /\ \A p \in Process :
                 pc'[p] = "refresh" => pc[p] = "refresh" /\ run'[p].gen = run[p].gen
BY DEF Calm, Condemns, Persisting

\* Troubles do not go away, and the platform of the account does not change.
LEMMA Kept ==
    ASSUME TypeOK, NextInv, OrderInv, Next
    PROVE  /\ \A t \in Trouble : troubles'[t] = 0 => troubles[t] = 0
           /\ account'.grok = account.grok
           /\ granted' = {1} => granted = {1} /\ ~Authorize
           /\ granted' # granted => Authorize
           /\ crossed => crossed'
<1>a. \A t \in Trouble : troubles[t] \in Nat /\ troubles'[t] \in Nat
    BY TypeStep, RefreshAssumption DEF TypeOK
<1>b. provider \in Int /\ 0 < provider /\ account \in Account
    BY Numbers DEF TypeOK
<1>1. ASSUME NEW p \in Process, Step(p)
      PROVE  Remainder /\ account'.grok = account.grok
    <2>1. Effect(p) /\ Remainder
        BY <1>1, StepEffect, StepRemainder
    <2>2. \/ UNCHANGED account
          \/ account' = [account EXCEPT !.gen = run[p].got]
          \/ account' = [account EXCEPT !.status = "error"]
        BY <2>1 DEF Effect, Passive, Reads, Rotates, Loses, IsRejected, Stores, Drops, Disables
    <2>3. QED
        BY <1>b, <2>1, <2>2 DEF Account
<1>2. CASE Authorize
    <2>1. granted' = granted \cup {provider + 1} /\ provider + 1 # 1
          /\ UNCHANGED <<account, crossed, troubles>>
        BY <1>2, <1>b DEF Authorize
    <2>2. granted' # {1}
        BY <2>1
    <2>3. QED
        BY <1>2, <2>1, <2>2
<1>3. ASSUME Remainder, account'.grok = account.grok, ~Authorize
      PROVE  /\ \A t \in Trouble : troubles'[t] = 0 => troubles[t] = 0
             /\ account'.grok = account.grok
             /\ granted' = {1} => granted = {1} /\ ~Authorize
             /\ granted' # granted => Authorize
             /\ crossed => crossed'
    BY <1>3, <1>a DEF Remainder
<1>4. CASE (StartManualRefresh \/ AdminStep) /\ ~Authorize
    BY <1>4, <1>a, AdminFacts DEF AdminRemainder
<1>5. CASE (TokenExpires \/ CacheExpires) /\ ~Authorize
    BY <1>5 DEF TokenExpires, CacheExpires
<1>6. QED
    BY <1>1, <1>2, <1>3, <1>4, <1>5, NextCases, CrashFacts, LockExpiresFacts

\* Credentials that the provider accepts get to the row.
LEMMA StoredStep ==
    ASSUME TypeOK, NextInv, OrderInv, FreshInv, LockInv, StoredInv, Next
    PROVE  StoredInv'
<1> SUFFICES ASSUME troubles'["lost"] = 0, troubles'["lease"] = 0,
                    account'.grok \/ granted' = {1}
             PROVE  /\ \/ account'.gen = provider'
                       \/ Applying'
                       \/ \E p \in Persisting' : /\ run'[p].got = provider'
                                                 /\ run'[p].gen = account'.gen
                    /\ ~account'.grok => \A p \in Persisting' : /\ run'[p].got = provider'
                                                                /\ run'[p].gen = account'.gen
    BY DEF StoredInv
<1>a. /\ provider \in Int /\ account.gen \in Int /\ admin.gen \in Int /\ due \in Int
      /\ \A p \in Process : run[p].gen \in Int /\ run[p].got \in Int
    BY Numbers
<1>b. /\ troubles["lost"] = 0 /\ troubles["lease"] = 0 /\ account'.grok = account.grok
      /\ account.grok \/ granted = {1}
      /\ ~account.grok => ~Authorize
    BY Kept DEF Trouble
<1>c. /\ \/ account.gen = provider
         \/ Applying
         \/ \E p \in Persisting : run[p].got = provider /\ run[p].gen = account.gen
      /\ ~account.grok => \A p \in Persisting : run[p].got = provider /\ run[p].gen = account.gen
    BY <1>b DEF StoredInv
<1>d. \A p \in Process : ~run[p].late
    <2>1. troubles["lease"] \in Int
        BY RefreshAssumption DEF TypeOK, Trouble
    <2>2. QED
        BY <1>b, <2>1 DEF LockInv
<1>e. /\ \A p \in Process : run[p].gen <= due /\ run[p].got <= provider
      /\ account.gen <= provider /\ due <= provider /\ Persisting \subseteq Process
      /\ \A p \in Persisting : run[p].gen < run[p].got
      /\ Applying =>
            /\ admin.gen = provider
            /\ \A p \in Process : run[p].gen < provider /\ run[p].got < provider
    BY DEF OrderInv, Persisting
<1>f. \A p \in Persisting :
          /\ account.gen # run[p].got
          /\ \A q \in Process : run[q].gen # run[p].got
          /\ \A q \in Persisting : run[p].gen = run[q].gen \/ run[p].got = run[q].got => p = q
          /\ admin.step = "refresh" => admin.gen # run[p].got
    BY DEF FreshInv
<1>g. \A g : account' = [account EXCEPT !.gen = g] => account'.gen = g
    BY DEF TypeOK, Account
<1>h. account' = [account EXCEPT !.status = "error"] => account'.gen = account.gen
    BY DEF TypeOK, Account
<1>i. ASSUME account'.gen = account.gen, UNCHANGED <<provider, admin>>, Persisting' = Persisting,
             \A p \in Persisting : run'[p].got = run[p].got /\ run'[p].gen = run[p].gen
      PROVE  /\ \/ account'.gen = provider'
                \/ Applying'
                \/ \E p \in Persisting' : run'[p].got = provider' /\ run'[p].gen = account'.gen
             /\ ~account'.grok =>
                   \A p \in Persisting' : run'[p].got = provider' /\ run'[p].gen = account'.gen
    BY <1>b, <1>c, <1>i DEF Applying
<1> DEFINE Goal == /\ \/ account'.gen = provider'
                      \/ Applying'
                      \/ \E p \in Persisting' : /\ run'[p].got = provider'
                                                /\ run'[p].gen = account'.gen
                   /\ ~account'.grok => \A p \in Persisting' : /\ run'[p].got = provider'
                                                               /\ run'[p].gen = account'.gen
<1>1. ASSUME NEW p \in Process, Step(p)
      PROVE  Goal
    <2>1. Alone(p) /\ Effect(p) /\ UNCHANGED admin
        BY <1>1, StepEffect, StepRemainder DEF Remainder
    <2>2. /\ \A q \in Process : q # p => run'[q].gen = run[q].gen /\ run'[q].got = run[q].got
          /\ Persisting' \ {p} = Persisting \ {p}
        BY <2>1, OthersFacts
    <2>3. CASE Passive(p) \/ Reads(p) \/ IsRejected(p) \/ Disables(p)
        <3>1. /\ p \notin Persisting /\ p \notin Persisting'
              /\ UNCHANGED provider /\ account'.gen = account.gen
            BY <1>h, <2>3 DEF Passive, Reads, IsRejected, Disables, Persisting
        <3>2. Persisting' = Persisting
            BY <2>2, <3>1
        <3>3. \A q \in Persisting : run'[q].got = run[q].got /\ run'[q].gen = run[q].gen
            BY <1>e, <2>2, <3>1
        <3>4. QED
            BY <1>i, <2>1, <3>1, <3>2, <3>3
    <2>4. CASE Rotates(p)
        <3>1. account.gen = provider
            BY <1>a, <1>c, <1>e, <1>f, <2>4 DEF Rotates
        <3>2. Persisting = {} \/ account.grok
            BY <1>c, <1>f, <3>1
        <3>3. p \in Persisting' /\ run'[p].got = provider' /\ run'[p].gen = account'.gen
            BY <2>4, <3>1 DEF Rotates, Persisting
        <3>4. QED
            BY <1>b, <2>2, <3>2, <3>3
    <2>5. CASE Loses(p)
        BY <1>d, <2>5 DEF Loses
    <2>6. CASE Stores(p)
        <3>1. /\ p \in Persisting /\ p \notin Persisting' /\ account'.gen = run[p].got
              /\ account.grok => account.gen = run[p].gen
            BY <1>g, <2>6 DEF Stores, Persisting
        <3>2. run[p].got = provider \/ Applying
            <4>1. CASE account.grok
                <5>1. account.gen # provider
                    BY <1>a, <1>e, <3>1, <4>1
                <5>2. \A q \in Persisting : run[q].gen = account.gen => q = p
                    BY <1>f, <3>1, <4>1
                <5>3. QED
                    BY <1>c, <5>1, <5>2
            <4>2. CASE ~account.grok
                BY <1>c, <3>1, <4>2
            <4>3. QED
                BY <4>1, <4>2
        <3>3. ~account.grok => Persisting' = {}
            BY <1>c, <1>f, <2>2, <3>1
        <3>4. UNCHANGED provider
            BY <2>6 DEF Stores
        <3>5. QED
            BY <1>b, <2>1, <3>1, <3>2, <3>3, <3>4 DEF Applying
    <2>7. CASE Drops(p)
        <3>1. /\ account.grok /\ account.gen # run[p].gen /\ UNCHANGED <<provider, account>>
              /\ p \in Persisting
            BY <1>d, <2>7 DEF Drops, Persisting
        <3>2. QED
            BY <1>b, <1>c, <1>e, <2>1, <2>2, <3>1 DEF Applying
    <2>8. QED
        BY <2>1, <2>3, <2>4, <2>5, <2>6, <2>7 DEF Effect
<1>2. ASSUME NEW i \in Instances, Crash(i)
      PROVE  Goal
    BY <1>2, CrashFacts
<1>3. CASE Authorize
    BY <1>3, <1>b DEF Authorize, NoAdmin, Applying
<1>4. CASE StartManualRefresh \/ AdminStep
    <2>1. AdminEffect /\ UNCHANGED <<pc, run>>
        BY <1>4, AdminFacts DEF AdminRemainder
    <2>2. Persisting' = Persisting
        BY <2>1 DEF Persisting
    <2>3. CASE AdminStores
        <3>1. Applying /\ account'.gen = admin.gen /\ UNCHANGED provider
            BY <2>3 DEF AdminStores, Applying
        <3>2. ~account.grok => Persisting = {}
            BY <1>a, <1>c, <1>e, <3>1
        <3>3. QED
            BY <1>b, <1>e, <2>2, <3>1, <3>2
    <2>4. CASE AdminRotates
        <3>1. Applying' /\ UNCHANGED account /\ admin.step = "refresh" /\ admin.gen = provider
            BY <2>4 DEF AdminRotates, Applying
        <3>2. ~account.grok => Persisting = {}
            BY <1>c, <1>f, <3>1
        <3>3. QED
            BY <1>b, <2>2, <3>1, <3>2
    <2>5. CASE AdminLoads
        <3>1. Applying' /\ UNCHANGED <<provider, account>>
            BY <2>5 DEF AdminLoads, Applying
        <3>2. QED
            BY <1>b, <1>c, <2>1, <2>2, <3>1
    <2>6. CASE AdminReads \/ AdminClears \/ AdminEnds
        <3>1. ~Applying /\ account'.gen = account.gen /\ UNCHANGED provider
            BY <2>6 DEF AdminReads, AdminClears, AdminEnds, Applying
        <3>2. QED
            BY <1>b, <1>c, <2>1, <2>2, <3>1
    <2>7. QED
        BY <2>1, <2>3, <2>4, <2>5, <2>6 DEF AdminEffect, AdminLoses
<1>5. CASE TokenExpires \/ CacheExpires \/ LockExpires
    <2>1. /\ UNCHANGED <<pc, provider, account, admin>>
          /\ \A p \in Process : pc'[p] = "persist" => /\ run'[p].gen = run[p].gen
                                                      /\ run'[p].got = run[p].got
        BY <1>5, LockExpiresFacts DEF TokenExpires, CacheExpires, Remainder, Calm
    <2>2. Persisting' = Persisting
        BY <2>1 DEF Persisting
    <2>3. QED
        BY <1>i, <2>1, <2>2 DEF Persisting
<1>6. QED
    BY <1>1, <1>2, <1>3, <1>4, <1>5, NextCases

\* Grok's accounts are disabled only for credentials that are used up.
LEMMA GrokStep ==
    ASSUME TypeOK, NextInv, OrderInv, FreshInv, LockInv, GrokInv, Next
    PROVE  GrokInv'
<1> DEFINE Used == \A p \in Process : Condemns(p) =>
                      /\ run[p].gen # provider
                      /\ \A q \in Persisting : run[q].gen # run[p].gen
           Begun == admin.step = "refresh" => admin.gen <= account.gen
           Error == account.status = "error" /\ ~uncleared =>
                      /\ account.gen # provider
                      /\ \A q \in Persisting : run[q].gen # account.gen
           Hand == ByHand =>
                      /\ \A p \in Process : /\ pc[p] # "refresh"
                                            /\ Condemns(p) => run[p].gen # account.gen
                      /\ account.status = "error" => uncleared
                      /\ admin.step = "store" /\ admin.status = "error" => uncleared
<1> SUFFICES ASSUME LockHolds', account'.grok
             PROVE  Used' /\ Begun' /\ (~crossed' => Error' /\ Hand')
    BY DEF GrokInv
<1>a. /\ provider \in Int /\ account.gen \in Int /\ admin.gen \in Int /\ due \in Int
      /\ \A p \in Process : run[p].gen \in Int /\ run[p].got \in Int
    BY Numbers
<1>b. LockHolds /\ account.grok /\ (~crossed' => ~crossed)
    BY Kept DEF LockHolds, Trouble
<1>c. Used /\ Begun /\ (~crossed => Error /\ Hand)
    BY <1>b DEF GrokInv
<1>d. /\ \A p \in Process : run[p].gen <= provider
      /\ account.gen <= provider /\ Persisting \subseteq Process
      /\ \A p \in Persisting : run[p].gen < run[p].got
    BY <1>a DEF OrderInv, Persisting
<1>1. ASSUME NEW p \in Process, Step(p)
      PROVE  Used' /\ Begun' /\ (~crossed' => Error' /\ Hand')
    <2>1. Alone(p) /\ Effect(p) /\ UNCHANGED <<admin, uncleared>>
        BY <1>1, StepEffect, StepRemainder DEF Remainder
    <2>2. /\ \A q \in Process : q # p => /\ run'[q].gen = run[q].gen /\ pc'[q] = pc[q]
                                         /\ Condemns(q)' = Condemns(q)
          /\ Persisting' \ {p} = Persisting \ {p}
        BY <2>1, OthersFacts
    <2>a. ByHand' = ByHand
        BY <2>1 DEF ByHand
    <2>3. CASE Passive(p) \/ Drops(p)
        <3>1. /\ p \notin Persisting' /\ UNCHANGED <<provider, account>>
              /\ Condemns(p)' => Condemns(p) /\ run'[p].gen = run[p].gen
              /\ pc'[p] # "refresh"
            BY <2>3 DEF Passive, Drops, Persisting, Condemns
        <3>2. Used' /\ Begun' /\ (~crossed => Error')
            BY <1>c, <1>d, <2>1, <2>2, <3>1
        <3>3. ~crossed => Hand'
            BY <1>c, <2>1, <2>2, <2>a, <3>1
        <3>4. QED
            BY <1>b, <3>2, <3>3
    <2>b. CASE Reads(p)
        <3>1. /\ p \notin Persisting' /\ UNCHANGED <<provider, account>> /\ ~Condemns(p)'
              /\ ByHand => crossed'
            BY <2>b DEF Reads, Persisting, Condemns
        <3>2. Used' /\ Begun' /\ (~crossed => Error')
            BY <1>c, <1>d, <2>1, <2>2, <3>1
        <3>3. QED
            BY <1>b, <2>a, <3>1, <3>2
    <2>4. CASE Rotates(p)
        <3>1. /\ run[p].gen = provider /\ provider' = provider + 1 /\ UNCHANGED account
              /\ run'[p].gen = provider /\ ~Condemns(p)' /\ pc[p] = "refresh"
            BY <2>4 DEF Rotates, Condemns
        <3>2. Used' /\ Begun' /\ (~crossed => Error')
            BY <1>a, <1>c, <1>d, <2>1, <2>2, <3>1
        <3>3. ~crossed => Hand'
            BY <1>c, <2>1, <2>a, <3>1
        <3>4. QED
            BY <1>b, <3>2, <3>3
    <2>5. CASE Loses(p)
        <3>1. /\ provider' = provider + 1 /\ UNCHANGED account /\ ~Condemns(p)'
              /\ p \notin Persisting' /\ pc[p] = "refresh"
            BY <2>5 DEF Loses, Persisting
        <3>2. Used' /\ Begun' /\ (~crossed => Error')
            BY <1>a, <1>c, <1>d, <2>1, <2>2, <3>1
        <3>3. ~crossed => Hand'
            BY <1>c, <2>1, <2>a, <3>1
        <3>4. QED
            BY <1>b, <3>2, <3>3
    <2>6. CASE IsRejected(p)
        <3>1. /\ run[p].gen # provider /\ UNCHANGED <<provider, account>>
              /\ run'[p].gen = run[p].gen /\ p \notin Persisting' /\ p \notin Persisting
              /\ pc[p] \in Critical /\ pc[p] = "refresh"
            BY <2>6 DEF IsRejected, Persisting, Critical
        <3>2. Persisting = {}
            BY <1>b, <3>1, Exclusive DEF Persisting, Critical
        <3>3. Persisting' = {}
            BY <2>2, <3>1, <3>2
        <3>4. Used' /\ Begun' /\ (~crossed => Error')
            BY <1>c, <2>1, <2>2, <3>1, <3>3
        <3>5. ~crossed => Hand'
            BY <1>c, <2>1, <2>a, <3>1
        <3>6. QED
            BY <1>b, <3>4, <3>5
    <2>7. CASE Stores(p)
        <3>1. /\ p \in Persisting /\ p \notin Persisting' /\ account.gen = run[p].gen
              /\ ~Condemns(p)' /\ UNCHANGED provider /\ pc'[p] # "refresh"
              /\ account'.status = account.status /\ account'.gen = run[p].got
            BY <1>b, <2>7 DEF Stores, Persisting, TypeOK, Account
        <3>2. ~crossed => ~(account'.status = "error" /\ ~uncleared')
            BY <1>c, <2>1, <3>1
        <3>3. account.gen < account'.gen /\ \A q \in Process : run[q].gen # account'.gen
            BY <1>d, <3>1 DEF FreshInv
        <3>4. Used'
            BY <1>c, <1>d, <2>2, <3>1
        <3>5. Begun'
            BY <1>a, <1>c, <2>1, <3>1, <3>3
        <3>6. ~crossed => Hand'
            BY <1>c, <2>1, <2>2, <2>a, <3>1, <3>3
        <3>7. QED
            BY <1>b, <3>2, <3>4, <3>5, <3>6
    <2>8. CASE Disables(p)
        <3>1. /\ Condemns(p) /\ account.gen = run[p].gen /\ account'.gen = account.gen
              /\ ~Condemns(p)' /\ UNCHANGED provider /\ pc'[p] # "refresh"
              /\ p \notin Persisting /\ p \notin Persisting'
            BY <1>b, <2>8 DEF Disables, Condemns, Persisting, TypeOK, Account
        <3>2. Used' /\ Begun' /\ Error'
            BY <1>c, <1>d, <2>1, <2>2, <3>1
        <3>3. ~crossed => ~ByHand
            BY <1>c, <3>1
        <3>4. QED
            BY <1>b, <2>a, <3>2, <3>3
    <2>9. QED
        BY <2>1, <2>3, <2>b, <2>4, <2>5, <2>6, <2>7, <2>8 DEF Effect
<1>2. ASSUME Calm, UNCHANGED <<provider, account, admin, uncleared>>
      PROVE  Used' /\ Begun' /\ (~crossed' => Error' /\ Hand')
    <2>1. /\ Persisting' \subseteq Persisting
          /\ \A p \in Persisting' : run'[p].gen = run[p].gen
          /\ \A p \in Process : Condemns(p)' => Condemns(p) /\ run'[p].gen = run[p].gen
          /\ \A p \in Process : pc'[p] = "refresh" => pc[p] = "refresh"
          /\ ByHand' = ByHand
        BY <1>2, CalmFacts DEF ByHand
    <2>2. Used' /\ Begun' /\ (~crossed => Error')
        BY <1>2, <1>c, <2>1
    <2>3. ~crossed => Hand'
        BY <1>2, <1>c, <2>1
    <2>4. QED
        BY <1>b, <2>2, <2>3
<1>3. CASE (\E i \in Instances : Crash(i)) \/ LockExpires
    BY <1>2, <1>3, CrashFacts, LockExpiresFacts DEF Remainder
<1>4. CASE TokenExpires \/ CacheExpires
    BY <1>2, <1>4 DEF TokenExpires, CacheExpires, Calm
<1>5. ASSUME UNCHANGED <<pc, run>>
      PROVE  /\ Persisting' = Persisting
             /\ \A p \in Process : Condemns(p)' = Condemns(p) /\ run'[p].gen = run[p].gen
    BY <1>5 DEF Persisting, Condemns
<1>6. CASE Authorize
    <2>1. /\ provider' = provider + 1 /\ UNCHANGED <<pc, run, account, uncleared>>
          /\ admin'.step = "load" /\ ~admin'.manual
        BY <1>6 DEF Authorize, NoAdmin
    <2>2. ~ByHand'
        BY <2>1 DEF ByHand
    <2>3. Used' /\ Begun' /\ (~crossed => Error')
        BY <1>5, <1>a, <1>c, <1>d, <2>1
    <2>4. QED
        BY <1>b, <2>2, <2>3
<1>7. CASE StartManualRefresh \/ AdminStep
    <2>1. AdminEffect /\ UNCHANGED <<pc, run>>
        BY <1>7, AdminFacts DEF AdminRemainder
    <2>2. CASE AdminRotates
        <3>1. /\ admin.step = "refresh" /\ admin.gen = provider /\ provider' = provider + 1
              /\ admin'.step = "load" /\ UNCHANGED <<account, uncleared>>
              /\ ~crossed' => \A p \in Process : pc[p] # "refresh"
            BY <2>2 DEF AdminRotates
        <3>2. account.gen = provider
            BY <1>a, <1>c, <1>d, <3>1
        <3>3. Used' /\ Begun'
            BY <1>5, <1>a, <1>c, <1>d, <2>1, <3>1
        <3>4. ~crossed => (account.status = "error" => uncleared)
            BY <1>c, <3>2
        <3>5. ~crossed => Error'
            BY <3>1, <3>4
        <3>6. ~crossed' => Hand'
            BY <1>5, <1>b, <1>c, <2>1, <3>1, <3>2, <3>4
        <3>7. QED
            BY <1>b, <3>3, <3>5, <3>6
    <2>3. CASE AdminReads
        <3>1. /\ admin'.step = "refresh" /\ admin'.gen = account.gen
              /\ UNCHANGED <<provider, account, uncleared>>
            BY <2>3 DEF AdminReads
        <3>2. ~ByHand'
            BY <3>1 DEF ByHand
        <3>3. Used' /\ Begun' /\ (~crossed => Error')
            BY <1>5, <1>a, <1>c, <1>d, <2>1, <3>1
        <3>4. QED
            BY <1>b, <3>2, <3>3
    <2>4. CASE AdminLoads
        <3>1. /\ admin.step = "load" /\ admin'.step = "store" /\ admin'.status = account.status
              /\ UNCHANGED <<provider, account, uncleared>> /\ ByHand' = ByHand
            BY <2>4 DEF AdminLoads, ByHand
        <3>2. Used' /\ Begun' /\ (~crossed => Error')
            BY <1>5, <1>c, <1>d, <2>1, <3>1
        <3>3. ~crossed => Hand'
            BY <1>5, <1>c, <2>1, <3>1
        <3>4. QED
            BY <1>b, <3>2, <3>3
    <2>5. CASE AdminStores
        <3>1. /\ admin.step = "store" /\ admin'.step \in {"idle", "clear", "invalidate"}
              /\ account'.status = admin.status /\ UNCHANGED provider
              /\ admin.status = "error" /\ (uncleared \/ ~admin.manual) => uncleared'
            BY <2>5 DEF AdminStores
        <3>2. ~ByHand' /\ Begun' /\ (admin.manual => ByHand)
            BY <3>1 DEF ByHand
        <3>3. Used'
            BY <1>5, <1>c, <1>d, <2>1, <3>1
        <3>4. ~crossed => (account'.status = "error" => uncleared')
            BY <1>c, <3>1, <3>2
        <3>5. QED
            BY <1>b, <3>2, <3>3, <3>4
    <2>6. CASE AdminClears
        <3>1. /\ admin'.step = "invalidate" /\ account'.status = "active" /\ UNCHANGED provider
            BY <2>6 DEF AdminClears
        <3>2. ~ByHand' /\ Begun' /\ Error'
            BY <3>1 DEF ByHand
        <3>3. Used'
            BY <1>5, <1>c, <1>d, <2>1, <3>1
        <3>4. QED
            BY <3>2, <3>3
    <2>7. CASE AdminLoses
        <3>1. /\ provider' = provider + 1 /\ admin'.step = "idle"
              /\ UNCHANGED <<account, uncleared>>
            BY <2>7 DEF AdminLoses
        <3>2. ~ByHand' /\ Begun'
            BY <3>1 DEF ByHand
        <3>3. Used' /\ (~crossed => Error')
            BY <1>5, <1>a, <1>c, <1>d, <2>1, <3>1
        <3>4. QED
            BY <1>b, <3>2, <3>3
    <2>8. CASE AdminEnds
        <3>1. /\ admin'.step \in {"idle", "invalidate"} /\ UNCHANGED <<provider, account, uncleared>>
            BY <2>8 DEF AdminEnds
        <3>2. ~ByHand' /\ Begun'
            BY <3>1 DEF ByHand
        <3>3. Used' /\ (~crossed => Error')
            BY <1>5, <1>c, <1>d, <2>1, <3>1
        <3>4. QED
            BY <1>b, <3>2, <3>3
    <2>9. QED
        BY <2>1, <2>2, <2>3, <2>4, <2>5, <2>6, <2>7, <2>8 DEF AdminEffect
<1>8. QED
    BY <1>1, <1>3, <1>4, <1>6, <1>7, NextCases

\* The others' too, while nobody authorizes them again.
LEMMA DeadStep ==
    ASSUME TypeOK, NextInv, OrderInv, FreshInv, LockInv, DeadInv, Next
    PROVE  DeadInv'
<1> DEFINE Manual == /\ admin.step # "clear"
                     /\ admin.step \in {"refresh", "load", "store"} => admin.manual
           Begun == admin.step = "refresh" => admin.gen <= account.gen
           Current == \A p \in Process :
                         pc[p] \in {"refresh", "persist"} => run[p].gen = account.gen
           Hand == Applying =>
                      /\ \A p \in Process : pc[p] \notin {"refresh", "persist"} /\ ~Condemns(p)
                      /\ account.status = "active"
                      /\ admin.step = "store" => admin.status = "active"
           Dead == account.status = "error" \/ (\E p \in Process : Condemns(p)) =>
                      account.gen # provider /\ Persisting = {}
<1> SUFFICES ASSUME LockHolds', ~account'.grok, granted' = {1}, ~crossed'
             PROVE  Manual' /\ Begun' /\ Current' /\ Hand' /\ Dead'
    BY DEF DeadInv
<1>a. /\ provider \in Int /\ account.gen \in Int /\ admin.gen \in Int
      /\ \A p \in Process : run[p].gen \in Int /\ run[p].got \in Int
      /\ account.status \in {"active", "error"}
    BY Numbers DEF TypeOK, Account
<1>b. LockHolds /\ ~account.grok /\ granted = {1} /\ ~Authorize /\ ~crossed
    BY Kept DEF LockHolds, Trouble
<1>c. Manual /\ Begun /\ Current /\ Hand /\ Dead
    BY <1>b DEF DeadInv
<1>d. /\ account.gen <= provider /\ \A p \in Process : run[p].got <= provider
      /\ \A p \in Persisting : run[p].gen < run[p].got
    BY DEF OrderInv, Persisting
<1>1. ASSUME NEW p \in Process, Step(p)
      PROVE  Manual' /\ Begun' /\ Current' /\ Hand' /\ Dead'
    <2>1. Alone(p) /\ Effect(p) /\ UNCHANGED admin
        BY <1>1, StepEffect, StepRemainder DEF Remainder
    <2>2. /\ \A q \in Process : q # p => /\ run'[q].gen = run[q].gen /\ pc'[q] = pc[q]
                                         /\ Condemns(q)' = Condemns(q)
          /\ Persisting' \ {p} = Persisting \ {p}
        BY <2>1, OthersFacts
    <2>a. Manual' /\ Applying' = Applying
        BY <1>c, <2>1 DEF Applying
    <2>b. Applying => pc[p] \notin {"refresh", "persist"} /\ ~Condemns(p)
        BY <1>c
    <2>3. CASE Passive(p)
        <3>1. /\ p \notin Persisting' /\ UNCHANGED <<provider, account>>
              /\ Condemns(p)' => Condemns(p)
              /\ pc'[p] \notin {"refresh", "persist"}
            BY <2>3 DEF Passive, Persisting
        <3>2. Begun' /\ Current' /\ Dead'
            BY <1>c, <2>1, <2>2, <3>1
        <3>3. Hand'
            BY <1>c, <2>1, <2>2, <2>a, <3>1
        <3>4. QED
            BY <2>a, <3>2, <3>3
    <2>c. CASE Reads(p)
        <3>1. /\ p \notin Persisting' /\ UNCHANGED <<provider, account>>
              /\ ~Condemns(p)' /\ run'[p].gen = account.gen
              /\ ByHand => crossed'
            BY <2>c DEF Reads, Persisting, Condemns
        <3>2. ~Applying
            BY <1>c, <3>1 DEF Applying, ByHand
        <3>3. Begun' /\ Current' /\ Dead'
            BY <1>c, <2>1, <2>2, <3>1
        <3>4. QED
            BY <2>a, <3>2, <3>3
    <2>4. CASE Rotates(p) \/ Loses(p)
        <3>1. /\ run[p].gen = provider /\ UNCHANGED account /\ pc[p] = "refresh"
              /\ pc'[p] # "refresh" /\ ~Condemns(p)'
              /\ pc'[p] = "persist" => run'[p].gen = run[p].gen
            BY <2>4 DEF Rotates, Loses, Condemns
        <3>2. Begun' /\ Current' /\ Dead'
            BY <1>c, <2>1, <2>2, <3>1
        <3>3. QED
            BY <2>a, <2>b, <3>1, <3>2
    <2>5. CASE IsRejected(p)
        <3>1. /\ run[p].gen # provider /\ UNCHANGED <<provider, account>>
              /\ pc[p] = "refresh" /\ pc'[p] \notin {"refresh", "persist"}
              /\ p \notin Persisting' /\ p \notin Persisting
              /\ pc[p] \in Critical
            BY <2>5 DEF IsRejected, Persisting, Critical
        <3>2. Persisting = {}
            BY <1>b, <3>1, Exclusive DEF Persisting, Critical
        <3>3. Persisting' = {}
            BY <2>2, <3>1, <3>2
        <3>4. Begun' /\ Current' /\ Dead'
            BY <1>c, <2>1, <2>2, <3>1, <3>3
        <3>5. QED
            BY <2>a, <2>b, <3>1, <3>4
    <2>6. CASE Stores(p) \/ Drops(p)
        <3>1. /\ p \in Persisting /\ pc[p] \in Critical /\ pc[p] = "persist"
              /\ pc'[p] \notin {"refresh", "persist"} /\ ~Condemns(p)'
              /\ account'.status = account.status
              /\ account'.gen = account.gen \/ account'.gen = run[p].got
            BY <2>6 DEF Stores, Drops, Persisting, Critical, TypeOK, Account
        <3>2. \A q \in Process : pc'[q] \notin {"refresh", "persist"}
            BY <1>b, <2>2, <3>1, Exclusive DEF Critical
        <3>3. account.gen <= account'.gen /\ account'.gen \in Int
            BY <1>a, <1>c, <1>d, <3>1
        <3>4. Begun'
            BY <1>a, <1>c, <2>1, <3>3
        <3>5. Current' /\ Dead'
            BY <1>c, <2>1, <2>2, <3>1, <3>2
        <3>6. QED
            BY <2>a, <2>b, <3>1, <3>4, <3>5
    <2>7. CASE Disables(p)
        <3>1. /\ Condemns(p) /\ account'.gen = account.gen /\ UNCHANGED provider
              /\ p \notin Persisting' /\ pc'[p] \notin {"refresh", "persist"}
            BY <2>7 DEF Disables, Condemns, Persisting, TypeOK, Account
        <3>2. Begun' /\ Current' /\ Dead'
            BY <1>c, <2>1, <2>2, <3>1
        <3>3. QED
            BY <2>a, <2>b, <3>1, <3>2
    <2>8. QED
        BY <2>1, <2>3, <2>c, <2>4, <2>5, <2>6, <2>7 DEF Effect
<1>2. ASSUME Calm, UNCHANGED <<provider, account, admin>>
      PROVE  Manual' /\ Begun' /\ Current' /\ Hand' /\ Dead'
    <2>1. /\ Persisting' \subseteq Persisting
          /\ \A p \in Process : Condemns(p)' => Condemns(p)
          /\ \A p \in Process : pc'[p] \in {"refresh", "persist"} =>
                 pc[p] \in {"refresh", "persist"} /\ run'[p].gen = run[p].gen
        BY <1>2, CalmFacts DEF Calm
    <2>2. Manual' /\ Begun' /\ Current' /\ Dead'
        BY <1>2, <1>c, <2>1
    <2>3. Hand'
        BY <1>2, <1>c, <2>1 DEF Applying
    <2>4. QED
        BY <2>2, <2>3
<1>3. CASE (\E i \in Instances : Crash(i)) \/ LockExpires
    BY <1>2, <1>3, CrashFacts, LockExpiresFacts DEF Remainder
<1>4. CASE TokenExpires \/ CacheExpires
    BY <1>2, <1>4 DEF TokenExpires, CacheExpires, Calm
<1>5. CASE StartManualRefresh \/ AdminStep
    <2>1. AdminEffect /\ UNCHANGED <<pc, run>>
        BY <1>5, AdminFacts DEF AdminRemainder
    <2>2. /\ Persisting' = Persisting
          /\ \A p \in Process : Condemns(p)' = Condemns(p)
        BY <2>1 DEF Persisting, Condemns
    <2>3. CASE AdminRotates
        <3>1. /\ admin.step = "refresh" /\ admin.gen = provider /\ provider' = provider + 1
              /\ admin'.step = "load" /\ admin'.manual = admin.manual /\ UNCHANGED account
              /\ \A p \in Process : pc[p] # "refresh"
            BY <2>3 DEF AdminRotates
        <3>2. account.gen = provider
            BY <1>a, <1>c, <1>d, <3>1
        <3>3. \A p \in Process : pc[p] # "persist"
            BY <1>a, <1>c, <1>d, <3>2 DEF Persisting
        <3>4. account.status = "active" /\ \A p \in Process : ~Condemns(p)
            BY <1>a, <1>c, <3>2
        <3>5. QED
            BY <1>c, <2>1, <2>2, <3>1, <3>3, <3>4 DEF Persisting
    <2>4. CASE AdminReads
        <3>1. /\ admin'.step = "refresh" /\ admin'.manual /\ admin'.gen = account.gen
              /\ UNCHANGED <<provider, account>>
            BY <2>4 DEF AdminReads
        <3>2. QED
            BY <1>a, <1>c, <2>1, <2>2, <3>1 DEF Applying
    <2>5. CASE AdminLoads
        <3>1. /\ Applying /\ admin'.step = "store" /\ admin'.status = account.status
              /\ admin'.manual = admin.manual /\ UNCHANGED <<provider, account>>
            BY <2>5 DEF AdminLoads, Applying
        <3>2. admin.manual
            BY <1>c, <3>1 DEF Applying
        <3>3. QED
            BY <1>c, <2>1, <2>2, <3>1, <3>2
    <2>6. CASE AdminStores
        <3>1. /\ admin.step = "store" /\ admin'.step \in {"idle", "clear", "invalidate"}
              /\ admin.manual => admin'.step # "clear"
              /\ account'.status = admin.status /\ UNCHANGED provider
            BY <2>6 DEF AdminStores
        <3>2. /\ Applying /\ admin.manual /\ account'.status = "active"
              /\ \A p \in Process : pc[p] \notin {"refresh", "persist"} /\ ~Condemns(p)
            BY <1>c, <3>1 DEF Applying
        <3>3. QED
            BY <2>1, <2>2, <3>1, <3>2 DEF Applying
    <2>7. CASE AdminClears
        BY <1>c, <2>7 DEF AdminClears
    <2>8. CASE AdminLoses
        <3>1. /\ provider' = provider + 1 /\ admin'.step = "idle" /\ UNCHANGED account
            BY <2>8 DEF AdminLoses
        <3>2. QED
            BY <1>a, <1>c, <1>d, <2>1, <2>2, <3>1 DEF Applying
    <2>9. CASE AdminEnds
        <3>1. /\ admin'.step \in {"idle", "invalidate"} /\ UNCHANGED <<provider, account>>
            BY <2>9 DEF AdminEnds
        <3>2. QED
            BY <1>c, <2>1, <2>2, <3>1 DEF Applying
    <2>10. QED
        BY <2>1, <2>3, <2>4, <2>5, <2>6, <2>7, <2>8, <2>9 DEF AdminEffect
<1>6. QED
    BY <1>1, <1>3, <1>4, <1>5, <1>b, NextCases

-----------------------------------------------------------------------------
(* The theorems                                                            *)

\* The invariant is inductive.
LEMMA Invariant == Spec => []IInv
<1>1. Init => IInv
    <2> SUFFICES ASSUME Init PROVE IInv
        OBVIOUS
    <2>1. /\ 1 \in Gen /\ 0 \in 0..MaxGen /\ 0 \in 0..MaxTroubles /\ "idle" \in Label /\ 0 < MaxGen
        BY RefreshAssumption DEF Gen, Label
    <2>2. NoRun \in Run
        BY RefreshAssumption DEF NoRun, Run, Label
    <2>3. /\ account.gen = 1 /\ account.status = "active" /\ account \in Account
        BY <2>1 DEF Init, Account
    <2>4. /\ \A p \in Process : pc[p] = "idle" /\ run[p] = NoRun
          /\ \A t \in Trouble : troubles[t] = 0
          /\ admin.step = "idle" /\ admin.gen = 0
        BY DEF Init, NoAdmin
    <2>5. NoRun.gen = 0 /\ NoRun.got = 0 /\ ~NoRun.locked /\ ~NoRun.late /\ NoRun.next = "idle"
        BY DEF NoRun
    <2>6. Persisting = {} /\ \A p \in Process : ~Condemns(p)
        BY <2>4 DEF Persisting, Condemns
    <2>7. TypeOK
        BY <2>1, <2>2, <2>3 DEF Init, TypeOK, NoAdmin, Admin
    <2>8. NextInv /\ MutexInv /\ LockInv /\ FreshInv
        BY <2>4, <2>5, <2>6 DEF NextInv, MutexInv, LockInv, FreshInv, Nexts, Critical
    <2>9. OrderInv
        BY <2>1, <2>3, <2>4, <2>5, <2>6 DEF OrderInv, Applying, Init
    <2>10. StoredInv /\ GrokInv /\ DeadInv
        BY <2>3, <2>4, <2>6 DEF StoredInv, GrokInv, DeadInv, Applying, ByHand, Init
    <2>11. QED
        BY <2>7, <2>8, <2>9, <2>10 DEF IInv
<1>2. IInv /\ [Next]_vars => IInv'
    <2>1. IInv /\ Next => IInv'
        BY TypeStep, OrderStep, FreshStep, MutexStep, LockStep, StoredStep, GrokStep, DeadStep
        DEF IInv
    <2>2. IInv /\ UNCHANGED vars => IInv'
        BY DEF vars, IInv, TypeOK, NextInv, OrderInv, FreshInv, MutexInv, LockInv, StoredInv,
               GrokInv, DeadInv, Persisting, Condemns, LockHolds, Process, Applying, ByHand
    <2>3. QED
        BY <2>1, <2>2
<1>3. QED
    BY <1>1, <1>2, PTL DEF Spec

\* Every variable keeps its type, whatever crashes, expires or fails.
THEOREM TypeCorrect == Spec => []TypeOK
<1>1. IInv => TypeOK
    BY DEF IInv
<1>2. QED
    BY <1>1, Invariant, PTL

\* At most one refresher is between the reread of the account and the write of its
\* credentials (RefreshIfNeeded): the mutex within an instance and the lock of Redis
\* between them exclude the others, unless a lease is lost or Redis does not answer.
THEOREM OneRefresherHolds == Spec => []OneRefresher
<1>1. IInv => OneRefresher
    <2> SUFFICES ASSUME IInv, troubles["lease"] + troubles["redis"] = 0
                 PROVE  Cardinality({p \in Process : pc[p] \in Critical}) <= 1
        BY DEF OneRefresher, Critical
    <2> DEFINE S == {p \in Process : pc[p] \in Critical}
    <2>1. LockHolds
        <3>1. troubles["lease"] \in Nat /\ troubles["redis"] \in Nat
            BY RefreshAssumption DEF IInv, TypeOK, Trouble
        <3>2. QED
            BY <3>1 DEF LockHolds
    <2>2. S \subseteq {lock}
        BY <2>1 DEF IInv, LockInv, LockHolds
    <2>3. IsFiniteSet({lock}) /\ Cardinality({lock}) = 1
        BY FS_Singleton
    <2>4. QED
        BY <2>2, <2>3, FS_Subset
<1>2. QED
    BY <1>1, Invariant, PTL

\* An account that a refresher has disabled (SetError) has credentials that the provider
\* does not accept any more, while the lock holds: neither a refresher nor an
\* administrator who has just replaced them is punished for it.
THEOREM HealthyNotDisabledHolds == Spec => []HealthyNotDisabled
<1>1. IInv => HealthyNotDisabled
    BY DEF IInv, HealthyNotDisabled, GrokInv, DeadInv, LockHolds
<1>2. QED
    BY <1>1, Invariant, PTL

\* Once all is quiet the row holds the credentials that the provider accepts, unless an
\* answer was lost: no refresher and, for Grok, no administrator overwrites newer ones.
THEOREM StoredIsUsableHolds == Spec => []StoredIsUsable
<1>1. IInv => StoredIsUsable
    BY DEF IInv, StoredIsUsable, StoredInv, Quiescent, Persisting, Applying
<1>2. QED
    BY <1>1, Invariant, PTL
=============================================================================
