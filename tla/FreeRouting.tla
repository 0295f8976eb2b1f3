----------------------------- MODULE FreeRouting -----------------------------
(***************************************************************************)
(* Model calls over the free routes of every provider:                     *)
(* src/providers/routing-provider.ts (calls, failover, keys, quarantine),  *)
(* src/routing/free-router.ts (the plan) and src/routing/health.ts (what   *)
(* is cooling down).                                                       *)
(*                                                                         *)
(* Calls run concurrently: the turn's own, its sub-agents', and those of   *)
(* titles and recaps all pass through one RoutingProvider and one health   *)
(* tracker.  A call chooses a route and runs on it with the key it had     *)
(* then; what it reports later meets the state other calls have left.      *)
(*                                                                         *)
(* Cooldowns are kept as the time that is left of them, not as the end    *)
(* the code keeps, so that the model needs no clock.                       *)
(* A health record belongs to a route or to the upstream provider of a     *)
(* gateway's routes, which is a route and a provider of its own.           *)
(***************************************************************************)
EXTENDS Naturals, FiniteSets

CONSTANTS
    Provider, Route, Upstream,
    ProviderOf,    \* provider of each route
    UpstreamOf,    \* upstream of each gateway route, NoUpstream of the others
    NoUpstream, NoRoute,
    Eligible,      \* routes classifyFreeEligibility proves free
    LastResort,    \* routers, planned after every other route
    Keys,          \* number of keys of each provider
    Call,
    Foreground,    \* calls of a running turn; the others are background calls
    Kinds,         \* kinds of failure that happen
    Base, Cap,     \* COOLDOWNS, in units of time
    Threshold,     \* PROVIDER_BREAKER_THRESHOLD
    MaxAttempts,   \* MAX_ROUTE_ATTEMPTS
    MaxFailures,   \* bound: failures in a row that are told apart
    RetryAfter     \* waits providers ask for; 0 when they ask for none

FailureKind == {"rate-limit", "quota", "unavailable", "model-unavailable",
                "credentials", "other"}
Passing     == {"unavailable", "other"}
Owner       == Provider \cup Upstream
Tracked     == Route \cup Upstream

ASSUME TopologyAssumption ==
    /\ ProviderOf \in [Route -> Provider]
    /\ UpstreamOf \in [Route -> Upstream \cup {NoUpstream}]
    /\ NoUpstream \notin Upstream /\ NoRoute \notin Route
    /\ Eligible \subseteq Route /\ LastResort \subseteq Route
    /\ Keys \in [Provider -> Nat \ {0}]
    /\ Foreground \subseteq Call

ASSUME HealthAssumption ==
    /\ Kinds \subseteq FailureKind
    /\ Base \in [FailureKind -> Nat \ {0}] /\ Cap \in [FailureKind -> Nat \ {0}]
    /\ {Threshold, MaxAttempts, MaxFailures} \subseteq Nat \ {0}
    /\ RetryAfter \subseteq Nat /\ 0 \in RetryAfter
    /\ \A k \in Kinds : Base[k] * 2^(MaxFailures - 1) >= Cap[k]

(* A fact of arithmetic that the provers do not know of.                   *)
ASSUME PowersAreNatural == \A n \in 0 .. MaxFailures - 1 : 2^n \in Nat

VARIABLES
    policy,        \* "free" or "mixed"
    health,        \* record of each route and upstream
    cooling,       \* cooldown of each provider and upstream
    keyIndex,      \* credentialIndex
    quarantined,   \* freeQuarantine
    calls,
    refused,       \* history: the keys each provider refused since it was configured
    asked          \* history: the wait that failures ask for and is not over

vars == <<policy, health, cooling, keyIndex, quarantined, calls, refused, asked>>

OwnerOf(k) == IF k \in Upstream THEN k ELSE ProviderOf[k]

Fresh  == [failures |-> 0, last |-> "none", wait |-> 0]
Warm   == [wait |-> 0, kind |-> "none"]
Idle   == [stage |-> "idle", auto |-> TRUE, route |-> NoRoute, key |-> 0,
           tried |-> {}, seen |-> FALSE, ok |-> FALSE]

Least(a, b)    == IF a <= b THEN a ELSE b
Greatest(a, b) == IF a >= b THEN a ELSE b

-----------------------------------------------------------------------------
(* The plan.                                                               *)

IsAvailable(k) == cooling[OwnerOf(k)].wait = 0 /\ health[k].wait = 0

(* Cooling after a passing fault, which is worth trying again early.       *)
IsTransient(k) ==
    LET p == cooling[OwnerOf(k)] IN
    /\ p.wait > 0 => p.kind \in Passing
    /\ IF health[k].wait > 0 THEN health[k].last \in Passing ELSE p.wait > 0

CooldownRemaining(k) == Greatest(cooling[OwnerOf(k)].wait, health[k].wait)

(* What a route depends on: its own record and its upstream's.             *)
Parts(r) == {r} \cup ({UpstreamOf[r]} \ {NoUpstream})

(* Faulty: a provider that charged a free call is planned again.           *)
CandidatesOfAnyone(c) == {r \in Eligible : r \notin calls[c].tried}

Candidates(c)   == {r \in Eligible : ProviderOf[r] \notin quarantined /\ r \notin calls[c].tried}
Available(c)    == {r \in Candidates(c) : \A k \in Parts(r) : IsAvailable(k)}
Probing(c)      == {r \in Candidates(c) : \A k \in Parts(r) : IsAvailable(k) \/ IsTransient(k)}
SoonestBack(r)  == LET waits == {CooldownRemaining(k) : k \in {k \in Parts(r) : ~IsAvailable(k)}}
                   IN  CHOOSE w \in waits : \A v \in waits : v <= w

(* The routes a plan may rank first; the score that orders them is data.   *)
Foremost(R) == IF R \ LastResort # {} THEN R \ LastResort ELSE R
First(c) ==
    IF Available(c) # {} THEN Foremost(Available(c))
    ELSE {r \in Foremost(Probing(c)) :
             \A q \in Foremost(Probing(c)) : SoonestBack(r) <= SoonestBack(q)}

-----------------------------------------------------------------------------
(* What happened to a call.                                                *)

Set(c, record) == calls' = [calls EXCEPT ![c] = record]

(* recordSuccess: the route and its provider answer again.                 *)
Succeeded(c) ==
    LET r == calls[c].route IN
    /\ health' = [health EXCEPT ![r] = Fresh]
    /\ cooling' = [cooling EXCEPT ![ProviderOf[r]] = Warm]
    /\ asked' = [asked EXCEPT ![r] = 0]

(* recordFailure, of the route and, when its allowance is out, upstream.   *)
Affected(r, kind) == IF kind \in {"quota", "rate-limit"} THEN Parts(r) ELSE {r}

Failures(k) == Least(health[k].failures + 1, MaxFailures)

(* What the provider asked for wins over the backoff; 0 when it said nothing.*)
Wait(k, kind, retryAfter) ==
    IF retryAfter > 0 THEN retryAfter
    ELSE Least(Cap[kind], Base[kind] * 2^(Failures(k) - 1))

(* Faulty: the last failure decides how long the route waits.              *)
HealthAfterLast(r, kind, retryAfter) ==
    [k \in Tracked |->
        IF k \in Affected(r, kind)
        THEN [failures |-> Failures(k), last |-> kind, wait |-> Wait(k, kind, retryAfter)]
        ELSE health[k]]

HealthAfter(r, kind, retryAfter) ==
    [k \in Tracked |->
        IF k \in Affected(r, kind)
        THEN [failures |-> Failures(k), last |-> kind,
              wait |-> Greatest(health[k].wait, Wait(k, kind, retryAfter))]
        ELSE health[k]]

(* The routes of an owner that are failing, once this failure is recorded. *)
Failing(p, after) ==
    {k \in Tracked : OwnerOf(k) = p /\ after[k].failures > 0 /\ after[k].wait > 0}

(* coolProvider: at once for a refused key or a spent quota, and when      *)
(* several of its routes are failing (noteProviderFailure).                *)
Cools(k, kind, after) ==
    \/ kind \in {"credentials", "quota"}
    \/ kind # "model-unavailable" /\ Cardinality(Failing(OwnerOf(k), after)) >= Threshold

CoolingAfter(r, kind, retryAfter) ==
    [p \in Owner |->
        IF \E k \in Affected(r, kind) :
               OwnerOf(k) = p /\ Cools(k, kind, HealthAfter(r, kind, retryAfter))
        THEN LET k == CHOOSE k \in Affected(r, kind) : OwnerOf(k) = p IN
             [wait |-> Greatest(cooling[p].wait, Wait(k, kind, retryAfter)), kind |-> kind]
        ELSE cooling[p]]

(* Another key of the provider is used from the next call on.              *)
Rotates(p, kind) == kind = "credentials" /\ keyIndex[p] + 1 < Keys[p]

Failed(c, kind, retryAfter) ==
    LET r == calls[c].route
        p == ProviderOf[r] IN
    /\ refused' = IF kind = "credentials"
                  THEN [refused EXCEPT ![p] = @ \cup {calls[c].key}] ELSE refused
    /\ IF Rotates(p, kind)
       THEN /\ keyIndex' = [keyIndex EXCEPT ![p] = @ + 1]
            /\ health' = [k \in Tracked |-> IF OwnerOf(k) = p THEN Fresh ELSE health[k]]
            /\ cooling' = [cooling EXCEPT ![p] = Warm]
            /\ asked' = [k \in Tracked |-> IF OwnerOf(k) = p THEN 0 ELSE asked[k]]
       ELSE /\ health' = HealthAfter(r, kind, retryAfter)
            /\ cooling' = CoolingAfter(r, kind, retryAfter)
            /\ asked' = [k \in Tracked |->
                            IF k \in Affected(r, kind) /\ kind \notin Passing
                            THEN Greatest(asked[k], Wait(k, kind, retryAfter))
                            ELSE asked[k]]
            /\ UNCHANGED keyIndex

-----------------------------------------------------------------------------
(* Calls.                                                                  *)

(* A request for the virtual free model, or for a route by name.           *)
Asks(c, auto) ==
    /\ calls[c].stage = "idle"
    /\ auto \/ c \in Foreground
    /\ Set(c, [Idle EXCEPT !.stage = "choosing", !.auto = auto])
    /\ UNCHANGED <<policy, health, cooling, keyIndex, quarantined, refused, asked>>

RunsOn(c, r) ==
    /\ Set(c, [calls[c] EXCEPT !.stage = "running", !.route = r,
                               !.key = keyIndex[ProviderOf[r]],
                               !.tried = @ \cup {r}])
    /\ UNCHANGED <<policy, health, cooling, keyIndex, quarantined, refused, asked>>

ChoosesRoute(c) ==
    /\ calls[c].stage = "choosing" /\ calls[c].auto
    /\ \E r \in First(c) : RunsOn(c, r)

ChoosesNamed(c, r) ==
    /\ calls[c].stage = "choosing" /\ ~calls[c].auto
    /\ policy = "free" => r \in Eligible /\ ProviderOf[r] \notin quarantined
    /\ RunsOn(c, r)

(* Nothing may be sent: no route is left, or the named one is not free.    *)
Refused(c) ==
    /\ calls[c].stage = "choosing"
    /\ IF calls[c].auto THEN First(c) = {}
       ELSE policy = "free" /\ \E r \in Route : r \notin Eligible \/ ProviderOf[r] \in quarantined
    /\ Set(c, Idle)
    /\ UNCHANGED <<policy, health, cooling, keyIndex, quarantined, refused, asked>>

(* Output of the route reaches the turn.  Background calls are not         *)
(* streamed (`simple`).                                                    *)
Yields(c) ==
    /\ calls[c].stage = "running" /\ ~calls[c].seen /\ c \in Foreground
    /\ Set(c, [calls[c] EXCEPT !.seen = TRUE])
    /\ UNCHANGED <<policy, health, cooling, keyIndex, quarantined, refused, asked>>

(* A step ends, after what it streamed.                                    *)
StepFinishes(c) ==
    /\ calls[c].stage = "running" /\ calls[c].seen
    /\ Succeeded(c)
    /\ Set(c, [calls[c] EXCEPT !.ok = TRUE])
    /\ UNCHANGED <<policy, keyIndex, quarantined, refused>>

(* Faulty: the upstream is condemned in place of the gateway.              *)
ChargedUpstream(c) ==
    /\ calls[c].stage = "running"
    /\ policy = "free"
    /\ quarantined' = quarantined \cup {UpstreamOf[calls[c].route]}
    /\ UNCHANGED <<policy, health, cooling, keyIndex, calls, refused, asked>>

(* checkServed: the provider reports a cost, another provider or another   *)
(* model than the route names.                                             *)
Charged(c) ==
    /\ calls[c].stage = "running"
    /\ policy = "free"
    /\ quarantined' = quarantined \cup {ProviderOf[calls[c].route]}
    /\ UNCHANGED <<policy, health, cooling, keyIndex, calls, refused, asked>>

Answers(c) ==
    /\ calls[c].stage = "running"
    /\ IF calls[c].ok THEN UNCHANGED <<health, cooling, asked>> ELSE Succeeded(c)
    /\ Set(c, Idle)
    /\ UNCHANGED <<policy, keyIndex, quarantined, refused>>

(* The stream fails.  The call moves on only if it may choose its route,   *)
(* has shown nothing and has attempts left.                                *)
Fails(c, kind, retryAfter) ==
    /\ calls[c].stage = "running"
    /\ retryAfter > 0 => kind \in {"quota", "rate-limit"}
    /\ Failed(c, kind, retryAfter)
    /\ IF calls[c].auto /\ ~calls[c].seen /\ Cardinality(calls[c].tried) < MaxAttempts
       THEN Set(c, [Idle EXCEPT !.stage = "choosing", !.tried = calls[c].tried])
       ELSE Set(c, Idle)
    /\ UNCHANGED <<policy, quarantined>>

(* The person pressed Esc: nobody's fault.                                 *)
Cancelled(c) ==
    /\ calls[c].stage = "running"
    /\ Set(c, Idle)
    /\ UNCHANGED <<policy, health, cooling, keyIndex, quarantined, refused, asked>>

-----------------------------------------------------------------------------
(* The session.                                                            *)

(* Faulty: the mode changes under a running turn.                          *)
SwitchModeAtOnce ==
    /\ policy' = IF policy = "free" THEN "mixed" ELSE "free"
    /\ UNCHANGED <<health, cooling, keyIndex, quarantined, calls, refused, asked>>

(* ctrl+f, between turns.                                                  *)
SwitchMode ==
    /\ \A c \in Foreground : calls[c].stage = "idle"
    /\ policy' = IF policy = "free" THEN "mixed" ELSE "free"
    /\ UNCHANGED <<health, cooling, keyIndex, quarantined, calls, refused, asked>>

(* resetConfigCache: keys were added, replaced or removed.                 *)
Reconfigured ==
    /\ health' = [k \in Tracked |-> Fresh]
    /\ cooling' = [p \in Owner |-> Warm]
    /\ keyIndex' = [p \in Provider |-> 0]
    /\ refused' = [p \in Provider |-> {}]
    /\ asked' = [k \in Tracked |-> 0]
    /\ UNCHANGED <<policy, quarantined, calls>>

(* Time passes: a record whose wait is over is as good as without a kind.  *)
Less(n) == IF n > 0 THEN n - 1 ELSE 0

Tick ==
    /\ health' = [k \in Tracked |->
                     [health[k] EXCEPT !.wait = Less(@),
                                       !.last = IF health[k].wait > 1 THEN @ ELSE "none"]]
    /\ cooling' = [p \in Owner |->
                      IF cooling[p].wait > 1 THEN [cooling[p] EXCEPT !.wait = Less(@)] ELSE Warm]
    /\ asked' = [k \in Tracked |-> Less(asked[k])]
    /\ UNCHANGED <<policy, keyIndex, quarantined, calls, refused>>

-----------------------------------------------------------------------------

Init ==
    /\ policy \in {"free", "mixed"}
    /\ health = [k \in Tracked |-> Fresh]
    /\ cooling = [p \in Owner |-> Warm]
    /\ keyIndex = [p \in Provider |-> 0]
    /\ quarantined = {}
    /\ calls = [c \in Call |-> Idle]
    /\ refused = [p \in Provider |-> {}]
    /\ asked = [k \in Tracked |-> 0]

Next ==
    \/ \E c \in Call :
        \/ \E auto \in BOOLEAN : Asks(c, auto)
        \/ ChoosesRoute(c)
        \/ \E r \in Route : ChoosesNamed(c, r)
        \/ Refused(c)
        \/ Yields(c)
        \/ StepFinishes(c)
        \/ Charged(c)
        \/ Answers(c)
        \/ \E kind \in Kinds, retryAfter \in RetryAfter : Fails(c, kind, retryAfter)
        \/ Cancelled(c)
    \/ SwitchMode
    \/ Reconfigured
    \/ Tick

Spec == Init /\ [][Next]_vars

-----------------------------------------------------------------------------
(* Properties.                                                             *)

Record   == [failures : 0 .. MaxFailures, last : FailureKind \cup {"none"}, wait : Nat]
CallType == [stage : {"idle", "choosing", "running"}, auto : BOOLEAN,
             route : Route \cup {NoRoute}, key : Nat, tried : SUBSET Route,
             seen : BOOLEAN, ok : BOOLEAN]

RoutingTypeOK ==
    /\ policy \in {"free", "mixed"}
    /\ health \in [Tracked -> Record]
    /\ cooling \in [Owner -> [wait : Nat, kind : FailureKind \cup {"none"}]]
    /\ \A p \in Provider : keyIndex[p] \in 0 .. Keys[p] - 1
    /\ quarantined \subseteq Provider
    /\ calls \in [Call -> CallType]

(* The call c is placed on a route by the step.                            *)
Placed(c) == calls[c].stage = "choosing" /\ calls'[c].stage = "running"

(* Nobody pays for Free mode: a call in Free mode, and a call that asks for*)
(* the virtual free model in either mode, reaches only a route proven free *)
(* of a provider that has never charged a free call, whatever failed       *)
(* before and however the call was retried.                                *)
FreeRunsFree ==
    [][\A c \in Call : Placed(c) /\ (policy = "free" \/ calls[c].auto) =>
           calls'[c].route \in Eligible /\ ProviderOf[calls'[c].route] \notin quarantined]_vars

(* A provider is condemned only for what it did to a free call: a paid call*)
(* that ends after the session went back to Free is no violation.          *)
OnlyFreeCallsCondemn ==
    [][\A p \in quarantined' \ quarantined :
           \E c \in Call : calls[c].stage = "running" /\ ProviderOf[calls[c].route] = p
                           /\ calls[c].route \in Eligible]_vars

(* An ordinary plan keeps the longest wait a failure asked for, also when  *)
(* other calls on the route fail later with shorter ones.                  *)
PatientPlans ==
    [][\A c \in Call :
           Placed(c) /\ calls[c].auto /\ calls'[c].route \in Available(c) =>
               \A k \in Parts(calls'[c].route) : asked[k] = 0]_vars

(* Probing is for passing faults: a route that asked for patience is not   *)
(* tried before its wait is over.                                          *)
(* In no run: the code does not keep it, as the kind of the last failure   *)
(* alone says whether a wait may be probed (see README).                   *)
ProbesOnlyPassingFaults ==
    [][\A c \in Call :
           Placed(c) /\ calls[c].auto =>
               \A k \in Parts(calls'[c].route) : asked[k] = 0]_vars

(* A refused key does not cool its provider down while another key of it   *)
(* has not been refused.                                                   *)
EveryKeyIsTried ==
    \A p \in Provider :
        cooling[p].wait > 0 /\ cooling[p].kind = "credentials" =>
            refused[p] = 0 .. Keys[p] - 1

=============================================================================
