--------------------------- MODULE FreeRouting_proofs ---------------------------
(***************************************************************************)
(* Theorems on calls over free routes, for any providers, gateways, keys,  *)
(* concurrent calls, failures and waits.                                   *)
(***************************************************************************)
EXTENDS FreeRouting, TLAPS

(* Health and cooldowns keep their types, and a record waits at least as   *)
(* long as the failures of its route asked for.                            *)
HealthTypes ==
    /\ health \in [Tracked -> Record]
    /\ cooling \in [Owner -> [wait : Nat, kind : FailureKind \cup {"none"}]]
    /\ keyIndex \in [Provider -> Nat]
    /\ \A p \in Provider : keyIndex[p] \in 0 .. Keys[p] - 1
    /\ asked \in [Tracked -> Nat]

WaitsCoverAsked == \A k \in Tracked : asked[k] <= health[k].wait

CallTypes ==
    /\ policy \in {"free", "mixed"}
    /\ quarantined \subseteq Provider
    /\ calls \in [Call -> CallType]

(* A background call never names a route, so that the mode may be changed  *)
(* while it runs.                                                          *)
BackgroundIsAuto ==
    \A c \in Call \ Foreground : calls[c].stage # "idle" => calls[c].auto

RunningOnFree ==
    \A c \in Call :
        calls[c].stage = "running" =>
            /\ calls[c].route \in Route
            /\ calls[c].auto \/ policy = "free" => calls[c].route \in Eligible

CallsInv   == CallTypes /\ BackgroundIsAuto /\ RunningOnFree
RoutingInv == HealthTypes /\ WaitsCoverAsked /\ CallsInv

-----------------------------------------------------------------------------
(* Health.                                                                 *)

(* The wait after a failure is a time, whoever sets it.                    *)
LEMMA WaitIsATime ==
    ASSUME HealthTypes, NEW k \in Tracked, NEW kind \in Kinds, NEW retryAfter \in RetryAfter
    PROVE  Wait(k, kind, retryAfter) \in Nat /\ Failures(k) \in 1 .. MaxFailures
  <1>1. MaxFailures \in Nat \ {0} /\ RetryAfter \subseteq Nat /\ kind \in FailureKind
        /\ Base[kind] \in Nat /\ Cap[kind] \in Nat
    BY HealthAssumption DEF HealthAssumption
  <1>2. health[k].failures \in 0 .. MaxFailures
    BY DEF HealthTypes, Record
  <1>3. Failures(k) \in 1 .. MaxFailures
    BY <1>1, <1>2 DEF Failures, Least
  <1>4. 2^(Failures(k) - 1) \in Nat
    <2> DEFINE n == Failures(k) - 1
    <2>1. n \in 0 .. MaxFailures - 1
      BY <1>1, <1>3
    <2>2. 2^n \in Nat
      BY <2>1, PowersAreNatural DEF PowersAreNatural
    <2> QED
      BY <2>2
  <1>5. Base[kind] * 2^(Failures(k) - 1) \in Nat
    BY <1>1, <1>4
  <1> QED
    BY <1>1, <1>3, <1>5 DEF Wait, Least

(* A failure touches records of its route and of the route's upstream.     *)
LEMMA AffectedAreTracked ==
    ASSUME NEW r \in Route, NEW kind
    PROVE  Affected(r, kind) \subseteq Tracked /\ Parts(r) \subseteq Tracked
  BY TopologyAssumption DEF TopologyAssumption, Affected, Parts, Tracked

(* The cooldown after a failure keeps its type.                            *)
LEMMA CoolingTypes ==
    ASSUME HealthTypes, NEW r \in Route, NEW kind \in Kinds, NEW retryAfter \in RetryAfter
    PROVE  CoolingAfter(r, kind, retryAfter) \in
               [Owner -> [wait : Nat, kind : FailureKind \cup {"none"}]]
  <1> DEFINE CT == [wait : Nat, kind : FailureKind \cup {"none"}]
             Hit(p) == \E k \in Affected(r, kind) :
                           OwnerOf(k) = p /\ Cools(k, kind, HealthAfter(r, kind, retryAfter))
  <1>1. kind \in FailureKind
    BY HealthAssumption DEF HealthAssumption
  <1>2. ASSUME NEW p \in Owner
        PROVE  CoolingAfter(r, kind, retryAfter)[p] \in CT
    <2>1. cooling[p] \in CT /\ cooling[p].wait \in Nat
      BY DEF HealthTypes
    <2>2. CASE Hit(p)
      <3> DEFINE chosen == CHOOSE k \in Affected(r, kind) : OwnerOf(k) = p
      <3>1. chosen \in Affected(r, kind)
        BY <2>2
      <3>2. Wait(chosen, kind, retryAfter) \in Nat
        BY <3>1, AffectedAreTracked, WaitIsATime
      <3>3. Greatest(cooling[p].wait, Wait(chosen, kind, retryAfter)) \in Nat
        BY <2>1, <3>2 DEF Greatest
      <3>4. CoolingAfter(r, kind, retryAfter)[p] =
                [wait |-> Greatest(cooling[p].wait, Wait(chosen, kind, retryAfter)), kind |-> kind]
        BY <2>2 DEF CoolingAfter
      <3> QED
        BY <1>1, <3>3, <3>4
    <2>3. CASE ~Hit(p)
      BY <2>1, <2>3 DEF CoolingAfter
    <2> QED
      BY <2>2, <2>3
  <1> QED
    BY <1>2 DEF CoolingAfter

(* A failure keeps the types, and what it asks for is added to what the    *)
(* record waits for: a shorter wait never replaces a longer one.           *)
LEMMA FailureKeepsHealth ==
    ASSUME HealthTypes, WaitsCoverAsked, NEW c \in Call, calls[c].route \in Route,
           NEW kind \in Kinds, NEW retryAfter \in RetryAfter, Failed(c, kind, retryAfter)
    PROVE  HealthTypes' /\ WaitsCoverAsked'
  <1> DEFINE r == calls[c].route
             p == ProviderOf[r]
  <1>1. p \in Provider /\ Keys \in [Provider -> Nat \ {0}] /\ kind \in FailureKind
    BY TopologyAssumption, HealthAssumption DEF TopologyAssumption, HealthAssumption
  <1>2. CASE Rotates(p, kind)
    <2>1. /\ keyIndex' = [keyIndex EXCEPT ![p] = @ + 1]
          /\ health' = [k \in Tracked |-> IF OwnerOf(k) = p THEN Fresh ELSE health[k]]
          /\ cooling' = [cooling EXCEPT ![p] = Warm]
          /\ asked' = [k \in Tracked |-> IF OwnerOf(k) = p THEN 0 ELSE asked[k]]
          /\ keyIndex[p] + 1 < Keys[p]
      BY <1>2 DEF Failed, Rotates
    <2>2. Fresh \in Record /\ Fresh.wait = 0
          /\ Warm \in [wait : Nat, kind : FailureKind \cup {"none"}]
      BY HealthAssumption DEF HealthAssumption, Fresh, Record, Warm
    <2> DEFINE CT == [wait : Nat, kind : FailureKind \cup {"none"}]
    <2>3. health' \in [Tracked -> Record] /\ asked' \in [Tracked -> Nat]
      BY <2>1, <2>2 DEF HealthTypes
    <2>4. keyIndex' \in [Provider -> Nat] /\ \A q \in Provider : keyIndex'[q] \in 0 .. Keys[q] - 1
      BY <1>1, <2>1 DEF HealthTypes
    <2>5. Warm \in CT /\ cooling \in [Owner -> CT]
      BY <2>2 DEF HealthTypes
    <2>6. cooling' \in [Owner -> CT]
      <3> HIDE DEF CT
      <3> QED
        BY <2>1, <2>5
    <2>7. HealthTypes'
      BY <2>3, <2>4, <2>6 DEF HealthTypes
    <2>8. WaitsCoverAsked'
      BY <2>1, <2>2 DEF WaitsCoverAsked
    <2> QED
      BY <2>7, <2>8
  <1>3. CASE ~Rotates(p, kind)
    <2>1. /\ keyIndex' = keyIndex
          /\ health' = HealthAfter(r, kind, retryAfter)
          /\ cooling' = CoolingAfter(r, kind, retryAfter)
          /\ asked' = [k \in Tracked |->
                          IF k \in Affected(r, kind) /\ kind \notin Passing
                          THEN Greatest(asked[k], Wait(k, kind, retryAfter))
                          ELSE asked[k]]
      BY <1>3 DEF Failed
    <2>2. ASSUME NEW k \in Tracked
          PROVE  health'[k] \in Record /\ asked'[k] \in Nat /\ asked'[k] <= health'[k].wait
      <3>1. /\ health[k] \in Record /\ health[k].wait \in Nat /\ asked[k] \in Nat
            /\ asked[k] <= health[k].wait
        BY DEF HealthTypes, WaitsCoverAsked, Record
      <3>2. Wait(k, kind, retryAfter) \in Nat /\ Failures(k) \in 0 .. MaxFailures
        BY WaitIsATime, HealthAssumption DEF HealthAssumption
      <3>3. CASE k \in Affected(r, kind)
        <4>1. health'[k] = [failures |-> Failures(k), last |-> kind,
                            wait |-> Greatest(health[k].wait, Wait(k, kind, retryAfter))]
          BY <2>1, <3>3 DEF HealthAfter
        <4>2. asked'[k] \in {asked[k], Greatest(asked[k], Wait(k, kind, retryAfter))}
          BY <2>1
        <4> QED
          BY <1>1, <3>1, <3>2, <4>1, <4>2 DEF Greatest, Record
      <3>4. CASE k \notin Affected(r, kind)
        BY <2>1, <3>1, <3>4 DEF HealthAfter
      <3> QED
        BY <3>3, <3>4
    <2>3. health' \in [Tracked -> Record] /\ asked' \in [Tracked -> Nat]
      BY <2>1, <2>2 DEF HealthAfter
    <2>4. HealthTypes'
      BY <2>1, <2>3, CoolingTypes DEF HealthTypes
    <2> QED
      BY <2>2, <2>4 DEF WaitsCoverAsked
  <1> QED
    BY <1>2, <1>3

(* So does a call that succeeds.                                           *)
LEMMA SuccessKeepsHealth ==
    ASSUME HealthTypes, WaitsCoverAsked, NEW c \in Call, calls[c].route \in Route,
           Succeeded(c), UNCHANGED keyIndex
    PROVE  HealthTypes' /\ WaitsCoverAsked'
  <1>1. Fresh \in Record /\ Fresh.wait = 0
        /\ Warm \in [wait : Nat, kind : FailureKind \cup {"none"}]
    BY HealthAssumption DEF HealthAssumption, Fresh, Record, Warm
  <1>2. calls[c].route \in Tracked
    BY DEF Tracked
  <1> DEFINE CT == [wait : Nat, kind : FailureKind \cup {"none"}]
  <1>3. Warm \in CT /\ cooling \in [Owner -> CT]
    BY <1>1 DEF HealthTypes
  <1>4. cooling' \in [Owner -> CT]
    <2> HIDE DEF CT
    <2> QED
      BY <1>3 DEF Succeeded
  <1>5. health' \in [Tracked -> Record] /\ asked' \in [Tracked -> Nat]
    BY <1>1, <1>2 DEF Succeeded, HealthTypes
  <1>6. HealthTypes'
    BY <1>4, <1>5 DEF HealthTypes
  <1>7. WaitsCoverAsked'
    BY <1>1, <1>2 DEF Succeeded, HealthTypes, WaitsCoverAsked
  <1> QED
    BY <1>6, <1>7

(* And time, which brings every wait down by the same.                     *)
LEMMA TimeKeepsHealth ==
    ASSUME HealthTypes, WaitsCoverAsked, Tick
    PROVE  HealthTypes' /\ WaitsCoverAsked'
  <1>1. ASSUME NEW k \in Tracked
        PROVE  health'[k] \in Record /\ asked'[k] \in Nat /\ asked'[k] <= health'[k].wait
    <2>1. /\ health[k] \in Record /\ health[k].wait \in Nat /\ asked[k] \in Nat
          /\ asked[k] <= health[k].wait
      BY DEF HealthTypes, WaitsCoverAsked, Record
    <2>2. /\ health'[k] = [health[k] EXCEPT !.wait = Less(@),
                               !.last = IF health[k].wait > 1 THEN @ ELSE "none"]
          /\ asked'[k] = Less(asked[k])
      BY DEF Tick
    <2>3. Less(asked[k]) \in Nat /\ Less(health[k].wait) \in Nat
          /\ Less(asked[k]) <= Less(health[k].wait)
      BY <2>1 DEF Less
    <2> QED
      BY <2>1, <2>2, <2>3 DEF Record
  <1>2. ASSUME NEW p \in Owner
        PROVE  cooling'[p] \in [wait : Nat, kind : FailureKind \cup {"none"}]
    <2>1. cooling[p] \in [wait : Nat, kind : FailureKind \cup {"none"}] /\ cooling[p].wait \in Nat
      BY DEF HealthTypes
    <2>2. cooling'[p] = IF cooling[p].wait > 1 THEN [cooling[p] EXCEPT !.wait = Less(@)] ELSE Warm
      BY DEF Tick
    <2>3. Less(cooling[p].wait) \in Nat
      BY <2>1 DEF Less
    <2> QED
      BY <2>1, <2>2, <2>3 DEF Warm
  <1> QED
    BY <1>1, <1>2 DEF Tick, HealthTypes, WaitsCoverAsked

-----------------------------------------------------------------------------
(* Calls.                                                                  *)

(* The new record of a call, and what the invariant asks of it.            *)
Allowed(c, record) ==
    /\ record \in CallType
    /\ c \notin Foreground /\ record.stage # "idle" => record.auto
    /\ record.stage = "running" =>
           /\ record.route \in Route
           /\ record.auto \/ policy = "free" => record.route \in Eligible

(* One call changes, by an allowed record.                                 *)
LEMMA OneCallChanges ==
    ASSUME CallsInv, NEW c \in Call, NEW record, Allowed(c, record), Set(c, record),
           quarantined' \subseteq Provider, UNCHANGED policy
    PROVE  CallsInv'
  <1>1. calls' \in [Call -> CallType]
        /\ \A d \in Call : calls'[d] = IF d = c THEN record ELSE calls[d]
    BY DEF CallsInv, CallTypes, Set, Allowed
  <1>2. CallTypes'
    BY <1>1 DEF CallsInv, CallTypes
  <1>3. BackgroundIsAuto'
    BY <1>1 DEF CallsInv, BackgroundIsAuto, Allowed
  <1>4. RunningOnFree'
    BY <1>1 DEF CallsInv, RunningOnFree, Allowed
  <1> QED
    BY <1>2, <1>3, <1>4 DEF CallsInv

(* A call that is over is allowed.                                         *)
LEMMA IdleIsAllowed == \A c \in Call : Allowed(c, Idle)
  BY DEF Allowed, Idle, CallType

(* What may be placed on: a candidate, or a route the person named.        *)
LEMMA FirstAreCandidates ==
    ASSUME NEW c \in Call
    PROVE  First(c) \subseteq Candidates(c)
  <1>1. \A R : Foremost(R) \subseteq R
    BY DEF Foremost
  <1>2. Available(c) \subseteq Candidates(c) /\ Probing(c) \subseteq Candidates(c)
    BY DEF Available, Probing
  <1> QED
    BY <1>1, <1>2 DEF First

(* A candidate is a free route of a provider that never charged one.       *)
LEMMA CandidatesAreFree ==
    ASSUME NEW c \in Call, NEW r \in Candidates(c)
    PROVE  r \in Eligible /\ r \in Route /\ ProviderOf[r] \notin quarantined
  BY TopologyAssumption DEF TopologyAssumption, Candidates

(* A call that is placed on a route.                                       *)
LEMMA PlacedKeepsCalls ==
    ASSUME RoutingInv, NEW c \in Call, NEW r \in Route, RunsOn(c, r),
           c \notin Foreground => calls[c].auto,
           calls[c].auto \/ policy = "free" => r \in Eligible
    PROVE  CallsInv'
  <1> DEFINE record == [calls[c] EXCEPT !.stage = "running", !.route = r,
                                        !.key = keyIndex[ProviderOf[r]],
                                        !.tried = @ \cup {r}]
  <1>1. calls[c] \in CallType /\ keyIndex[ProviderOf[r]] \in Nat
    BY TopologyAssumption DEF TopologyAssumption, RoutingInv, HealthTypes, CallsInv, CallTypes
  <1>2. record \in CallType /\ record.auto = calls[c].auto /\ record.route = r
    BY <1>1 DEF CallType
  <1>3. Allowed(c, record)
    BY <1>2 DEF Allowed
  <1>4. Set(c, record) /\ quarantined' \subseteq Provider /\ policy' = policy
    BY DEF RunsOn, RoutingInv, CallsInv, CallTypes
  <1> HIDE DEF record
  <1> QED
    BY <1>3, <1>4, OneCallChanges DEF RoutingInv

(* A call that goes on as it was, but for what it has shown.               *)
LEMMA ShownKeepsCalls ==
    ASSUME RoutingInv, NEW c \in Call, calls[c].stage = "running",
           \/ Set(c, [calls[c] EXCEPT !.seen = TRUE])
           \/ Set(c, [calls[c] EXCEPT !.ok = TRUE]),
           UNCHANGED <<policy, quarantined>>
    PROVE  CallsInv'
  <1>1. calls[c] \in CallType /\ Allowed(c, calls[c])
    BY DEF RoutingInv, CallsInv, CallTypes, BackgroundIsAuto, RunningOnFree, Allowed
  <1>2. \A record \in {[calls[c] EXCEPT !.seen = TRUE], [calls[c] EXCEPT !.ok = TRUE]} :
            Allowed(c, record)
    BY <1>1 DEF Allowed, CallType
  <1> QED
    BY <1>2, OneCallChanges DEF RoutingInv, CallsInv, CallTypes

-----------------------------------------------------------------------------
(* The invariant.                                                          *)

(* A step of a call keeps the invariant.                                   *)
LEMMA CallStep ==
    ASSUME RoutingInv, NEW c \in Call,
           \/ \E auto \in BOOLEAN : Asks(c, auto)
           \/ ChoosesRoute(c)
           \/ \E r \in Route : ChoosesNamed(c, r)
           \/ Refused(c) \/ Yields(c) \/ StepFinishes(c) \/ Charged(c) \/ Answers(c)
           \/ \E kind \in Kinds, retryAfter \in RetryAfter : Fails(c, kind, retryAfter)
           \/ Cancelled(c)
    PROVE  RoutingInv'
  <1>1. /\ HealthTypes /\ WaitsCoverAsked /\ CallsInv /\ quarantined \subseteq Provider
        /\ calls[c] \in CallType
        /\ calls[c].stage = "running" => calls[c].route \in Route
    BY DEF RoutingInv, CallsInv, CallTypes, RunningOnFree
  <1>2. ASSUME UNCHANGED <<health, cooling, keyIndex, asked>>
        PROVE  HealthTypes' /\ WaitsCoverAsked'
    BY <1>1, <1>2 DEF HealthTypes, WaitsCoverAsked
  <1>3. ASSUME NEW auto \in BOOLEAN, Asks(c, auto)
        PROVE  RoutingInv'
    <2>1. Allowed(c, [Idle EXCEPT !.stage = "choosing", !.auto = auto])
      BY <1>3 DEF Asks, Allowed, Idle, CallType
    <2> QED
      BY <1>1, <1>2, <1>3, <2>1, OneCallChanges DEF Asks, RoutingInv
  <1>4. CASE ChoosesRoute(c)
    <2>1. PICK r \in First(c) : RunsOn(c, r)
      BY <1>4 DEF ChoosesRoute
    <2>2. r \in Eligible /\ r \in Route /\ calls[c].auto
      BY <1>4, <2>1, FirstAreCandidates, CandidatesAreFree DEF ChoosesRoute
    <2>3. CallsInv'
      BY <2>1, <2>2, PlacedKeepsCalls
    <2> QED
      BY <1>2, <2>1, <2>3 DEF RunsOn, RoutingInv
  <1>5. ASSUME NEW r \in Route, ChoosesNamed(c, r)
        PROVE  RoutingInv'
    <2>1. c \in Foreground
      BY <1>1, <1>5 DEF ChoosesNamed, CallsInv, BackgroundIsAuto
    <2>2. CallsInv'
      BY <1>5, <2>1, PlacedKeepsCalls DEF ChoosesNamed
    <2> QED
      BY <1>2, <1>5, <2>2 DEF ChoosesNamed, RunsOn, RoutingInv
  <1>6. ASSUME Set(c, Idle), UNCHANGED <<policy, quarantined>>
        PROVE  CallsInv'
    BY <1>1, <1>6, IdleIsAllowed, OneCallChanges
  <1>7. CASE Refused(c) \/ Cancelled(c)
    BY <1>2, <1>6, <1>7 DEF Refused, Cancelled, RoutingInv
  <1>8. CASE Yields(c)
    BY <1>2, <1>8, ShownKeepsCalls DEF Yields, RoutingInv
  <1>9. CASE StepFinishes(c)
    BY <1>1, <1>9, ShownKeepsCalls, SuccessKeepsHealth DEF StepFinishes, RoutingInv
  <1>10. CASE Charged(c)
    <2>1. ProviderOf[calls[c].route] \in Provider
      BY <1>1, <1>10, TopologyAssumption DEF TopologyAssumption, Charged
    <2>2. CallsInv'
      BY <1>1, <1>10, <2>1 DEF Charged, CallsInv, CallTypes, BackgroundIsAuto, RunningOnFree
    <2> QED
      BY <1>2, <1>10, <2>2 DEF Charged, RoutingInv
  <1>11. CASE Answers(c)
    BY <1>1, <1>2, <1>6, <1>11, SuccessKeepsHealth DEF Answers, RoutingInv
  <1>12. ASSUME NEW kind \in Kinds, NEW retryAfter \in RetryAfter, Fails(c, kind, retryAfter)
         PROVE  RoutingInv'
    <2>1. HealthTypes' /\ WaitsCoverAsked'
      BY <1>1, <1>12, FailureKeepsHealth DEF Fails
    <2>2. Allowed(c, [Idle EXCEPT !.stage = "choosing", !.tried = calls[c].tried])
      BY <1>1 DEF Allowed, Idle, CallType
    <2>3. CallsInv'
      BY <1>1, <1>6, <1>12, <2>2, OneCallChanges DEF Fails
    <2> QED
      BY <2>1, <2>3 DEF RoutingInv
  <1> QED
    BY <1>3, <1>4, <1>5, <1>7, <1>8, <1>9, <1>10, <1>11, <1>12

(* So does every other step: the mode changes only while no turn runs, and *)
(* background calls run on free routes in either mode.                     *)
LEMMA RoutingStep ==
    ASSUME RoutingInv, [Next]_vars
    PROVE  RoutingInv'
  <1>1. HealthTypes /\ WaitsCoverAsked /\ CallsInv /\ CallTypes
    BY DEF RoutingInv, CallsInv
  <1>2. CASE SwitchMode
    <2>1. CallsInv'
      BY <1>1, <1>2 DEF SwitchMode, CallsInv, CallTypes, BackgroundIsAuto, RunningOnFree
    <2>2. HealthTypes' /\ WaitsCoverAsked'
      BY <1>1, <1>2 DEF SwitchMode, HealthTypes, WaitsCoverAsked
    <2> QED
      BY <2>1, <2>2 DEF RoutingInv
  <1>3. ASSUME UNCHANGED <<policy, quarantined, calls>>
        PROVE  CallsInv'
    BY <1>1, <1>3 DEF CallsInv, CallTypes, BackgroundIsAuto, RunningOnFree
  <1>4. CASE Reconfigured
    <2>1. Fresh \in Record /\ Fresh.wait = 0
          /\ Warm \in [wait : Nat, kind : FailureKind \cup {"none"}]
      BY HealthAssumption DEF HealthAssumption, Fresh, Record, Warm
    <2>2. \A p \in Provider : Keys[p] \in Nat \ {0}
      BY TopologyAssumption DEF TopologyAssumption
    <2>3. HealthTypes' /\ WaitsCoverAsked'
      BY <1>4, <2>1, <2>2 DEF Reconfigured, HealthTypes, WaitsCoverAsked
    <2> QED
      BY <1>3, <1>4, <2>3 DEF Reconfigured, RoutingInv
  <1>5. CASE Tick
    BY <1>1, <1>3, <1>5, TimeKeepsHealth DEF Tick, RoutingInv
  <1>6. CASE UNCHANGED vars
    BY <1>1, <1>3, <1>6 DEF vars, RoutingInv, HealthTypes, WaitsCoverAsked
  <1> QED
    BY <1>2, <1>4, <1>5, <1>6, CallStep DEF Next

(* A session starts with nothing known.                                    *)
LEMMA RoutingStarts == ASSUME Init PROVE RoutingInv
  <1>1. Fresh \in Record /\ Fresh.wait = 0
        /\ Warm \in [wait : Nat, kind : FailureKind \cup {"none"}]
    BY HealthAssumption DEF HealthAssumption, Fresh, Record, Warm
  <1>2. \A p \in Provider : Keys[p] \in Nat \ {0}
    BY TopologyAssumption DEF TopologyAssumption
  <1>3. HealthTypes /\ WaitsCoverAsked
    BY <1>1, <1>2 DEF Init, HealthTypes, WaitsCoverAsked
  <1>4. CallsInv
    BY DEF Init, CallsInv, CallTypes, BackgroundIsAuto, RunningOnFree, Idle, CallType
  <1> QED
    BY <1>3, <1>4 DEF RoutingInv

(* Who is placed by a step, and where.                                     *)
LEMMA Placements ==
    ASSUME RoutingInv, [Next]_vars, NEW c \in Call, Placed(c)
    PROVE  \/ calls[c].auto /\ calls'[c].route \in First(c)
           \/ /\ ~calls[c].auto
              /\ policy = "free" => calls'[c].route \in Eligible
                                    /\ ProviderOf[calls'[c].route] \notin quarantined
  <1>1. calls \in [Call -> CallType]
    BY DEF RoutingInv, CallsInv, CallTypes
  <1>2. ASSUME NEW d \in Call, NEW record, Set(d, record), record.stage # "running" \/ calls[d].stage # "choosing"
        PROVE  FALSE
    BY <1>1, <1>2 DEF Set, Placed
  <1>3. ASSUME calls' = calls
        PROVE  FALSE
    BY <1>3 DEF Placed
  <1>4. SwitchMode \/ Reconfigured \/ Tick \/ UNCHANGED vars => calls' = calls
    BY DEF SwitchMode, Reconfigured, Tick, vars
  <1>5. ASSUME NEW d \in Call, NEW auto \in BOOLEAN, Asks(d, auto)
        PROVE  FALSE
    <2>1. [Idle EXCEPT !.stage = "choosing", !.auto = auto].stage # "running"
      BY DEF Idle
    <2> QED
      BY <1>2, <1>5, <2>1 DEF Asks
  <1>6. ASSUME NEW d \in Call, Yields(d) \/ StepFinishes(d)
        PROVE  FALSE
    BY <1>2, <1>6 DEF Yields, StepFinishes
  <1>7. ASSUME NEW d \in Call, Refused(d) \/ Answers(d) \/ Cancelled(d)
        PROVE  FALSE
    BY <1>2, <1>7 DEF Refused, Answers, Cancelled, Idle
  <1>8. ASSUME NEW d \in Call, NEW kind, NEW retryAfter, Fails(d, kind, retryAfter)
        PROVE  FALSE
    BY <1>2, <1>8 DEF Fails, Idle
  <1>9. ASSUME NEW d \in Call, Charged(d)
        PROVE  FALSE
    BY <1>3, <1>9 DEF Charged
  <1>10. PICK d \in Call : ChoosesRoute(d) \/ \E r \in Route : ChoosesNamed(d, r)
    BY <1>3, <1>4, <1>5, <1>6, <1>7, <1>8, <1>9 DEF Next
  <1>11. ASSUME NEW r, RunsOn(d, r)
         PROVE  d = c /\ calls'[c].route = r
    BY <1>1, <1>11 DEF RunsOn, Set, Placed, CallType
  <1>12. CASE ChoosesRoute(d)
    BY <1>11, <1>12 DEF ChoosesRoute
  <1>13. CASE \E r \in Route : ChoosesNamed(d, r)
    BY <1>11, <1>13 DEF ChoosesNamed
  <1> QED
    BY <1>10, <1>12, <1>13

-----------------------------------------------------------------------------
(* Theorems.                                                               *)

(* The invariant holds whatever calls, failures, switches of the mode and  *)
(* changes of keys there are.                                              *)
THEOREM RoutingKeepsInv == Spec => []RoutingInv
  BY RoutingStarts, RoutingStep, PTL DEF Spec

(* Calls, health, cooldowns and keys keep their types; the index of a key  *)
(* stays below the number of keys, however many calls report a refused one.*)
THEOREM RoutingTypeCorrect == Spec => []RoutingTypeOK
  <1>1. RoutingInv => RoutingTypeOK
    BY DEF RoutingInv, HealthTypes, CallsInv, CallTypes, RoutingTypeOK
  <1> QED
    BY <1>1, RoutingKeepsInv, PTL

(* In Free mode, and for the virtual free model, nothing is placed on a    *)
(* route that is not proven free or whose provider charged a free call.    *)
THEOREM FreeModeIsFree == Spec => FreeRunsFree
  <1>1. RoutingInv /\ [Next]_vars =>
            (\A c \in Call : Placed(c) /\ (policy = "free" \/ calls[c].auto) =>
                calls'[c].route \in Eligible /\ ProviderOf[calls'[c].route] \notin quarantined)
    BY Placements, FirstAreCandidates, CandidatesAreFree
  <1> QED
    BY <1>1, RoutingKeepsInv, PTL DEF Spec, FreeRunsFree

(* A provider is condemned for a free call only, although calls that began *)
(* in the other mode may still run.                                        *)
THEOREM CondemnedForFreeCalls == Spec => OnlyFreeCallsCondemn
  <1>1. ASSUME RoutingInv, [Next]_vars, NEW p \in quarantined' \ quarantined
        PROVE  \E c \in Call : /\ calls[c].stage = "running" /\ ProviderOf[calls[c].route] = p
                              /\ calls[c].route \in Eligible
    <2>1. ASSUME NEW c \in Call,
                 \/ \E auto \in BOOLEAN : Asks(c, auto)
                 \/ ChoosesRoute(c) \/ \E r \in Route : ChoosesNamed(c, r)
                 \/ Refused(c) \/ Cancelled(c)
          PROVE  quarantined' = quarantined
      BY <2>1 DEF Asks, ChoosesRoute, ChoosesNamed, RunsOn, Refused, Cancelled
    <2>2. ASSUME NEW c \in Call,
                 \/ Yields(c) \/ StepFinishes(c) \/ Answers(c)
                 \/ \E kind \in Kinds, retryAfter \in RetryAfter : Fails(c, kind, retryAfter)
          PROVE  quarantined' = quarantined
      BY <2>2 DEF Yields, StepFinishes, Answers, Fails
    <2>3. SwitchMode \/ Reconfigured \/ Tick \/ UNCHANGED vars => quarantined' = quarantined
      BY DEF SwitchMode, Reconfigured, Tick, vars
    <2>4. PICK c \in Call : Charged(c)
      BY <1>1, <2>1, <2>2, <2>3 DEF Next
    <2>5. /\ calls[c].stage = "running" /\ policy = "free" /\ p = ProviderOf[calls[c].route]
      BY <1>1, <2>4 DEF Charged
    <2>6. calls[c].route \in Eligible
      BY <1>1, <2>5 DEF RoutingInv, CallsInv, RunningOnFree
    <2> QED
      BY <2>5, <2>6
  <1>2. RoutingInv /\ [Next]_vars =>
            (\A p \in quarantined' \ quarantined :
                \E c \in Call : calls[c].stage = "running" /\ ProviderOf[calls[c].route] = p
                                /\ calls[c].route \in Eligible)
    BY <1>1
  <1> QED
    BY <1>2, RoutingKeepsInv, PTL DEF Spec, OnlyFreeCallsCondemn

(* A route that is planned as available has waited for all it was asked    *)
(* to, whichever calls failed on it and in which order.                    *)
THEOREM PlansArePatient == Spec => PatientPlans
  <1>1. ASSUME RoutingInv, NEW c \in Call, NEW r \in Available(c), NEW k \in Parts(r)
        PROVE  asked[k] = 0
    <2>1. r \in Route
      BY CandidatesAreFree DEF Available
    <2>2. k \in Tracked
      BY <2>1, AffectedAreTracked
    <2>3. health[k].wait = 0
      BY DEF Available, IsAvailable
    <2> QED
      BY <1>1, <2>2, <2>3 DEF RoutingInv, HealthTypes, WaitsCoverAsked
  <1>2. RoutingInv /\ [Next]_vars =>
            (\A c \in Call :
                Placed(c) /\ calls[c].auto /\ calls'[c].route \in Available(c) =>
                    \A k \in Parts(calls'[c].route) : asked[k] = 0)
    BY <1>1
  <1> QED
    BY <1>2, RoutingKeepsInv, PTL DEF Spec, PatientPlans
=============================================================================
