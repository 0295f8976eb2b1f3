---------------------------- MODULE MCFreeRouting ----------------------------
(* A provider with one free route and a gateway with a free route to an    *)
(* upstream and a paid one.  Waits and breaker are scaled down to a few    *)
(* ticks: a rate limit and a spent quota wait longer than a passing fault. *)
(* The turn's call and a background call run at the same time.             *)
EXTENDS FreeRouting, TLC

CONSTANTS p1, p2, r1, r2, r3, u1, t, b

MCProviderOf == r1 :> p1 @@ r2 :> p2 @@ r3 :> p2
MCUpstreamOf == r1 :> NoUpstream @@ r2 :> u1 @@ r3 :> NoUpstream
OneKey  == p1 :> 1 @@ p2 :> 1
TwoKeys == p1 :> 2 @@ p2 :> 1
MCBase == [k \in FailureKind |-> IF k \in {"quota", "rate-limit"} THEN 2 ELSE 1]
MCCap  == MCBase
=============================================================================
