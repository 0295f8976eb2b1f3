---------------------------- MODULE EffectClaims ----------------------------
(***************************************************************************)
(* What the journal of tool operations promises, without its rounds, ids,  *)
(* aliases, storage or processes: each fingerprint has at most one         *)
(* outstanding execution, its holder.  A holder is released when its       *)
(* outcome is known, which allows the effect to be repeated on purpose; a  *)
(* barred fingerprint, whose outcome is uncertain, is never released.      *)
(***************************************************************************)
CONSTANTS Fingerprint, OpId, NoOp

VARIABLES
    holder,   \* the outstanding execution of each fingerprint
    barred,   \* fingerprints that are not executed any more
    spent     \* executions that have begun

claimVars == <<holder, barred, spent>>

Held == {f \in Fingerprint : holder[f] # NoOp}

Released(S) == [f \in Fingerprint |-> IF f \in S THEN NoOp ELSE holder[f]]

Init ==
    /\ holder = [f \in Fingerprint |-> NoOp]
    /\ barred = {}
    /\ spent = {}

(* The outcomes of the executions that claim S are known.                  *)
Settle(S) ==
    /\ holder' = Released(S)
    /\ spent' = spent

(* An execution of f begins; the claim may pass on from a settled one.     *)
Execute(S, f, o) ==
    /\ o \notin spent
    /\ Released(S)[f] = NoOp
    /\ holder' = [Released(S) EXCEPT ![f] = o]
    /\ spent' = spent \cup {o}

Next ==
    \E S \in SUBSET (Held \ barred) :
        /\ Settle(S) \/ \E f \in Fingerprint, o \in OpId : Execute(S, f, o)
        /\ barred \subseteq barred'
        /\ barred' \subseteq {f \in Fingerprint : holder'[f] # NoOp}

Spec == Init /\ [][Next]_claimVars
=============================================================================
