----------------------------- MODULE MCBackground -----------------------------
(***************************************************************************)
(* What goes on beside the turn, for TLC: delegations, the passes of the   *)
(* catalogue, and the writers of the memory, each with its waits.  They    *)
(* share no state; the run explores one of them at a time, chosen in the   *)
(* first state.                                                            *)
(***************************************************************************)
EXTENDS Delegations, Catalog

CONSTANTS
    j1, s1, s2, k1, k2, a, b,
    Proc, Stamp, NoProc, Empty      \* of MemoryLock

VARIABLES focus, alive, stage, ticket, lock, old, reaper, seen, late, busy, ahead, lockFaults

Lock == INSTANCE MemoryLock WITH Pauses <- FALSE, faults <- lockFaults

lockVars == <<alive, stage, ticket, lock, old, reaper, seen, late, busy, ahead, lockFaults>>

(* One delegation and two terminals; the first terminal's timer and the    *)
(* start of its turn may look for notices at the same time.                *)
MCLauncher  == [j \in Job |-> s1]
MCSessionOf == [k \in Consumer |-> IF k = k1 THEN s1 ELSE s2]

(* Two providers, asked one at a time, the second of which has no key at   *)
(* the start; two callers beside the timer.                                *)
OneOfTwo == {{a}}

Init == focus \in {"delegations", "catalog", "lock"} /\ DelegationInit /\ CatalogInit /\ Lock!Init

InDelegations == focus = "delegations" /\ UNCHANGED <<focus, catalogVars, lockVars>>
InCatalog     == focus = "catalog"     /\ UNCHANGED <<focus, delegationVars, lockVars>>
InLock        == focus = "lock"        /\ UNCHANGED <<focus, delegationVars, catalogVars>>

vars == <<focus, delegationVars, catalogVars, lockVars>>

Next == \/ InDelegations /\ DelegationNext
        \/ InCatalog /\ CatalogNext
        \/ InLock /\ Lock!Next

Spec == /\ Init /\ [][Next]_vars
        /\ \A j \in Job : WF_vars(InDelegations /\ LauncherStep(j))
                          /\ WF_vars(InDelegations /\ ChildStep(j) /\ UNCHANGED <<faults, lost>>)
        /\ \A k \in Consumer : WF_vars(InDelegations /\ ConsumerStep(k))
        /\ WF_vars(InCatalog /\ PassStep) /\ WF_vars(InCatalog /\ Reading)
        /\ WF_vars(InCatalog /\ Again) /\ WF_vars(InCatalog /\ Timer)
        /\ \A p \in Proc : WF_vars(InLock /\ Lock!Step(p))
        /\ WF_vars(InLock /\ Lock!Ages)

(* Every wait of a writer is bounded when the clock reaches every deadline *)
(* (lines 121 and 134 of memory/lock.ts), and a lock that its owner will   *)
(* not release is reclaimed for the writer that waits (lines 42-98).       *)
WritersGetThrough ==
    /\ (\A p \in Proc : WF_vars(InLock /\ Lock!Expires(p))) =>
           \A p \in Proc : stage[p] = "queued" ~> stage[p] \in {"idle", "dead"}
    /\ Lock!LeftoverIsReclaimed

(* Every call is answered, and when the user stops changing keys the       *)
(* catalogue comes to show only providers that have one, each of them      *)
(* asked; again unless the cache was read during a pass.                   *)
CatalogSettles ==
    /\ \A c \in Caller : callers[c].stage \in {"queued", "again", "waiting"} ~> callers[c].stage = "answered"
    /\ focus = "catalog" =>
        <>[](crossed \/ (snapshot \subseteq configured /\ \A p \in configured : states[p] # "none"))
================================================================================
