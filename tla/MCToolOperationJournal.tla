----------------------- MODULE MCToolOperationJournal -----------------------
(***************************************************************************)
(* Three executions, in two ways.  Either of at most two fingerprints      *)
(* under two call ids, so that an id is reused and a fingerprint retried   *)
(* under another; or of a fingerprint each, under an id of its own, so     *)
(* that the third meets the limit of two pending receipts, which the       *)
(* claims alone would not keep.                                            *)
(***************************************************************************)
EXTENDS ToolOperationJournal, TLC

Symmetry == Permutations(Fingerprint) \cup Permutations(CallId) \cup Permutations(OpId)

Known == {c \in CallId : aliases[c] # NoOp}

Retried ==
    /\ Cardinality({rows[o].fp : o \in Issued}) <= 2
    /\ Cardinality(Known \cup {rows[o].call : o \in Issued}) <= 2

Apart ==
    /\ \A c \in Known : rows[aliases[c]].call = c
    /\ \A o, p \in Issued : o # p => rows[o].fp # rows[p].fp /\ rows[o].call # rows[p].call

BoundedNext == Next /\ (Retried \/ Apart)'

BoundedSpec == Init /\ [][BoundedNext]_journalVars
=============================================================================
