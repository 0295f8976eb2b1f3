--------------------- MODULE ToolOperationJournal_proofs ---------------------
(***************************************************************************)
(* Proofs about the journal of tool operations, for every set of           *)
(* fingerprints, call ids and operations and every limit.                  *)
(***************************************************************************)
EXTENDS ToolOperationJournal, FiniteSetTheorems, TLAPS

USE DEF OpState, Outcome

-----------------------------------------------------------------------------
(* Lemmas about the operators.                                             *)

(* Holder returns a member of its set with the fingerprint asked for, and  *)
(* NoOp only when there is none.                                           *)
LEMMA HolderFacts ==
    ASSUME NEW S \in SUBSET OpId, NEW f
    PROVE  /\ Holder(S, f) \in OpId \cup {NoOp}
           /\ Holder(S, f) # NoOp => Holder(S, f) \in S /\ rows[Holder(S, f)].fp = f
           /\ Holder(S, f) = NoOp => \A o \in S : rows[o].fp # f
    BY NoOpAssumption DEF Holder

(* A release keeps the store and the barriers typed.                       *)
LEMMA ReleaseType ==
    ASSUME TypeOK, NEW D \in SUBSET OpId, \A o \in D : rows[o] # NoRow
    PROVE  /\ RowsAfter(D) \in [OpId -> Row \cup {NoRow}]
           /\ BarriersAfter(D) \in [Fingerprint -> OpId \cup {NoOp}]
    BY DEF TypeOK, RowsAfter, BarriersAfter, Row

(* What answers a call is an operation or nothing.                         *)
LEMMA PreviousType ==
    ASSUME TypeOK, NEW D \in SUBSET OpId, NEW c \in CallId, NEW f \in Fingerprint
    PROVE  Previous(c, f, D) \in OpId \cup {NoOp}
    BY HolderFacts DEF TypeOK, Previous, BarriersAfter

(* What the releases of a step D may be: pending receipts of tools that    *)
(* have returned, and barred only by themselves.                           *)
LEMMA ReleasableFacts ==
    ASSUME IInv, NEW M, NEW D \in SUBSET Ackable(M)
    PROVE  /\ ~loadProblem \/ D = {}
           /\ D \subseteq Pending
           /\ D \cap (running \cup strays) = {}
           /\ D \subseteq OpId
           /\ \A o \in D : rows[o] # NoRow /\ rows[o] \in Row
    <1>1. D \subseteq operations
        BY DEF Ackable
    <1>2. (~loadProblem \/ D = {}) /\ D \subseteq Pending
        BY <1>1 DEF IInv, ReceiptsAgree
    <1>3. \A o \in D : rows[o] # NoRow /\ rows[o] \in Row /\ o \in OpId
        BY <1>2 DEF IInv, TypeOK, Pending, Issued
    <1>4. D \cap running = {}
        BY DEF Ackable, IInv, ExecutingIsStarted
    <1>5. D \cap strays = {}
        BY <1>2 DEF Ackable, IInv, StraysAreBarred
    <1> QED
        BY <1>2, <1>3, <1>4, <1>5

(* Releasing D leaves every other receipt as it is and takes exactly D out *)
(* of the pending ones.                                                    *)
LEMMA ReleasedRows ==
    ASSUME IInv, NEW M, NEW D \in SUBSET Ackable(M)
    PROVE  /\ RowsAfter(D) \in [OpId -> Row \cup {NoRow}]
           /\ \A o \in OpId :
                  /\ RowsAfter(D)[o] = NoRow <=> rows[o] = NoRow
                  /\ rows[o] # NoRow =>
                        /\ RowsAfter(D)[o].fp = rows[o].fp
                        /\ RowsAfter(D)[o].state = rows[o].state
                        /\ RowsAfter(D)[o].acked <=> rows[o].acked \/ o \in D
    <1>1. RowsAfter(D) \in [OpId -> Row \cup {NoRow}]
        BY ReleasableFacts, ReleaseType DEF IInv
    <1>2. ASSUME NEW o \in OpId
          PROVE  /\ RowsAfter(D)[o] = NoRow <=> rows[o] = NoRow
                 /\ rows[o] # NoRow =>
                       /\ RowsAfter(D)[o].fp = rows[o].fp
                       /\ RowsAfter(D)[o].state = rows[o].state
                       /\ RowsAfter(D)[o].acked <=> rows[o].acked \/ o \in D
        <2>1. CASE o \in D
            <3>1. rows[o] # NoRow /\ rows[o] \in Row
                BY <2>1, ReleasableFacts
            <3>2. RowsAfter(D)[o] = [rows[o] EXCEPT !.acked = TRUE]
                BY <2>1 DEF RowsAfter
            <3>3. /\ RowsAfter(D)[o] \in Row
                  /\ RowsAfter(D)[o].fp = rows[o].fp
                  /\ RowsAfter(D)[o].state = rows[o].state
                  /\ RowsAfter(D)[o].acked = TRUE
                BY <3>1, <3>2 DEF Row
            <3> QED
                BY <2>1, <3>1, <3>3, NoRowAssumption
        <2>2. CASE o \notin D
            BY <2>2 DEF RowsAfter
        <2> QED
            BY <2>1, <2>2
    <1> QED
        BY <1>1, <1>2

(* What a release leaves of the pending receipts and of the barriers.      *)
LEMMA ReleaseLeaves ==
    ASSUME IInv, NEW M, NEW D \in SUBSET Ackable(M), rows' = RowsAfter(D)
    PROVE  /\ Issued' = Issued
           /\ Pending' = Pending \ D
           /\ \A f \in Fingerprint : BarriersAfter(D)[f] # NoOp =>
                  /\ BarriersAfter(D)[f] \in operations \ D
                  /\ rows[BarriersAfter(D)[f]].fp = f
           /\ ~loadProblem => \A o \in strays : BarriersAfter(D)[rows[o].fp] # NoOp
    <1>1. Issued' = Issued /\ Pending' = Pending \ D
        <2>1. \A o \in OpId :
                  /\ rows'[o] = NoRow <=> rows[o] = NoRow
                  /\ rows[o] # NoRow => (rows'[o].acked <=> rows[o].acked \/ o \in D)
            BY ReleasedRows
        <2>2. Issued' = Issued
            BY <2>1 DEF Issued
        <2>3. Pending' = {o \in Issued : ~rows[o].acked /\ o \notin D}
            BY <2>1, <2>2 DEF Pending, Issued
        <2> QED
            BY <2>2, <2>3 DEF Pending
    <1>2. \A f \in Fingerprint : BarriersAfter(D)[f] # NoOp =>
              /\ BarriersAfter(D)[f] \in operations \ D
              /\ rows[BarriersAfter(D)[f]].fp = f
        BY DEF BarriersAfter, IInv, BarriersHold
    <1>3. ASSUME ~loadProblem, NEW o \in strays
          PROVE  BarriersAfter(D)[rows[o].fp] # NoOp
        <2>1. o \in Pending /\ o \notin D /\ rows[o].fp \in Fingerprint
            BY ReleasableFacts DEF IInv, ExecutingIsStarted, TypeOK, Pending, Issued, Row
        <2>2. \A p \in D : rows[p].fp # rows[o].fp
            BY <2>1, ReleasableFacts DEF IInv, SingleClaim
        <2>3. barriers[rows[o].fp] # NoOp
            BY <1>3 DEF IInv, StraysAreBarred
        <2> QED
            BY <2>1, <2>2, <2>3 DEF BarriersAfter
    <1> QED
        BY <1>1, <1>2, <1>3

(* What answers a call that is not an id reused: a receipt that is still   *)
(* held, with the fingerprint of the call; nothing answers it only when no *)
(* held receipt has its fingerprint.                                       *)
LEMMA PreviousFacts ==
    ASSUME IInv, NEW M, NEW D \in SUBSET Ackable(M),
           NEW c \in CallId, NEW f \in Fingerprint, ~IdReused(c, f)
    PROVE  /\ Previous(c, f, D) # NoOp =>
                  /\ Previous(c, f, D) \in operations \ D
                  /\ rows[Previous(c, f, D)].fp = f
           /\ Previous(c, f, D) = NoOp =>
                  /\ BarriersAfter(D)[f] = NoOp
                  /\ \A o \in operations \ D : rows[o].fp # f
    <1> DEFINE held == operations \ D
    <1>1. held \in SUBSET OpId
        BY DEF IInv, TypeOK
    <1>2. /\ Holder(held, f) # NoOp => Holder(held, f) \in held /\ rows[Holder(held, f)].fp = f
          /\ Holder(held, f) = NoOp => \A o \in held : rows[o].fp # f
        BY <1>1, HolderFacts
    <1>3. BarriersAfter(D)[f] # NoOp =>
              BarriersAfter(D)[f] \in held /\ rows[BarriersAfter(D)[f]].fp = f
        BY DEF BarriersAfter, IInv, BarriersHold
    <1>4. aliases[c] \in held => aliases[c] # NoOp /\ rows[aliases[c]].fp = f
        BY <1>1, NoOpAssumption DEF IdReused
    <1> HIDE DEF held
    <1>5. Previous(c, f, D) = IF BarriersAfter(D)[f] # NoOp THEN BarriersAfter(D)[f]
                              ELSE IF aliases[c] \in held THEN aliases[c]
                              ELSE Holder(held, f)
        BY DEF Previous, held
    <1>6. /\ Previous(c, f, D) # NoOp =>
                  Previous(c, f, D) \in held /\ rows[Previous(c, f, D)].fp = f
          /\ Previous(c, f, D) = NoOp =>
                  BarriersAfter(D)[f] = NoOp /\ \A o \in held : rows[o].fp # f
        BY <1>2, <1>3, <1>4, <1>5
    <1> QED
        BY <1>6 DEF held

-----------------------------------------------------------------------------
(* Each step of the journal preserves IInv.                                *)

(* A step that releases D, starts and ends no tool, and only adds barriers *)
(* that are held: Acknowledge, Replay, and with D = {} the steps between   *)
(* rounds.                                                                 *)
LEMMA ReleasePreserves ==
    ASSUME IInv, NEW M, NEW D \in SUBSET Ackable(M),
           rows' = RowsAfter(D),
           operations' = operations \ D,
           UNCHANGED <<loadProblem, state, running, strays>>,
           barriers' \in [Fingerprint -> OpId \cup {NoOp}],
           \A f \in Fingerprint : barriers'[f] # NoOp =>
               barriers'[f] \in operations \ D /\ rows[barriers'[f]].fp = f,
           \A f \in Fingerprint : BarriersAfter(D)[f] # NoOp => barriers'[f] # NoOp,
           aliases' \in [CallId -> OpId \cup {NoOp}],
           observed' \subseteq CallId \X OpId,
           recovered' \subseteq CallId
    PROVE  IInv'
    <1>1. /\ Pending' = Pending \ D
          /\ D \subseteq Pending
          /\ D \cap (running \cup strays) = {}
          /\ ~loadProblem \/ D = {}
        BY ReleaseLeaves, ReleasableFacts
    <1>2. \A o \in OpId : rows[o] # NoRow =>
              rows'[o].fp = rows[o].fp /\ rows'[o].state = rows[o].state
        BY ReleasedRows
    <1>3. \A o \in Pending : o \in OpId /\ rows[o] # NoRow /\ rows[o].fp \in Fingerprint
        BY DEF IInv, TypeOK, Pending, Issued, Row
    <1>4. operations \subseteq Pending
        BY DEF IInv, ReceiptsAgree
    <1>5. TypeOK'
        BY ReleasedRows DEF IInv, TypeOK
    <1>6. ReceiptsAgree'
        BY <1>1 DEF IInv, ReceiptsAgree
    <1>7. SingleClaim'
        BY <1>1, <1>2, <1>3 DEF IInv, SingleClaim
    <1>8. BarriersHold'
        BY <1>2, <1>3, <1>4 DEF BarriersHold
    <1>9. ExecutingIsStarted'
        BY <1>1, <1>2, <1>3 DEF IInv, ExecutingIsStarted
    <1>10. StraysAreBarred'
        <2>1. ASSUME ~loadProblem, NEW o \in strays
              PROVE  state[o] = "ambiguous" /\ barriers'[rows'[o].fp] # NoOp
            <3>1. o \in Pending /\ state[o] = "ambiguous"
                BY <2>1 DEF IInv, ExecutingIsStarted, StraysAreBarred
            <3>2. BarriersAfter(D)[rows[o].fp] # NoOp
                BY <2>1, ReleaseLeaves
            <3> QED
                BY <3>1, <3>2, <1>2, <1>3
        <2> QED
            BY <2>1 DEF StraysAreBarred
    <1> QED
        BY <1>5, <1>6, <1>7, <1>8, <1>9, <1>10 DEF IInv

(* `acknowledge` keeps the inductive invariant.                            *)
LEMMA AcknowledgePreserves ==
    ASSUME IInv, NEW M, Acknowledge(M)
    PROVE  IInv'
    <1>1. PICK D \in SUBSET Ackable(M) :
              /\ rows' = RowsAfter(D)
              /\ operations' = operations \ D
              /\ barriers' = BarriersAfter(D)
              /\ UNCHANGED <<loadProblem, state, aliases, toolVars, observed, recovered>>
        BY DEF Acknowledge
    <1>2. BarriersAfter(D) \in [Fingerprint -> OpId \cup {NoOp}]
        BY ReleasableFacts, ReleaseType DEF IInv
    <1>3. \A f \in Fingerprint : barriers'[f] # NoOp =>
              barriers'[f] \in operations \ D /\ rows[barriers'[f]].fp = f
        BY <1>1, ReleaseLeaves
    <1>4. /\ UNCHANGED <<loadProblem, state, running, strays>>
          /\ aliases' \in [CallId -> OpId \cup {NoOp}]
          /\ observed' \subseteq CallId \X OpId
          /\ recovered' \subseteq CallId
        BY <1>1 DEF toolVars, IInv, TypeOK
    <1>5. \A f \in Fingerprint : BarriersAfter(D)[f] # NoOp => barriers'[f] # NoOp
        BY <1>1
    <1> QED
        BY <1>1, <1>2, <1>3, <1>4, <1>5, ReleasePreserves

(* Answering a call from a receipt, which marks the row observed, keeps    *)
(* the inductive invariant.                                                *)
LEMMA ReplayPreserves ==
    ASSUME IInv, NEW c \in CallId, NEW f \in Fingerprint, NEW M, Replay(c, f, M)
    PROVE  IInv'
    <1>1. PICK D \in SUBSET Ackable(M) :
              /\ ~IdReused(c, f)
              /\ Previous(c, f, D) # NoOp
              /\ rows' = RowsAfter(D)
              /\ operations' = operations \ D
              /\ aliases' = [aliases EXCEPT ![c] = Previous(c, f, D)]
              /\ barriers' = IF state[Previous(c, f, D)] = "settled"
                             THEN BarriersAfter(D)
                             ELSE [BarriersAfter(D) EXCEPT ![f] = Previous(c, f, D)]
              /\ observed' = observed \cup {<<c, Previous(c, f, D)>>}
              /\ UNCHANGED <<loadProblem, state, toolVars, recovered>>
        BY DEF Replay
    <1> DEFINE previous == Previous(c, f, D)
    <1>2. previous \in operations \ D /\ rows[previous].fp = f /\ previous \in OpId
        BY <1>1, PreviousFacts DEF IInv, TypeOK
    <1> HIDE DEF previous
    <1>3. BarriersAfter(D) \in [Fingerprint -> OpId \cup {NoOp}]
        BY ReleasableFacts, ReleaseType DEF IInv
    <1>4. \A g \in Fingerprint : BarriersAfter(D)[g] # NoOp =>
              BarriersAfter(D)[g] \in operations \ D /\ rows[BarriersAfter(D)[g]].fp = g
        BY <1>1, ReleaseLeaves
    <1>5. \/ barriers' = BarriersAfter(D)
          \/ barriers' = [BarriersAfter(D) EXCEPT ![f] = previous]
        BY <1>1 DEF previous
    <1>6. barriers' \in [Fingerprint -> OpId \cup {NoOp}]
        BY <1>2, <1>3, <1>5
    <1>7. \A g \in Fingerprint :
              /\ barriers'[g] # NoOp =>
                     barriers'[g] \in operations \ D /\ rows[barriers'[g]].fp = g
              /\ BarriersAfter(D)[g] # NoOp => barriers'[g] # NoOp
        BY <1>2, <1>3, <1>4, <1>5, NoOpAssumption
    <1>8. /\ UNCHANGED <<loadProblem, state, running, strays>>
          /\ aliases' \in [CallId -> OpId \cup {NoOp}]
          /\ observed' \subseteq CallId \X OpId
          /\ recovered' \subseteq CallId
        BY <1>1, <1>2 DEF toolVars, IInv, TypeOK, previous
    <1> QED
        BY <1>1, <1>6, <1>7, <1>8, ReleasePreserves

(* What an execution that releases D makes of the store: a new pending     *)
(* receipt of f, and none of the others has its fingerprint.               *)
Started(c, f, o, D) ==
    /\ ~loadProblem
    /\ D \subseteq Pending
    /\ D \cap (running \cup strays) = {}
    /\ operations = Pending
    /\ o \notin Pending /\ o \notin D /\ o \notin running \cup strays
    /\ rows' \in [OpId -> Row \cup {NoRow}]
    /\ rows'[o].fp = f /\ rows'[o].state = "started"
    /\ \A p \in OpId \ {o} :
          rows[p] # NoRow => rows'[p].fp = rows[p].fp /\ rows'[p].state = rows[p].state
    /\ Issued' = Issued \cup {o}
    /\ Pending' = (Pending \ D) \cup {o}
    /\ \A p \in Pending \ D : rows[p].fp # f
    /\ Cardinality(Pending \ D) < MaxPending
    /\ operations' = (operations \ D) \cup {o}
    /\ state' = [state EXCEPT ![o] = "started"]
    /\ aliases' = [aliases EXCEPT ![c] = o]
    /\ barriers' = BarriersAfter(D)
    /\ running' = running \cup {o}
    /\ UNCHANGED <<loadProblem, strays, observed, recovered>>

(* What a call that starts does to each row, and to the sets that name it. *)
LEMMA StartFacts ==
    ASSUME IInv, NEW c \in CallId, NEW f \in Fingerprint, NEW o \in OpId, NEW M,
           Start(c, f, o, M)
    PROVE  \E D \in SUBSET Ackable(M) : Started(c, f, o, D)
    <1> DEFINE new == [fp |-> f, call |-> c, state |-> "started", acked |-> FALSE]
    <1>1. PICK D \in SUBSET Ackable(M) :
              /\ ~IdReused(c, f)
              /\ Previous(c, f, D) = NoOp
              /\ Cardinality(operations \ D) < MaxPending
              /\ rows' = [RowsAfter(D) EXCEPT ![o] = new]
              /\ operations' = (operations \ D) \cup {o}
              /\ state' = [state EXCEPT ![o] = "started"]
              /\ aliases' = [aliases EXCEPT ![c] = o]
              /\ barriers' = BarriersAfter(D)
              /\ running' = running \cup {o}
              /\ UNCHANGED <<loadProblem, strays, observed, recovered>>
        BY DEF Start, Room
    <1>2. ~loadProblem /\ rows[o] = NoRow
        BY DEF Start
    <1>3. new \in Row /\ new.fp = f /\ new.state = "started" /\ ~new.acked /\ new # NoRow
        <2>1. new \in Row
            BY DEF Row
        <2>2. new # NoRow
            BY <2>1, NoRowAssumption
        <2> QED
            BY <2>1, <2>2
    <1> HIDE DEF new
    <1>4. RowsAfter(D) \in [OpId -> Row \cup {NoRow}]
        BY ReleasedRows
    <1>5. D \subseteq Pending /\ D \cap (running \cup strays) = {}
        BY ReleasableFacts
    <1>6. rows'[o] = new /\ \A p \in OpId \ {o} :
              /\ rows'[p] = NoRow <=> rows[p] = NoRow
              /\ rows[p] # NoRow => /\ rows'[p].fp = rows[p].fp
                                    /\ rows'[p].state = rows[p].state
                                    /\ rows'[p].acked <=> rows[p].acked \/ p \in D
        BY <1>1, <1>4, ReleasedRows
    <1>7. o \notin Pending /\ o \notin D /\ operations = Pending
          /\ o \notin running \cup strays
        BY <1>2, <1>5 DEF Pending, Issued, IInv, ReceiptsAgree, ExecutingIsStarted
    <1>8. rows' \in [OpId -> Row \cup {NoRow}]
        BY <1>1, <1>3, <1>4
    <1>9. Pending' = (Pending \ D) \cup {o}
        <2>1. o \in Pending'
            BY <1>3, <1>6 DEF Pending, Issued
        <2>2. \A p \in OpId \ {o} : p \in Pending' <=> p \in Pending \ D
            BY <1>6 DEF Pending, Issued
        <2>3. Pending' \subseteq OpId /\ Pending \subseteq OpId
            BY DEF Pending, Issued
        <2> QED
            BY <1>7, <2>1, <2>2, <2>3
    <1>10. Issued' = Issued \cup {o}
        BY <1>3, <1>6 DEF Issued
    <1>11. \A p \in Pending \ D : rows[p].fp # f
        BY <1>1, <1>7, PreviousFacts
    <1>12. Cardinality(Pending \ D) < MaxPending
        BY <1>1, <1>7
    <1> QED
        BY <1>1, <1>2, <1>3, <1>5, <1>6, <1>7, <1>8, <1>9, <1>10, <1>11, <1>12 DEF Started

(* A call that starts keeps the inductive invariant: its fingerprint is    *)
(* unclaimed and its operation is not a barrier.                           *)
LEMMA StartPreserves ==
    ASSUME IInv, NEW c \in CallId, NEW f \in Fingerprint, NEW o \in OpId, NEW M,
           Start(c, f, o, M)
    PROVE  IInv'
    <1>0. PICK D \in SUBSET Ackable(M) : Started(c, f, o, D)
        BY StartFacts
    <1>1. /\ ~loadProblem
          /\ D \subseteq Pending
          /\ D \cap (running \cup strays) = {}
          /\ operations = Pending
          /\ o \notin Pending /\ o \notin D /\ o \notin running \cup strays
          /\ rows' \in [OpId -> Row \cup {NoRow}]
          /\ rows'[o].fp = f /\ rows'[o].state = "started"
          /\ \A p \in OpId \ {o} :
                rows[p] # NoRow => rows'[p].fp = rows[p].fp /\ rows'[p].state = rows[p].state
          /\ Pending' = (Pending \ D) \cup {o}
          /\ \A p \in Pending \ D : rows[p].fp # f
          /\ operations' = (operations \ D) \cup {o}
          /\ state' = [state EXCEPT ![o] = "started"]
          /\ aliases' = [aliases EXCEPT ![c] = o]
          /\ barriers' = BarriersAfter(D)
          /\ running' = running \cup {o}
          /\ UNCHANGED <<loadProblem, strays, observed, recovered>>
        BY <1>0 DEF Started
    <1>2. BarriersAfter(D) \in [Fingerprint -> OpId \cup {NoOp}]
        BY ReleasableFacts, ReleaseType DEF IInv
    <1>3. \A p \in Pending : p \in OpId \ {o} /\ rows[p] # NoRow /\ rows[p].fp \in Fingerprint
        BY <1>1 DEF IInv, TypeOK, Pending, Issued, Row
    <1>4. TypeOK'
        BY <1>1, <1>2 DEF IInv, TypeOK
    <1>5. ReceiptsAgree'
        BY <1>1 DEF ReceiptsAgree
    <1>6. SingleClaim'
        <2>1. ASSUME NEW p \in Pending', NEW q \in Pending', rows'[p].fp = rows'[q].fp
              PROVE  p = q
            <3>1. CASE p = o
                BY <2>1, <3>1, <1>1, <1>3
            <3>2. CASE q = o
                BY <2>1, <3>2, <1>1, <1>3
            <3>3. CASE p # o /\ q # o
                BY <2>1, <3>3, <1>1, <1>3 DEF IInv, SingleClaim
            <3> QED
                BY <3>1, <3>2, <3>3
        <2> QED
            BY <2>1 DEF SingleClaim
    <1>7. \A g \in Fingerprint : BarriersAfter(D)[g] # NoOp =>
               BarriersAfter(D)[g] \in operations \ D /\ rows[BarriersAfter(D)[g]].fp = g
        BY DEF BarriersAfter, IInv, BarriersHold
    <1>8. BarriersHold'
        BY <1>1, <1>3, <1>7 DEF BarriersHold
    <1>9. ExecutingIsStarted'
        <2>1. \A p \in running \cup strays :
                  p \in Pending \ D /\ rows[p].state = "started"
            BY <1>1 DEF IInv, ExecutingIsStarted
        <2>2. \A p \in running' \cup strays' :
                  p \in Pending' /\ rows'[p].state = "started"
            BY <2>1, <1>1, <1>3
        <2>3. \A p \in running' : ~loadProblem' /\ state'[p] = "started"
            BY <1>1 DEF IInv, TypeOK, ExecutingIsStarted
        <2> QED
            BY <2>2, <2>3 DEF ExecutingIsStarted
    <1>10. StraysAreBarred'
        <2>1. \A p \in strays : /\ p \in Pending /\ p # o
                                /\ state[p] = "ambiguous"
                                /\ barriers[rows[p].fp] # NoOp
            BY <1>1 DEF IInv, ExecutingIsStarted, StraysAreBarred
        <2>2. \A p \in strays, q \in D : rows[q].fp # rows[p].fp
            BY <2>1, <1>1 DEF IInv, SingleClaim
        <2>3. \A p \in strays : BarriersAfter(D)[rows[p].fp] # NoOp
            BY <2>1, <2>2, <1>3 DEF BarriersAfter
        <2>4. \A p \in strays : rows'[p].fp = rows[p].fp /\ state'[p] = state[p]
            BY <2>1, <1>1, <1>3
        <2> QED
            BY <2>1, <2>3, <2>4, <1>1 DEF StraysAreBarred
    <1> QED
        BY <1>4, <1>5, <1>6, <1>8, <1>9, <1>10 DEF IInv

(* What the store keeps of a receipt whose outcome arrives, whether or not *)
(* the write succeeds.                                                     *)
LEMMA FinishFacts ==
    ASSUME IInv, NEW o \in running \cup strays, NEW outcome \in Outcome, Finish(o, outcome)
    PROVE  /\ rows' \in [OpId -> Row \cup {NoRow}]
           /\ Pending' = Pending
           /\ \A p \in Pending : rows'[p].fp = rows[p].fp
           /\ \A p \in OpId \ {o} : rows'[p] = rows[p]
    <1>1. o \in Pending /\ o \in OpId /\ rows[o] \in Row /\ rows[o] # NoRow
        BY DEF IInv, ExecutingIsStarted, TypeOK, Pending, Issued
    <1>2. rows \in [OpId -> Row \cup {NoRow}]
        BY DEF IInv, TypeOK
    <1>3. CASE rows' = rows
        BY <1>2, <1>3 DEF Pending, Issued
    <1>4. CASE rows' = [rows EXCEPT ![o].state = outcome]
        <2>1. /\ rows'[o] = [rows[o] EXCEPT !.state = outcome]
              /\ \A p \in OpId \ {o} : rows'[p] = rows[p]
            BY <1>1, <1>2, <1>4
        <2>2. rows'[o] \in Row /\ rows'[o].fp = rows[o].fp /\ rows'[o].acked = rows[o].acked
            BY <1>1, <2>1 DEF Row
        <2>3. rows'[o] # NoRow
            BY <2>2, NoRowAssumption
        <2>4. rows' \in [OpId -> Row \cup {NoRow}]
            BY <1>1, <1>2, <1>4, <2>2
        <2>5. Issued' = Issued
            BY <1>1, <2>1, <2>3 DEF Issued
        <2>6. Pending' = Pending
            BY <1>1, <2>1, <2>2, <2>5 DEF Pending, Issued
        <2> QED
            BY <1>1, <2>1, <2>2, <2>4, <2>6 DEF Pending, Issued
    <1> QED
        BY <1>3, <1>4 DEF Finish

(* The result of a tool of this journal, written or refused by the disk,   *)
(* keeps the inductive invariant.                                          *)
LEMMA ReturnPreserves ==
    ASSUME IInv, NEW o \in OpId, NEW outcome \in Outcome, Return(o, outcome)
    PROVE  IInv'
    <1>1. /\ o \in running
          /\ running' = running \ {o}
          /\ state' = [state EXCEPT ![o] = outcome]
          /\ observed' = observed \cup {<<rows[o].call, o>>}
          /\ UNCHANGED <<loadProblem, operations, aliases, barriers, strays, recovered>>
        BY DEF Return
    <1>2. /\ rows' \in [OpId -> Row \cup {NoRow}]
          /\ Pending' = Pending
          /\ \A p \in Pending : rows'[p].fp = rows[p].fp
          /\ \A p \in OpId \ {o} : rows'[p] = rows[p]
        BY <1>1, FinishFacts DEF Return
    <1>3. o \in Pending /\ rows[o].call \in CallId /\ ~loadProblem /\ state[o] = "started"
        BY <1>1 DEF IInv, ExecutingIsStarted, TypeOK, Pending, Issued, Row
    <1>4. o \notin strays
        BY <1>3 DEF IInv, StraysAreBarred
    <1>5. TypeOK'
        <2>1. state' \in [OpId -> OpState] /\ observed' \subseteq CallId \X OpId
            BY <1>1, <1>3 DEF IInv, TypeOK
        <2>2. running' \subseteq OpId
            BY <1>1 DEF IInv, TypeOK
        <2> QED
            BY <1>1, <1>2, <2>1, <2>2 DEF IInv, TypeOK
    <1>6. ReceiptsAgree' /\ SingleClaim'
        BY <1>1, <1>2 DEF IInv, ReceiptsAgree, SingleClaim
    <1>7. operations \subseteq Pending
        BY DEF IInv, ReceiptsAgree
    <1>8. BarriersHold'
        BY <1>1, <1>2, <1>7 DEF IInv, BarriersHold
    <1>9. ExecutingIsStarted'
        BY <1>1, <1>2, <1>4 DEF IInv, ExecutingIsStarted, TypeOK
    <1>10. StraysAreBarred'
        BY <1>1, <1>2, <1>4 DEF IInv, StraysAreBarred, ExecutingIsStarted, TypeOK
    <1> QED
        BY <1>5, <1>6, <1>8, <1>9, <1>10 DEF IInv

(* The result of a tool started by a journal that has been replaced keeps  *)
(* the inductive invariant.                                                *)
LEMMA StrayReturnPreserves ==
    ASSUME IInv, NEW o \in OpId, NEW outcome \in Outcome, StrayReturn(o, outcome)
    PROVE  IInv'
    <1>1. /\ o \in strays
          /\ strays' = strays \ {o}
          /\ UNCHANGED <<loadProblem, operations, state, aliases, barriers, observed,
                         recovered, running>>
        BY DEF StrayReturn, memoryVars
    <1>2. /\ rows' \in [OpId -> Row \cup {NoRow}]
          /\ Pending' = Pending
          /\ \A p \in Pending : rows'[p].fp = rows[p].fp
          /\ \A p \in OpId \ {o} : rows'[p] = rows[p]
        BY <1>1, FinishFacts DEF StrayReturn
    <1>3. o \notin running
        BY <1>1 DEF IInv, StraysAreBarred, ExecutingIsStarted
    <1>4. TypeOK'
        BY <1>1, <1>2 DEF IInv, TypeOK
    <1>5. ReceiptsAgree' /\ SingleClaim'
        BY <1>1, <1>2 DEF IInv, ReceiptsAgree, SingleClaim
    <1>6. operations \subseteq Pending
        BY DEF IInv, ReceiptsAgree
    <1>7. BarriersHold'
        BY <1>1, <1>2, <1>6 DEF IInv, BarriersHold
    <1>8. ExecutingIsStarted'
        BY <1>1, <1>2, <1>3 DEF IInv, ExecutingIsStarted, TypeOK
    <1>9. StraysAreBarred'
        BY <1>1, <1>2 DEF IInv, StraysAreBarred, ExecutingIsStarted, TypeOK
    <1> QED
        BY <1>4, <1>5, <1>7, <1>8, <1>9 DEF IInv

(* A journal that keeps its memory, and releases nothing.                  *)
LEMMA NothingReleased ==
    ASSUME IInv
    PROVE  RowsAfter({}) = rows /\ BarriersAfter({}) = barriers
    BY DEF RowsAfter, BarriersAfter, IInv, TypeOK

(* The start of a round keeps the inductive invariant.                     *)
LEMMA BeginRoundPreserves ==
    ASSUME IInv, BeginRound
    PROVE  IInv'
    <1>1. /\ UNCHANGED <<rows, running, strays, loadProblem, operations, state, aliases,
                         barriers, recovered>>
          /\ observed' = {}
        BY DEF BeginRound, storeVars, toolVars
    <1>2. {} \in SUBSET Ackable({}) /\ operations' = operations \ {}
        BY <1>1
    <1>3. \A f \in Fingerprint : barriers'[f] # NoOp =>
              barriers'[f] \in operations \ {} /\ rows[barriers'[f]].fp = f
        BY <1>1 DEF IInv, BarriersHold
    <1>4. /\ barriers' \in [Fingerprint -> OpId \cup {NoOp}]
          /\ aliases' \in [CallId -> OpId \cup {NoOp}]
          /\ observed' \subseteq CallId \X OpId
          /\ recovered' \subseteq CallId
        BY <1>1 DEF IInv, TypeOK
    <1>5. \A f \in Fingerprint : BarriersAfter({})[f] # NoOp => barriers'[f] # NoOp
        BY <1>1, NothingReleased
    <1> QED
        BY <1>1, <1>2, <1>3, <1>4, <1>5, NothingReleased, ReleasePreserves

(* `recover`, which drops the barriers of what it found observed, keeps the *)
(* inductive invariant.                                                    *)
LEMMA RecoverPreserves ==
    ASSUME IInv, NEW present \in SUBSET CallId, Recover(present)
    PROVE  IInv'
    <1>1. /\ UNCHANGED <<rows, running, strays, loadProblem, operations, state, aliases,
                         observed>>
          /\ barriers' = [f \in Fingerprint |-> IF Holder(operations, f) # NoOp
                                                THEN Holder(operations, f) ELSE barriers[f]]
          /\ recovered' = recovered \cup {r[1] : r \in Preserved(present)}
        BY DEF Recover, storeVars, toolVars
    <1>2. {} \in SUBSET Ackable({}) /\ operations' = operations \ {}
        BY <1>1
    <1>3. \A f \in Fingerprint :
              /\ Holder(operations, f) \in OpId \cup {NoOp}
              /\ Holder(operations, f) # NoOp =>
                     Holder(operations, f) \in operations /\ rows[Holder(operations, f)].fp = f
        BY HolderFacts DEF IInv, TypeOK
    <1>4. \A f \in Fingerprint : barriers'[f] # NoOp =>
              barriers'[f] \in operations \ {} /\ rows[barriers'[f]].fp = f
        BY <1>1, <1>3 DEF IInv, BarriersHold
    <1>5. barriers' \in [Fingerprint -> OpId \cup {NoOp}]
        BY <1>1, <1>3 DEF IInv, TypeOK
    <1>6. recovered' \subseteq CallId
        BY <1>1 DEF IInv, TypeOK, Preserved
    <1>7. aliases' \in [CallId -> OpId \cup {NoOp}] /\ observed' \subseteq CallId \X OpId
        BY <1>1 DEF IInv, TypeOK
    <1>8. \A f \in Fingerprint : BarriersAfter({})[f] # NoOp => barriers'[f] # NoOp
        BY <1>1, NothingReleased
    <1> QED
        BY <1>1, <1>2, <1>4, <1>5, <1>6, <1>7, <1>8, NothingReleased, ReleasePreserves

(* A journal built over the store while some of its tools run on.          *)
LEMMA NewJournalPreserves ==
    ASSUME IInv, NEW alive \in SUBSET (strays \cup running), NewJournal(alive)
    PROVE  IInv'
    <1>1. /\ Load \/ LoadFails
          /\ running' = {} /\ strays' = alive /\ observed' = {} /\ recovered' = {}
          /\ rows' = rows
        BY DEF NewJournal, storeVars
    <1>2. Pending' = Pending /\ Issued' = Issued
        BY <1>1 DEF Pending, Issued
    <1>3. /\ \A o \in strays \cup running : o \in Pending /\ rows[o].state = "started"
          /\ \A o \in Pending : rows[o] \in Row /\ o \in OpId
        BY DEF IInv, ExecutingIsStarted, TypeOK, Pending, Issued
    <1>4. SingleClaim'
        BY <1>1, <1>2 DEF IInv, SingleClaim
    <1>5. ExecutingIsStarted'
        BY <1>1, <1>2, <1>3 DEF ExecutingIsStarted
    <1>6. rows' \in [OpId -> Row \cup {NoRow}] /\ strays' \subseteq OpId
        BY <1>1 DEF IInv, TypeOK
    <1>7. CASE Load
        <2>1. /\ loadProblem' = FALSE
              /\ operations' = Pending
              /\ state' = [o \in OpId |-> IF o \in Pending /\ rows[o].state # "started"
                                          THEN rows[o].state ELSE "ambiguous"]
              /\ aliases' \in [CallId -> OpId \cup {NoOp}]
              /\ barriers' = [f \in Fingerprint |-> Holder(Pending, f)]
            BY <1>7 DEF Load
        <2>2. Pending \in SUBSET OpId
            BY DEF Pending, Issued
        <2>3. \A f \in Fingerprint :
                  /\ Holder(Pending, f) \in OpId \cup {NoOp}
                  /\ Holder(Pending, f) # NoOp =>
                         Holder(Pending, f) \in Pending /\ rows[Holder(Pending, f)].fp = f
                  /\ Holder(Pending, f) = NoOp => \A o \in Pending : rows[o].fp # f
            BY <2>2, HolderFacts
        <2>4. state' \in [OpId -> OpState]
            BY <2>1, <1>3 DEF Row
        <2>5. TypeOK'
            BY <1>1, <1>6, <2>1, <2>2, <2>3, <2>4 DEF TypeOK
        <2>6. ReceiptsAgree'
            BY <1>2, <2>1 DEF ReceiptsAgree
        <2>7. BarriersHold'
            BY <1>1, <2>1, <2>3 DEF BarriersHold
        <2>8. StraysAreBarred'
            BY <1>1, <1>3, <2>1, <2>3 DEF StraysAreBarred, Row
        <2> QED
            BY <1>4, <1>5, <2>5, <2>6, <2>7, <2>8 DEF IInv
    <1>8. CASE LoadFails
        <2>1. /\ loadProblem' = TRUE
              /\ operations' = {}
              /\ state' = [o \in OpId |-> "ambiguous"]
              /\ aliases' = [c \in CallId |-> NoOp]
              /\ barriers' = [f \in Fingerprint |-> NoOp]
            BY <1>8 DEF LoadFails
        <2>2. TypeOK'
            BY <1>1, <1>6, <2>1 DEF TypeOK
        <2>3. ReceiptsAgree' /\ BarriersHold' /\ StraysAreBarred'
            BY <2>1 DEF ReceiptsAgree, BarriersHold, StraysAreBarred
        <2> QED
            BY <1>4, <1>5, <2>2, <2>3 DEF IInv
    <1> QED
        BY <1>1, <1>7, <1>8

(* Steps that leave every variable of the journal as it is.                *)
LEMMA StutterPreserves ==
    ASSUME IInv, UNCHANGED journalVars
    PROVE  IInv'
    BY DEF journalVars, IInv, TypeOK, ReceiptsAgree, SingleClaim, BarriersHold,
           ExecutingIsStarted, StraysAreBarred, Pending, Issued

(* An empty journal over an empty store satisfies the inductive invariant. *)
LEMMA InitEstablishes == Init => IInv
    BY DEF Init, IInv, TypeOK, ReceiptsAgree, SingleClaim, BarriersHold,
           ExecutingIsStarted, StraysAreBarred, Pending, Issued

(* Every step of the journal keeps the inductive invariant, one case per   *)
(* action.                                                                 *)
LEMMA NextPreserves ==
    ASSUME IInv, [Next]_journalVars
    PROVE  IInv'
    <1>1. CASE Acknowledge(CallId)
        BY <1>1, AcknowledgePreserves
    <1>2. CASE Refuse(CallId)
        BY <1>2, AcknowledgePreserves, StutterPreserves DEF Refuse
    <1>3. ASSUME NEW c \in CallId, NEW f \in Fingerprint, Replay(c, f, CallId)
          PROVE  IInv'
        BY <1>3, ReplayPreserves
    <1>4. ASSUME NEW c \in CallId, NEW f \in Fingerprint, NEW o \in OpId,
                 Start(c, f, o, CallId)
          PROVE  IInv'
        BY <1>4, StartPreserves
    <1>5. ASSUME NEW o \in OpId, NEW outcome \in Outcome, Return(o, outcome)
          PROVE  IInv'
        BY <1>5, ReturnPreserves
    <1>6. ASSUME NEW o \in OpId, NEW outcome \in Outcome, StrayReturn(o, outcome)
          PROVE  IInv'
        BY <1>6, StrayReturnPreserves
    <1>7. ASSUME NEW present \in SUBSET CallId, Recover(present)
          PROVE  IInv'
        BY <1>7, RecoverPreserves
    <1>8. CASE BeginRound
        BY <1>8, BeginRoundPreserves
    <1>9. CASE NewTurn
        BY <1>9, NewJournalPreserves DEF NewTurn
    <1>10. CASE Crash
        BY <1>10, NewJournalPreserves DEF Crash
    <1>11. CASE UNCHANGED journalVars
        BY <1>11, StutterPreserves
    <1> QED
        BY <1>1, <1>2, <1>3, <1>4, <1>5, <1>6, <1>7, <1>8, <1>9, <1>10, <1>11 DEF Next

-----------------------------------------------------------------------------
(* How a step changes the pending receipts and the quarantined operations. *)

(* Pending receipts are released, and at most one is added, below the      *)
(* limit.                                                                  *)
LEMMA PendingSteps ==
    ASSUME IInv, [Next]_journalVars
    PROVE  \/ Pending' \subseteq Pending
           \/ \E D \in SUBSET Pending, o \in OpId \ Pending :
                 /\ Pending' = (Pending \ D) \cup {o}
                 /\ Cardinality(Pending \ D) < MaxPending
    <1>1. ASSUME NEW M, Acknowledge(M)
          PROVE  Pending' \subseteq Pending
        BY <1>1, ReleaseLeaves DEF Acknowledge
    <1>2. ASSUME rows' = rows
          PROVE  Pending' \subseteq Pending
        BY <1>2 DEF Pending, Issued
    <1>3. CASE Refuse(CallId)
        BY <1>1, <1>2, <1>3 DEF Refuse, journalVars
    <1>4. ASSUME NEW c \in CallId, NEW f \in Fingerprint, Replay(c, f, CallId)
          PROVE  Pending' \subseteq Pending
        BY <1>4, ReleaseLeaves DEF Replay
    <1>5. ASSUME NEW c \in CallId, NEW f \in Fingerprint, NEW o \in OpId,
                 Start(c, f, o, CallId)
          PROVE  \E D \in SUBSET Pending, p \in OpId \ Pending :
                     /\ Pending' = (Pending \ D) \cup {p}
                     /\ Cardinality(Pending \ D) < MaxPending
        <2>1. PICK D \in SUBSET Ackable(CallId) : Started(c, f, o, D)
            BY <1>5, StartFacts
        <2> QED
            BY <2>1 DEF Started
    <1>6. ASSUME NEW o \in OpId, NEW outcome \in Outcome,
                 Return(o, outcome) \/ StrayReturn(o, outcome)
          PROVE  Pending' \subseteq Pending
        BY <1>6, FinishFacts DEF Return, StrayReturn
    <1>7. CASE \/ \E present \in SUBSET CallId : Recover(present)
               \/ BeginRound
               \/ NewTurn
               \/ Crash
               \/ UNCHANGED journalVars
        BY <1>2, <1>7 DEF Recover, BeginRound, NewTurn, Crash, NewJournal, storeVars, journalVars
    <1> QED
        BY <1>1, <1>3, <1>4, <1>5, <1>6, <1>7 DEF Next

(* The strengthening RecoverableStore needs: it is a finite set it counts. *)
BoundedStore == IsFiniteSet(Pending) /\ RecoverableStore

(* No step takes the pending rows beyond the limit at which a store can    *)
(* still be loaded.                                                        *)
LEMMA BoundedPreserves ==
    ASSUME IInv, BoundedStore, [Next]_journalVars
    PROVE  BoundedStore'
    <1>1. IsFiniteSet(Pending) /\ Cardinality(Pending) \in Nat /\ Cardinality(Pending) <= MaxPending
        BY FS_CardinalityType DEF BoundedStore, RecoverableStore
    <1>2. CASE Pending' \subseteq Pending
        <2>1. /\ IsFiniteSet(Pending')
              /\ Cardinality(Pending') \in Nat
              /\ Cardinality(Pending') <= Cardinality(Pending)
            BY <1>1, <1>2, FS_Subset, FS_CardinalityType
        <2> QED
            BY <1>1, <2>1, LimitAssumption DEF BoundedStore, RecoverableStore
    <1>3. ASSUME NEW D \in SUBSET Pending, NEW o \in OpId \ Pending,
                 Pending' = (Pending \ D) \cup {o},
                 Cardinality(Pending \ D) < MaxPending
          PROVE  BoundedStore'
        <2>1. IsFiniteSet(Pending \ D) /\ Cardinality(Pending \ D) \in Nat
            BY <1>1, FS_Subset, FS_CardinalityType
        <2>2. /\ IsFiniteSet((Pending \ D) \cup {o})
              /\ Cardinality((Pending \ D) \cup {o}) = Cardinality(Pending \ D) + 1
            BY <2>1, FS_AddElement
        <2> QED
            BY <1>3, <2>1, <2>2, LimitAssumption DEF BoundedStore, RecoverableStore
    <1> QED
        BY <1>2, <1>3, PendingSteps

(* A release spares a quarantined operation and the barrier it is.         *)
LEMMA ReleaseSparesQuarantined ==
    ASSUME IInv, NEW M, NEW D \in SUBSET Ackable(M), NEW o \in OpId, Quarantined(o)
    PROVE  /\ o \notin D
           /\ RowsAfter(D)[o] = rows[o]
           /\ ~loadProblem => BarriersAfter(D)[rows[o].fp] = o
    <1>1. D \subseteq Pending /\ (~loadProblem \/ D = {})
        BY ReleasableFacts
    <1>2. o \in Pending /\ rows[o].fp \in Fingerprint
        BY DEF Quarantined, IInv, TypeOK, Pending, Issued, Row
    <1>3. o \notin D
        BY <1>1, NoOpAssumption DEF Quarantined, Ackable
    <1>4. \A p \in D : rows[p].fp # rows[o].fp
        BY <1>1, <1>2, <1>3 DEF IInv, SingleClaim
    <1> QED
        BY <1>2, <1>3, <1>4 DEF RowsAfter, BarriersAfter, Quarantined

(* No step releases an operation in quarantine, nor lets its fingerprint   *)
(* be claimed by another.                                                  *)
LEMMA QuarantineStep ==
    ASSUME IInv, [Next]_journalVars, NEW o \in OpId, Quarantined(o)
    PROVE  Quarantined(o)'
    <1>1. /\ o \in Pending /\ rows[o] # NoRow /\ rows[o].fp \in Fingerprint
          /\ o \notin running \cup strays
          /\ rows[o].state \in {"started", "ambiguous"}
          /\ \A p \in Pending : rows[p].fp = rows[o].fp => p = o
        BY DEF Quarantined, IInv, TypeOK, Pending, Issued, Row, SingleClaim
    <1>2. ASSUME NEW M, Acknowledge(M)
          PROVE  Quarantined(o)'
        <2>1. PICK D \in SUBSET Ackable(M) :
                  /\ rows' = RowsAfter(D)
                  /\ barriers' = BarriersAfter(D)
                  /\ UNCHANGED <<loadProblem, state, running, strays>>
            BY <1>2 DEF Acknowledge, toolVars
        <2>2. o \in Pending' /\ rows'[o] = rows[o]
            BY <1>1, <2>1, ReleaseSparesQuarantined, ReleaseLeaves
        <2>3. ~loadProblem => barriers'[rows[o].fp] = o
            BY <2>1, ReleaseSparesQuarantined
        <2> QED
            BY <1>1, <2>1, <2>2, <2>3 DEF Quarantined
    <1>3. CASE UNCHANGED journalVars
        BY <1>3 DEF journalVars, Quarantined, Pending, Issued
    <1>4. CASE Refuse(CallId)
        BY <1>2, <1>3, <1>4 DEF Refuse
    <1>5. ASSUME NEW c \in CallId, NEW f \in Fingerprint, Replay(c, f, CallId)
          PROVE  Quarantined(o)'
        <2>1. PICK D \in SUBSET Ackable(CallId) :
                  /\ ~loadProblem
                  /\ ~IdReused(c, f)
                  /\ Previous(c, f, D) # NoOp
                  /\ rows' = RowsAfter(D)
                  /\ barriers' = IF state[Previous(c, f, D)] = "settled"
                                 THEN BarriersAfter(D)
                                 ELSE [BarriersAfter(D) EXCEPT ![f] = Previous(c, f, D)]
                  /\ UNCHANGED <<loadProblem, state, running, strays>>
            BY <1>5 DEF Replay, toolVars
        <2>2. o \in Pending' /\ rows'[o] = rows[o]
            BY <1>1, <2>1, ReleaseSparesQuarantined, ReleaseLeaves
        <2>3. Previous(c, f, D) \in Pending /\ rows[Previous(c, f, D)].fp = f
            BY <2>1, PreviousFacts DEF IInv, ReceiptsAgree
        <2>4. BarriersAfter(D)[rows[o].fp] = o
            BY <2>1, ReleaseSparesQuarantined
        <2>5. BarriersAfter(D) \in [Fingerprint -> OpId \cup {NoOp}]
            BY ReleasableFacts, ReleaseType DEF IInv
        <2>6. barriers'[rows[o].fp] = o
            BY <1>1, <2>1, <2>3, <2>4, <2>5
        <2> QED
            BY <1>1, <2>1, <2>2, <2>6 DEF Quarantined
    <1>6. ASSUME NEW c \in CallId, NEW f \in Fingerprint, NEW p \in OpId,
                 Start(c, f, p, CallId)
          PROVE  Quarantined(o)'
        <2>1. PICK D \in SUBSET Ackable(CallId) : Started(c, f, p, D)
            BY <1>6, StartFacts
        <2>2. o # p /\ o \notin D /\ BarriersAfter(D)[rows[o].fp] = o
            <3>1. o \notin D /\ (~loadProblem => BarriersAfter(D)[rows[o].fp] = o)
                BY ReleaseSparesQuarantined
            <3> QED
                BY <1>1, <2>1, <3>1 DEF Started
        <2>3. rows'[o].fp = rows[o].fp /\ rows'[o].state = rows[o].state
            BY <1>1, <2>1, <2>2 DEF Started
        <2>4. state'[o] = state[o]
            BY <2>1, <2>2 DEF Started, IInv, TypeOK
        <2> QED
            BY <1>1, <2>1, <2>2, <2>3, <2>4 DEF Started, Quarantined
    <1>7. ASSUME NEW p \in running \cup strays, NEW outcome \in Outcome, Finish(p, outcome)
          PROVE  o # p /\ rows'[o] = rows[o] /\ o \in Pending'
        BY <1>1, <1>7, FinishFacts
    <1>8. ASSUME NEW p \in OpId, NEW outcome \in Outcome, Return(p, outcome)
          PROVE  Quarantined(o)'
        <2>1. /\ p \in running
              /\ running' = running \ {p}
              /\ state' = [state EXCEPT ![p] = outcome]
              /\ UNCHANGED <<loadProblem, barriers, strays>>
            BY <1>8 DEF Return
        <2>2. o # p /\ rows'[o] = rows[o] /\ o \in Pending'
            BY <1>7, <1>8, <2>1 DEF Return
        <2>3. state'[o] = state[o]
            BY <2>1, <2>2 DEF IInv, TypeOK
        <2> QED
            BY <1>1, <2>1, <2>2, <2>3 DEF Quarantined
    <1>9. ASSUME NEW p \in OpId, NEW outcome \in Outcome, StrayReturn(p, outcome)
          PROVE  Quarantined(o)'
        <2>1. /\ p \in strays
              /\ strays' = strays \ {p}
              /\ UNCHANGED <<loadProblem, state, barriers, running>>
            BY <1>9 DEF StrayReturn, memoryVars
        <2>2. rows'[o] = rows[o] /\ o \in Pending'
            BY <1>7, <1>9, <2>1 DEF StrayReturn
        <2> QED
            BY <1>1, <2>1, <2>2 DEF Quarantined
    <1>10. CASE BeginRound
        BY <1>10 DEF BeginRound, storeVars, toolVars, Quarantined, Pending, Issued
    <1>11. ASSUME NEW present \in SUBSET CallId, Recover(present)
           PROVE  Quarantined(o)'
        <2>1. /\ UNCHANGED <<rows, running, strays, loadProblem, operations, state>>
              /\ barriers' = [f \in Fingerprint |-> IF Holder(operations, f) # NoOp
                                                    THEN Holder(operations, f)
                                                    ELSE barriers[f]]
            BY <1>11 DEF Recover, storeVars, toolVars
        <2>2. ASSUME ~loadProblem
              PROVE  Holder(operations, rows[o].fp) = o
            <3>1. operations = Pending /\ operations \in SUBSET OpId
                BY <2>2 DEF IInv, ReceiptsAgree, TypeOK
            <3> QED
                BY <1>1, <3>1, HolderFacts
        <2>3. ~loadProblem => barriers'[rows[o].fp] = o
            BY <1>1, <2>1, <2>2, NoOpAssumption
        <2> QED
            BY <1>1, <2>1, <2>3 DEF Quarantined, Pending, Issued
    <1>12. ASSUME NEW alive \in SUBSET (strays \cup running), NewJournal(alive)
           PROVE  Quarantined(o)'
        <2>1. /\ Load \/ LoadFails
              /\ running' = {} /\ strays' = alive /\ rows' = rows
            BY <1>12 DEF NewJournal, storeVars
        <2>2. Pending' = Pending /\ o \notin running' \cup strays'
            BY <1>1, <2>1 DEF Pending, Issued
        <2>3. CASE LoadFails
            BY <1>1, <2>1, <2>2, <2>3 DEF LoadFails, Quarantined
        <2>4. CASE Load
            <3>1. /\ state' = [p \in OpId |-> IF p \in Pending /\ rows[p].state # "started"
                                              THEN rows[p].state ELSE "ambiguous"]
                  /\ barriers' = [f \in Fingerprint |-> Holder(Pending, f)]
                BY <2>4 DEF Load
            <3>2. Holder(Pending, rows[o].fp) = o
                <4>1. Pending \in SUBSET OpId
                    BY DEF Pending, Issued
                <4> QED
                    BY <1>1, <4>1, HolderFacts
            <3>3. state'[o] = "ambiguous" /\ barriers'[rows[o].fp] = o
                BY <1>1, <3>1, <3>2
            <3> QED
                BY <1>1, <2>1, <2>2, <3>3 DEF Quarantined
        <2> QED
            BY <2>1, <2>3, <2>4
    <1>13. CASE NewTurn \/ Crash
        BY <1>12, <1>13 DEF NewTurn, Crash
    <1> QED
        BY <1>2, <1>3, <1>4, <1>5, <1>6, <1>8, <1>9, <1>10, <1>11, <1>13 DEF Next

-----------------------------------------------------------------------------
(* The journal as a keeper of claims (EffectClaims).                       *)

(* What a step may do to the store: receipts D are released, and at most   *)
(* one execution begins, of a fingerprint that no other receipt holds.     *)
Starts(D, o) ==
    /\ Issued' = Issued \cup {o}
    /\ Pending' = (Pending \ D) \cup {o}
    /\ rows'[o].fp \in Fingerprint
    /\ \A p \in Pending \ D : rows[p].fp # rows'[o].fp

StoreStep(D) ==
    /\ \A p \in Issued : rows'[p].fp = rows[p].fp
    /\ \/ Issued' = Issued /\ Pending' = Pending \ D
       \/ \E o \in OpId \ Issued : Starts(D, o)

(* Every action of the journal is such a step of its store.                *)
LEMMA StoreSteps ==
    ASSUME IInv, [Next]_journalVars
    PROVE  \E D \in SUBSET Pending : StoreStep(D)
    <1>1. ASSUME NEW M, NEW D \in SUBSET Ackable(M), rows' = RowsAfter(D)
          PROVE  \E E \in SUBSET Pending : StoreStep(E)
        <2>1. \A p \in Issued : rows'[p].fp = rows[p].fp
            BY <1>1, ReleasedRows DEF Issued
        <2> QED
            BY <1>1, <2>1, ReleaseLeaves, ReleasableFacts DEF StoreStep
    <1>2. ASSUME NEW M, Acknowledge(M)
          PROVE  \E D \in SUBSET Pending : StoreStep(D)
        BY <1>1, <1>2 DEF Acknowledge
    <1>3. ASSUME rows' = rows
          PROVE  \E D \in SUBSET Pending : StoreStep(D)
        <2>1. StoreStep({})
            BY <1>3 DEF StoreStep, Pending, Issued
        <2> QED
            BY <2>1
    <1>4. CASE Refuse(CallId)
        BY <1>2, <1>3, <1>4 DEF Refuse, journalVars
    <1>5. ASSUME NEW c \in CallId, NEW f \in Fingerprint, Replay(c, f, CallId)
          PROVE  \E D \in SUBSET Pending : StoreStep(D)
        BY <1>1, <1>5 DEF Replay
    <1>6. ASSUME NEW c \in CallId, NEW f \in Fingerprint, NEW o \in OpId,
                 Start(c, f, o, CallId)
          PROVE  \E D \in SUBSET Pending : StoreStep(D)
        <2>1. PICK D \in SUBSET Ackable(CallId) : Started(c, f, o, D)
            BY <1>6, StartFacts
        <2>2. o \in OpId \ Issued
            BY <1>6 DEF Start, Issued
        <2>3. Starts(D, o)
            BY <2>1 DEF Started, Starts
        <2>4. \A p \in Issued : rows'[p].fp = rows[p].fp
            BY <2>1, <2>2 DEF Started, Issued
        <2>5. D \subseteq Pending
            BY <2>1 DEF Started
        <2> QED
            BY <2>2, <2>3, <2>4, <2>5 DEF StoreStep
    <1>7. ASSUME NEW o \in OpId, NEW outcome \in Outcome,
                 Return(o, outcome) \/ StrayReturn(o, outcome)
          PROVE  \E D \in SUBSET Pending : StoreStep(D)
        <2>1. o \in running \cup strays /\ Finish(o, outcome) /\ o \in Pending /\ rows[o] \in Row
            BY <1>7 DEF Return, StrayReturn, IInv, ExecutingIsStarted, TypeOK, Pending, Issued
        <2>2. /\ rows' \in [OpId -> Row \cup {NoRow}] /\ Pending' = Pending
              /\ \A p \in Pending : rows'[p].fp = rows[p].fp
              /\ \A p \in OpId \ {o} : rows'[p] = rows[p]
            BY <2>1, FinishFacts
        <2>3. o \in Issued /\ o \in Issued'
            BY <2>1, <2>2 DEF Pending
        <2>4. Issued' = Issued /\ \A p \in Issued : rows'[p].fp = rows[p].fp
            BY <2>1, <2>2, <2>3 DEF Issued
        <2>5. StoreStep({})
            BY <2>2, <2>4 DEF StoreStep
        <2> QED
            BY <2>5
    <1>8. CASE \/ \E present \in SUBSET CallId : Recover(present)
               \/ BeginRound
               \/ NewTurn
               \/ Crash
               \/ UNCHANGED journalVars
        BY <1>3, <1>8 DEF Recover, BeginRound, NewTurn, Crash, NewJournal, storeVars, journalVars
    <1> QED
        BY <1>2, <1>4, <1>5, <1>6, <1>7, <1>8 DEF Next

(* The holder of a fingerprint in a store with a single claim for each.    *)
HolderOf(f) == Holder(Pending, f)

HoldersClaim ==
    \A f \in Fingerprint :
        /\ HolderOf(f) # NoOp => HolderOf(f) \in Pending /\ rows[HolderOf(f)].fp = f
        /\ \A o \in Pending : rows[o].fp = f => HolderOf(f) = o

LEMMA HoldersAreUnique == IInv => HoldersClaim
    <1> SUFFICES ASSUME IInv, NEW f \in Fingerprint
                 PROVE  /\ HolderOf(f) # NoOp => HolderOf(f) \in Pending /\ rows[HolderOf(f)].fp = f
                        /\ \A o \in Pending : rows[o].fp = f => HolderOf(f) = o
        BY DEF HoldersClaim
    <1>1. Pending \in SUBSET OpId
        BY DEF Pending, Issued
    <1>2. ASSUME NEW o \in Pending, rows[o].fp = f
          PROVE  HolderOf(f) = o
        <2>1. HolderOf(f) \in Pending /\ rows[HolderOf(f)].fp = f
            BY <1>1, <1>2, HolderFacts DEF HolderOf
        <2> QED
            BY <1>2, <2>1 DEF IInv, SingleClaim
    <1> QED
        BY <1>1, <1>2, HolderFacts DEF HolderOf

(* The fingerprints that are barred, in the words of EffectClaims.         *)
Barred == {f \in Fingerprint : \E o \in Issued : rows[o].fp = f /\ Quarantined(o)}

(* A bar is for ever, and bars what is held.                               *)
LEMMA BarsHold ==
    ASSUME IInv, [Next]_journalVars
    PROVE  /\ Barred \subseteq Barred'
           /\ Barred' \subseteq {f \in Fingerprint : HolderOf(f)' # NoOp}
    <1>1. IInv'
        BY NextPreserves
    <1>2. PICK D \in SUBSET Pending : StoreStep(D)
        BY StoreSteps
    <1>3. ASSUME NEW f \in Barred
          PROVE  f \in Barred'
        <2>1. PICK o \in Issued : rows[o].fp = f /\ Quarantined(o)
            BY DEF Barred
        <2>2. o \in OpId /\ Quarantined(o)'
            BY <2>1, QuarantineStep DEF Issued
        <2>3. o \in Issued' /\ rows'[o].fp = f
            BY <1>2, <2>1 DEF StoreStep, Starts
        <2> QED
            BY <2>2, <2>3 DEF Barred
    <1>4. ASSUME NEW f \in Barred'
          PROVE  f \in Fingerprint /\ HolderOf(f)' # NoOp
        <2>1. PICK o \in Issued' : rows'[o].fp = f /\ Quarantined(o)'
            BY DEF Barred
        <2>2. o \in Pending' /\ o \in OpId /\ f \in Fingerprint
            BY <2>1 DEF Quarantined, Pending, Issued, Barred
        <2>3. HoldersClaim'
            BY <1>1, HoldersAreUnique, PTL
        <2> QED
            BY <2>1, <2>2, <2>3, NoOpAssumption DEF HoldersClaim
    <1> QED
        BY <1>3, <1>4

(* The claims of the receipts that a step releases.                        *)
Settled(D) == {rows[o].fp : o \in D}

Left(D, f) == IF f \in Settled(D) THEN NoOp ELSE HolderOf(f)

(* The claims that are settled are held and not barred.                    *)
LEMMA SettledAreFree ==
    ASSUME IInv, [Next]_journalVars, NEW D \in SUBSET Pending, StoreStep(D)
    PROVE  Settled(D) \subseteq {f \in Fingerprint : HolderOf(f) # NoOp} \ Barred
    <1>1. /\ \A o \in Pending : o \in OpId /\ o \in Issued /\ rows[o].fp \in Fingerprint
          /\ HoldersClaim
        BY HoldersAreUnique DEF Pending, Issued, IInv, TypeOK, Row
    <1>2. ASSUME NEW o \in D
          PROVE  rows[o].fp \in Fingerprint /\ HolderOf(rows[o].fp) # NoOp
        BY <1>1, NoOpAssumption DEF HoldersClaim
    <1>3. ASSUME NEW o \in D, rows[o].fp \in Barred
          PROVE  FALSE
        <2>1. PICK p \in Issued : rows[p].fp = rows[o].fp /\ Quarantined(p)
            BY <1>3 DEF Barred
        <2>2. p \in OpId /\ p \in Pending
            BY <1>1, <2>1 DEF Quarantined
        <2>3. Quarantined(p)' /\ p = o
            BY <1>1, <2>1, <2>2, QuarantineStep DEF IInv, SingleClaim
        <2>4. o \in Pending'
            BY <2>3 DEF Quarantined
        <2> QED
            BY <1>1, <2>4 DEF StoreStep, Starts
    <1> QED
        BY <1>2, <1>3 DEF Settled

(* Who holds a fingerprint after a step that begins no execution of it.    *)
LEMMA HolderAfter ==
    ASSUME IInv, IInv', NEW D \in SUBSET Pending, NEW f \in Fingerprint,
           \A p \in Issued : rows'[p].fp = rows[p].fp,
           \A p \in Pending' : rows'[p].fp = f => p \in Pending \ D,
           Pending \ D \subseteq Pending'
    PROVE  HolderOf(f)' = Left(D, f)
    <1>1. HoldersClaim /\ HoldersClaim'
        BY HoldersAreUnique, PTL
    <1>2. \A p \in Pending : p \in Issued /\ p # NoOp
        BY NoOpAssumption DEF Pending, Issued
    <1>3. CASE HolderOf(f)' # NoOp
        <2>1. HolderOf(f)' \in Pending \ D /\ rows'[HolderOf(f)'].fp = f
            BY <1>1, <1>3 DEF HoldersClaim
        <2>2. rows[HolderOf(f)'].fp = f
            BY <1>2, <2>1
        <2>3. HolderOf(f) = HolderOf(f)'
            BY <1>1, <2>1, <2>2 DEF HoldersClaim
        <2>4. f \notin Settled(D)
            BY <2>1, <2>2 DEF Settled, IInv, SingleClaim
        <2> QED
            BY <2>3, <2>4 DEF Left
    <1>4. CASE HolderOf(f)' = NoOp
        <2>1. ASSUME HolderOf(f) # NoOp, HolderOf(f) \notin D
              PROVE  FALSE
            <3>1. HolderOf(f) \in Pending' /\ rows'[HolderOf(f)].fp = f
                BY <1>1, <1>2, <2>1 DEF HoldersClaim
            <3>2. HolderOf(f)' = HolderOf(f)
                BY <1>1, <3>1 DEF HoldersClaim
            <3> QED
                BY <1>4, <2>1, <3>2
        <2>2. HolderOf(f) # NoOp => f \in Settled(D)
            BY <1>1, <2>1 DEF HoldersClaim, Settled
        <2> QED
            BY <1>4, <2>2 DEF Left
    <1> QED
        BY <1>3, <1>4

(* Every step of the journal settles the claims of the receipts it         *)
(* releases, and may execute what nobody claims.                           *)
LEMMA StepKeepsClaims ==
    ASSUME IInv, [Next]_journalVars
    PROVE  Claims!Next
    <1>1. IInv'
        BY NextPreserves
    <1>2. PICK D \in SUBSET Pending : StoreStep(D)
        BY StoreSteps
    <1>3. Settled(D) \in SUBSET (Claims!Held \ Barred)
        BY <1>2, SettledAreFree DEF Claims!Held, HolderOf
    <1>4. \A f \in Fingerprint : Claims!Released(Settled(D))[f] = Left(D, f)
        BY DEF Claims!Released, Left, HolderOf
    <1>5. ASSUME Issued' = Issued, Pending' = Pending \ D
          PROVE  Claims!Settle(Settled(D))
        <2>1. \A f \in Fingerprint : HolderOf(f)' = Left(D, f)
            BY <1>1, <1>2, <1>5, HolderAfter DEF StoreStep
        <2> QED
            BY <1>5, <2>1 DEF Claims!Settle, Claims!Released, Left, HolderOf
    <1>6. ASSUME NEW o \in OpId \ Issued, Starts(D, o)
          PROVE  \E f \in Fingerprint : Claims!Execute(Settled(D), f, o)
        <2>0. HoldersClaim'
            BY <1>1, HoldersAreUnique, PTL
        <2>1. PICK g \in Fingerprint : g = rows'[o].fp /\ o \in Pending'
            BY <1>6 DEF Starts
        <2>2. HolderOf(g)' = o
            BY <2>0, <2>1 DEF HoldersClaim
        <2>3. Left(D, g) = NoOp
            BY <1>6, <2>1, HoldersAreUnique DEF Left, Settled, Starts, HoldersClaim
        <2>4. ASSUME NEW f \in Fingerprint, f # g
              PROVE  HolderOf(f)' = Left(D, f)
            <3>1. \A p \in Pending' : rows'[p].fp = f => p \in Pending \ D
                BY <1>6, <2>1, <2>4 DEF Starts
            <3> QED
                BY <1>1, <1>2, <1>6, <3>1, HolderAfter DEF StoreStep, Starts
        <2>5. \A f \in Fingerprint : HolderOf(f)' = IF f = g THEN o ELSE Left(D, f)
            BY <2>2, <2>4
        <2>6. Claims!Released(Settled(D))[g] = NoOp
            BY <1>4, <2>1, <2>3
        <2>7. [f \in Fingerprint |-> HolderOf(f)'] = [Claims!Released(Settled(D)) EXCEPT ![g] = o]
            BY <2>5 DEF Claims!Released, Left, HolderOf
        <2> QED
            BY <1>6, <2>1, <2>6, <2>7 DEF Claims!Execute, Starts, HolderOf
    <1>7. Claims!Settle(Settled(D))
          \/ \E f \in Fingerprint, o \in OpId : Claims!Execute(Settled(D), f, o)
        BY <1>2, <1>5, <1>6 DEF StoreStep
    <1>8. Barred \subseteq Barred' /\ Barred' \subseteq {f \in Fingerprint : HolderOf(f)' # NoOp}
        BY BarsHold
    <1> QED
        BY <1>3, <1>7, <1>8 DEF Claims!Next, Barred, HolderOf

-----------------------------------------------------------------------------
(* Theorems.                                                               *)

(* The inductive invariant holds in every behaviour of the journal.        *)
THEOREM Invariance == Spec => []IInv
    <1>1. IInv /\ [Next]_journalVars => IInv'
        BY NextPreserves
    <1> QED
        BY <1>1, InitEstablishes, PTL DEF Spec

(* The journal and its store keep their types.                             *)
THEOREM TypeCorrect == Spec => []TypeOK
    <1>1. IInv => TypeOK
        BY DEF IInv
    <1> QED
        BY <1>1, Invariance, PTL

(* However many calls, retries, reused ids, failed writes, turns and       *)
(* crashes there are, a fingerprint has at most one receipt that is not    *)
(* acknowledged: an effect is not executed again while the model has not   *)
(* been given the outcome of its last execution.                           *)
THEOREM AtMostOneClaim == Spec => []SingleClaim
    <1>1. IInv => SingleClaim
        BY DEF IInv
    <1> QED
        BY <1>1, Invariance, PTL

(* No receipt is acknowledged while its tool runs, neither by the journal  *)
(* that awaits it nor by one that replaced it.                             *)
THEOREM RunningIsPending == Spec => []NoAckWhileExecuting
    <1>1. IInv => NoAckWhileExecuting
        BY DEF IInv, ExecutingIsStarted, NoAckWhileExecuting
    <1> QED
        BY <1>1, Invariance, PTL

(* The journal in memory and the store never disagree on what is pending.  *)
THEOREM MemoryMatchesStore == Spec => []ReceiptsAgree
    <1>1. IInv => ReceiptsAgree
        BY DEF IInv
    <1> QED
        BY <1>1, Invariance, PTL

(* The limit on pending receipts is never passed, so a restart always finds*)
(* a store it is able to load: started receipts are counted with the rest, *)
(* and a call that meets the limit is refused before it is recorded.       *)
THEOREM StoreCanBeLoaded == Spec => []RecoverableStore
    <1>1. Init => BoundedStore
        <2>1. ASSUME Init
              PROVE  Pending = {}
            BY <2>1 DEF Init, Pending, Issued
        <2> QED
            BY <2>1, FS_EmptySet, LimitAssumption DEF BoundedStore, RecoverableStore
    <1>2. IInv /\ BoundedStore /\ [Next]_journalVars => BoundedStore'
        BY BoundedPreserves
    <1>3. BoundedStore => RecoverableStore
        BY DEF BoundedStore
    <1> QED
        BY <1>1, <1>2, <1>3, Invariance, PTL DEF Spec

(* Once the outcome of an operation is uncertain and its tool is over, no  *)
(* conversation, retry, new turn or crash ever lets the host execute its   *)
(* fingerprint again.                                                      *)
THEOREM QuarantineHolds == Spec => QuarantineIsForever
    <1>1. IInv /\ [Next]_journalVars => (\A o \in OpId : Quarantined(o) => Quarantined(o)')
        BY QuarantineStep
    <1> QED
        BY <1>1, Invariance, PTL DEF Spec, QuarantineIsForever

(* Ids, aliases, failed writes, turns, crashes and stray returns are only  *)
(* ways to hold, pass on and settle claims: the journal implements the     *)
(* promise of EffectClaims, for every bound on ids, calls and receipts.    *)
THEOREM KeepsItsClaims == Spec => ImplementsEffectClaims
    <1>1. Init => Claims!Init
        <2>1. ASSUME Init
              PROVE  Issued = {} /\ Pending = {}
            BY <2>1 DEF Init, Pending, Issued
        <2>2. ASSUME Init, NEW f \in Fingerprint
              PROVE  Holder(Pending, f) = NoOp
            BY <2>1, <2>2 DEF Holder
        <2> QED
            BY <2>1, <2>2 DEF Claims!Init
    <1>2. IInv /\ [Next]_journalVars => [Claims!Next]_Claims!claimVars
        BY StepKeepsClaims
    <1> QED
        BY <1>1, <1>2, Invariance, PTL DEF Spec, ImplementsEffectClaims, Claims!Spec
=============================================================================
