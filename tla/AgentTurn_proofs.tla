---------------------------- MODULE AgentTurn_proofs ----------------------------
(***************************************************************************)
(* Theorems on the turn over its journal, for any calls, ids, operations   *)
(* and faults.  They rest on those of ToolOperationJournal_proofs: a turn  *)
(* uses the journal only as its specification allows.                      *)
(***************************************************************************)
EXTENDS AgentTurn, ToolOperationJournal_proofs

USE DEF OpState, Outcome

TurnTyped ==
    /\ scenario \in Scenario /\ phase \in {"round", "between"}
    /\ history \subseteq Result /\ completed \subseteq Result /\ returned \subseteq Result
    /\ waiting \subseteq CallId /\ overflowed \in BOOLEAN

(* The call of a running tool is answered by it: nothing else is executed  *)
(* or replayed under its id.                                               *)
RunningIsNamed == \A o \in running : aliases[rows[o].call] = o

(* A call the step waits for is that of a running tool.                    *)
WaitingRuns == \A c \in waiting : \E o \in running : rows[o].call = c

TurnInv == IInv /\ TurnTyped /\ RunningIsNamed /\ WaitingRuns

-----------------------------------------------------------------------------
(* The turn is a user of the journal.                                      *)

(* The ids of results are call ids.                                        *)
LEMMA IdsTyped == ASSUME NEW R \in SUBSET Result PROVE Ids(R) \in SUBSET CallId
  BY DEF Ids, Result

(* What a conversation releases, any larger one releases too.              *)
LEMMA MoreIsReleasable == ASSUME NEW M \in SUBSET CallId
                          PROVE  Ackable(M) \subseteq Ackable(CallId)
  BY DEF Ackable

(* So the journal allows what the turn does with its own conversation.     *)
LEMMA AnyConversation ==
    ASSUME NEW M \in SUBSET CallId
    PROVE  /\ Acknowledge(M) => Acknowledge(CallId)
           /\ Refuse(M) => Refuse(CallId)
           /\ \A c \in CallId, f \in Fingerprint : Replay(c, f, M) => Replay(c, f, CallId)
           /\ \A c \in CallId, f \in Fingerprint, o \in OpId :
                Start(c, f, o, M) => Start(c, f, o, CallId)
<1>1. \A D \in SUBSET Ackable(M) : D \in SUBSET Ackable(CallId)
  BY MoreIsReleasable
<1>2. Acknowledge(M) => Acknowledge(CallId)
  BY <1>1 DEF Acknowledge
<1>3. Refuse(M) => Refuse(CallId)
  BY <1>2 DEF Refuse
<1>4. \A c \in CallId, f \in Fingerprint : Replay(c, f, M) => Replay(c, f, CallId)
  BY <1>1 DEF Replay
<1>5. ASSUME NEW c \in CallId, NEW f \in Fingerprint, NEW o \in OpId, Start(c, f, o, M)
      PROVE  Start(c, f, o, CallId)
  <2> DEFINE Runs(D) ==
        /\ ~IdReused(c, f) /\ Previous(c, f, D) = NoOp
        /\ Cardinality(operations \ D) < MaxPending
        /\ rows' = [RowsAfter(D) EXCEPT
                       ![o] = [fp |-> f, call |-> c, state |-> "started", acked |-> FALSE]]
        /\ operations' = (operations \ D) \cup {o}
        /\ state' = [state EXCEPT ![o] = "started"] /\ aliases' = [aliases EXCEPT ![c] = o]
        /\ barriers' = BarriersAfter(D) /\ running' = running \cup {o}
        /\ UNCHANGED <<loadProblem, strays, observed, recovered>>
  <2>1. ~loadProblem /\ rows[o] = NoRow /\ \E D \in SUBSET Ackable(M) : Runs(D)
    BY <1>5 DEF Start, Room
  <2>2. \A S : (\E D \in SUBSET Ackable(S) : Runs(D)) /\ ~loadProblem /\ rows[o] = NoRow =>
                 Start(c, f, o, S)
    BY DEF Start, Room
  <2> HIDE DEF Runs
  <2>3. \E D \in SUBSET Ackable(CallId) : Runs(D)
    BY <1>1, <2>1
  <2> QED
    BY <2>1, <2>2, <2>3
<1> QED
  BY <1>2, <1>3, <1>4, <1>5

(* Every step of the turn is one of the journal's, or leaves it alone.     *)
LEMMA JournalStep == ASSUME TurnTyped, [TurnNext]_vars PROVE [Next]_journalVars
<1>1. Messages \in SUBSET CallId
  BY IdsTyped DEF Messages, TurnTyped
<1>2. ASSUME NEW c \in CallId, NEW f \in Fingerprint, ModelCalls(c, f) PROVE Next
  <2>1. CASE \E o \in OpId : Start(c, f, o, Messages)
    BY <2>1, <1>1, AnyConversation DEF Next
  <2>2. CASE Replay(c, f, Messages)
    BY <2>2, <1>1, AnyConversation DEF Next
  <2>3. CASE Refuse(Messages)
    BY <2>3, <1>1, AnyConversation DEF Next
  <2> QED
    BY <1>2, <2>1, <2>2, <2>3 DEF ModelCalls
<1>3. ASSUME NEW o \in OpId, NEW outcome \in Outcome,
             ToolReturns(o, outcome) \/ LateReturn(o, outcome)
      PROVE  Next
  BY <1>3 DEF ToolReturns, LateReturn, Next
<1>4. CASE StepFinishes \/ RoundSucceeds
  <2>1. Ids(completed) \in SUBSET CallId /\ Ids(completed \cup returned) \in SUBSET CallId
    BY IdsTyped DEF TurnTyped
  <2>2. Acknowledge(CallId)
    BY <1>4, <2>1, AnyConversation DEF StepFinishes, RoundSucceeds, Ids
  <2> QED
    BY <2>2 DEF Next
<1>5. CASE Interrupted
  <2>1. Ids(completed) \in SUBSET CallId
    BY IdsTyped DEF TurnTyped
  <2> QED
    BY <1>5, <2>1 DEF Interrupted, Next
<1>6. CASE ContextLimit \/ NextRound \/ TurnEnds \/ TurnDropped \/ ProcessDies
  BY <1>6 DEF ContextLimit, NextRound, TurnEnds, TurnDropped, ProcessDies, Next
<1>7. CASE UNCHANGED vars
  BY <1>7 DEF vars
<1> QED
  BY <1>2, <1>3, <1>4, <1>5, <1>6, <1>7 DEF TurnNext

-----------------------------------------------------------------------------
(* The turn's own state.                                                   *)

(* Every step keeps it typed.                                              *)
LEMMA TurnTypeStep ==
    ASSUME IInv, IInv', TurnTyped, [TurnNext]_vars
    PROVE  TurnTyped'
<1> USE DEF TurnTyped
<1>1. TypeOK /\ TypeOK'
  BY DEF IInv
<1>2. ASSUME NEW c \in CallId, NEW f \in Fingerprint, ModelCalls(c, f) PROVE TurnTyped'
  <2>1. aliases'[c] \in OpId \cup {NoOp}
    BY <1>1 DEF TypeOK
  <2> QED
    BY <1>2, <2>1 DEF ModelCalls, Result
<1>3. ASSUME NEW o \in OpId, NEW outcome \in Outcome, ToolReturns(o, outcome)
      PROVE  TurnTyped'
  <2>1. rows[o] \in Row
    BY <1>1, <1>3 DEF ToolReturns, Return, IInv, ExecutingIsStarted, Pending, Issued, TypeOK
  <2>2. rows[o].call \in CallId
    BY <2>1 DEF Row
  <2> QED
    BY <1>3, <2>2 DEF ToolReturns, Result
<1>4. CASE Interrupted
  <2>1. Recovered \subseteq Result
    BY <1>1 DEF Recovered, Preserved, TypeOK, Result
  <2> QED
    BY <1>4, <2>1 DEF Interrupted
<1>5. CASE \/ StepFinishes \/ RoundSucceeds \/ ContextLimit \/ NextRound \/ TurnEnds
           \/ TurnDropped \/ ProcessDies
  BY <1>5 DEF StepFinishes, RoundSucceeds, ContextLimit, NextRound, TurnEnds, TurnDropped,
     ProcessDies, NextTurn, ClearRound
<1>6. CASE \E o \in OpId, outcome \in Outcome : LateReturn(o, outcome)
  BY <1>6 DEF LateReturn, turnVars
<1>7. CASE UNCHANGED vars
  BY <1>7 DEF vars, turnVars
<1> QED
  BY <1>2, <1>3, <1>4, <1>5, <1>6, <1>7 DEF TurnNext

-----------------------------------------------------------------------------
(* Receipts and the ids of calls.                                          *)

(* A receipt keeps its call and its fingerprint, and stays acknowledged.   *)
KeepsCall(o, row) == row # NoRow /\ row.call = rows[o].call /\ row.fp = rows[o].fp
                     /\ (rows[o].acked => row.acked)

(* A release changes no call.                                              *)
LEMMA ReleaseKeepsCalls ==
    ASSUME IInv, NEW M, NEW D \in SUBSET Ackable(M), NEW o \in Issued
    PROVE  KeepsCall(o, RowsAfter(D)[o])
<1>1. o \in OpId /\ rows[o] \in Row /\ rows[o] # NoRow
  BY DEF IInv, TypeOK, Issued
<1>2. [rows[o] EXCEPT !.acked = TRUE] \in Row
  BY <1>1 DEF Row
<1> QED
  BY <1>1, <1>2, NoRowAssumption DEF RowsAfter, Row, KeepsCall

(* Nor does the outcome of a tool.                                         *)
LEMMA FinishKeepsCalls ==
    ASSUME IInv, NEW p \in OpId, p \in Issued, NEW outcome \in Outcome, Finish(p, outcome),
           NEW o \in Issued
    PROVE  KeepsCall(o, rows'[o]) /\ (rows'[o].acked => rows[o].acked)
<1>1. /\ o \in OpId /\ rows[o] \in Row /\ rows[o] # NoRow
      /\ rows[p] \in Row /\ rows \in [OpId -> Row \cup {NoRow}]
  BY DEF IInv, TypeOK, Issued
<1>2. [rows[p] EXCEPT !.state = outcome] \in Row
  BY <1>1 DEF Row
<1>3. rows' = rows \/ rows' = [rows EXCEPT ![p] = [rows[p] EXCEPT !.state = outcome]]
  BY DEF Finish
<1>4. CASE rows' = rows
  BY <1>1, <1>4 DEF KeepsCall
<1>5. CASE rows' = [rows EXCEPT ![p] = [rows[p] EXCEPT !.state = outcome]]
  <2>1. CASE o = p
    BY <1>1, <1>2, <1>5, <2>1, NoRowAssumption DEF Row, KeepsCall
  <2>2. CASE o # p
    BY <1>1, <1>5, <2>2 DEF KeepsCall
  <2> QED
    BY <2>1, <2>2
<1> QED
  BY <1>3, <1>4, <1>5

(* What an execution does to the receipts and ids of the others.           *)
LEMMA Executed ==
    ASSUME IInv, NEW c \in CallId, NEW f \in Fingerprint, NEW o \in OpId, NEW M,
           Start(c, f, o, M)
    PROVE  /\ o \notin Issued /\ Issued' = Issued \cup {o}
           /\ rows'[o].call = c /\ rows'[o].fp = f /\ ~rows'[o].acked
           /\ running' = running \cup {o} /\ aliases' = [aliases EXCEPT ![c] = o]
           /\ \A p \in Issued : KeepsCall(p, rows'[p])
           /\ \A p \in Issued : rows'[p].acked => rows[p].acked \/ p \in Ackable(M)
           /\ \A p \in Pending : rows[p].fp = f => p \in Ackable(M) /\ rows'[p].acked
<1> DEFINE new == [fp |-> f, call |-> c, state |-> "started", acked |-> FALSE]
<1>1. PICK D \in SUBSET Ackable(M) :
         /\ ~IdReused(c, f) /\ Previous(c, f, D) = NoOp
         /\ rows' = [RowsAfter(D) EXCEPT ![o] = new]
         /\ aliases' = [aliases EXCEPT ![c] = o]
         /\ running' = running \cup {o}
  BY DEF Start
<1>2. rows[o] = NoRow /\ ~loadProblem
  BY DEF Start
<1>3. RowsAfter(D) \in [OpId -> Row \cup {NoRow}]
  BY ReleasedRows
<1>4. rows'[o] = new /\ \A p \in OpId \ {o} : rows'[p] = RowsAfter(D)[p]
  BY <1>1, <1>3
<1>5. new # NoRow /\ new.call = c /\ new.fp = f /\ ~new.acked
  <2>1. new \in Row
    BY DEF Row
  <2> QED
    BY <2>1, NoRowAssumption
<1>6. o \notin Issued /\ Issued \subseteq OpId \ {o}
  BY <1>2 DEF Issued
<1>7. \A p \in OpId : RowsAfter(D)[p] = NoRow <=> rows[p] = NoRow
  BY ReleasedRows
<1>8. Issued' = Issued \cup {o}
  BY <1>4, <1>5, <1>6, <1>7 DEF Issued
<1>9. \A p \in Issued : KeepsCall(p, rows'[p])
  BY <1>4, <1>6, ReleaseKeepsCalls
<1>10. \A p \in Issued : rows'[p].acked => rows[p].acked \/ p \in Ackable(M)
  BY <1>4, <1>6 DEF RowsAfter
<1>11. ASSUME NEW p \in Pending, rows[p].fp = f PROVE p \in Ackable(M) /\ rows'[p].acked
  <2>1. \A q \in operations \ D : rows[q].fp # f
    BY <1>1, PreviousFacts
  <2>2. p \in D
    BY <2>1, <1>2, <1>11 DEF IInv, ReceiptsAgree
  <2>3. p \in OpId /\ p # o
    BY <1>6 DEF Pending
  <2>4. rows[p] # NoRow => (RowsAfter(D)[p].acked <=> rows[p].acked \/ p \in D)
    BY <2>3, ReleasedRows
  <2> QED
    BY <1>4, <2>2, <2>3, <2>4 DEF Pending, Issued
<1> HIDE DEF new
<1> QED
  BY <1>1, <1>4, <1>5, <1>6, <1>8, <1>9, <1>10, <1>11

(* The same of a call that is answered from a receipt, and of releases.    *)
LEMMA Replayed ==
    ASSUME IInv, NEW c \in CallId, NEW f \in Fingerprint, NEW M, Replay(c, f, M)
    PROVE  /\ Issued' = Issued /\ running' = running /\ strays' = strays
           /\ aliases'[c] \in Pending /\ rows[aliases'[c]].fp = f /\ ~IdReused(c, f)
           /\ aliases' = [aliases EXCEPT ![c] = aliases'[c]]
           /\ observed' = observed \cup {<<c, aliases'[c]>>}
           /\ \A p \in Issued : KeepsCall(p, rows'[p])
           /\ \A p \in Issued : rows'[p].acked => rows[p].acked \/ p \in Ackable(M)
<1>1. PICK D \in SUBSET Ackable(M) :
         /\ ~IdReused(c, f) /\ Previous(c, f, D) # NoOp
         /\ rows' = RowsAfter(D)
         /\ aliases' = [aliases EXCEPT ![c] = Previous(c, f, D)]
         /\ observed' = observed \cup {<<c, Previous(c, f, D)>>}
         /\ running' = running /\ strays' = strays
  BY DEF Replay, toolVars
<1>2. Previous(c, f, D) \in operations /\ rows[Previous(c, f, D)].fp = f
  BY <1>1, PreviousFacts
<1>3. operations \subseteq Pending
  BY DEF IInv, ReceiptsAgree
<1>4. aliases'[c] = Previous(c, f, D)
  BY <1>1 DEF IInv, TypeOK
<1>5. Issued' = Issued
  BY <1>1, ReleaseLeaves
<1>6. \A p \in Issued : KeepsCall(p, rows'[p])
  BY <1>1, ReleaseKeepsCalls
<1>7. \A p \in Issued : rows'[p].acked => rows[p].acked \/ p \in Ackable(M)
  BY <1>1 DEF RowsAfter, Issued
<1> QED
  BY <1>1, <1>2, <1>3, <1>4, <1>5, <1>6, <1>7

(* Receipts released for what the conversation holds.                      *)
LEMMA Acknowledged ==
    ASSUME IInv, NEW M, Acknowledge(M)
    PROVE  /\ Issued' = Issued
           /\ UNCHANGED <<running, strays, aliases, observed, recovered>>
           /\ \A p \in Issued : KeepsCall(p, rows'[p])
           /\ \A p \in Issued : rows'[p].acked => rows[p].acked \/ p \in Ackable(M)
<1>1. PICK D \in SUBSET Ackable(M) :
         rows' = RowsAfter(D) /\ UNCHANGED <<running, strays, aliases, observed, recovered>>
  BY DEF Acknowledge, toolVars
<1>2. Issued' = Issued
  BY <1>1, ReleaseLeaves
<1>3. \A p \in Issued : KeepsCall(p, rows'[p])
  BY <1>1, ReleaseKeepsCalls
<1>4. \A p \in Issued : rows'[p].acked => rows[p].acked \/ p \in Ackable(M)
  BY <1>1 DEF RowsAfter, Issued
<1> QED
  BY <1>1, <1>2, <1>3, <1>4

(* A call refused before any effect may have released receipts.            *)
LEMMA RefusedCall ==
    ASSUME IInv, NEW M, Refuse(M)
    PROVE  /\ Issued' = Issued
           /\ UNCHANGED <<running, strays, aliases, observed, recovered>>
           /\ \A p \in Issued : KeepsCall(p, rows'[p])
           /\ \A p \in Issued : rows'[p].acked => rows[p].acked \/ p \in Ackable(M)
<1>1. CASE Acknowledge(M)
  BY <1>1, Acknowledged
<1>2. CASE UNCHANGED journalVars
  BY <1>2 DEF journalVars, Issued, KeepsCall
<1> QED
  BY <1>1, <1>2 DEF Refuse

(* A tool that returns, to its own journal or to one that replaced it.     *)
LEMMA Returned ==
    ASSUME IInv, NEW o \in OpId, NEW outcome \in Outcome,
           Return(o, outcome) \/ StrayReturn(o, outcome)
    PROVE  /\ o \in Issued /\ Issued' = Issued /\ aliases' = aliases /\ recovered' = recovered
           /\ running' = running \ {o}
           /\ \/ observed' = observed \cup {<<rows[o].call, o>>} /\ o \in running
              \/ observed' = observed
           /\ \A p \in Issued : KeepsCall(p, rows'[p]) /\ (rows'[p].acked => rows[p].acked)
<1>1. o \in running \cup strays /\ Finish(o, outcome)
  BY DEF Return, StrayReturn
<1>2. o \in Issued
  BY <1>1 DEF IInv, ExecutingIsStarted, Pending
<1>3. \A p \in Issued : KeepsCall(p, rows'[p]) /\ (rows'[p].acked => rows[p].acked)
  BY <1>1, <1>2, FinishKeepsCalls
<1>4. \A p \in OpId \ {o} : rows'[p] = rows[p]
  BY <1>1, FinishFacts
<1>5. Issued' = Issued
  BY <1>2, <1>3, <1>4 DEF Issued, KeepsCall
<1>6. StrayReturn(o, outcome) => o \notin running
  BY DEF StrayReturn, IInv, ExecutingIsStarted, StraysAreBarred
<1>7. /\ aliases' = aliases /\ recovered' = recovered /\ running' = running \ {o}
      /\ \/ observed' = observed \cup {<<rows[o].call, o>>} /\ o \in running
         \/ observed' = observed
  BY <1>6 DEF Return, StrayReturn, memoryVars
<1> QED
  BY <1>2, <1>3, <1>5, <1>7

-----------------------------------------------------------------------------
(* Running tools and the calls that wait for them.                         *)

(* A journal action that executes nothing and leaves the tools as they are.*)
Quiet == /\ Issued' = Issued /\ running' = running
         /\ \A p \in Issued : KeepsCall(p, rows'[p])

(* The turn's actions other than calls and returns: they leave the tools   *)
(* and the ids alone, or the new journal awaits no tool.                   *)
LEMMA OtherSteps ==
    ASSUME IInv, TurnTyped,
           StepFinishes \/ RoundSucceeds \/ Interrupted \/ ContextLimit \/ NextRound
           \/ TurnEnds \/ TurnDropped \/ ProcessDies
    PROVE  /\ Issued' = Issued
           /\ \A p \in Issued : KeepsCall(p, rows'[p])
           /\ waiting' \in {waiting, {}}
           /\ \/ running' = running /\ aliases' = aliases
              \/ running' = {} /\ waiting' = {}
<1>1. CASE StepFinishes \/ RoundSucceeds
  <2>1. PICK M : Acknowledge(M)
    BY <1>1 DEF StepFinishes, RoundSucceeds
  <2> QED
    BY <1>1, <2>1, Acknowledged DEF StepFinishes, RoundSucceeds
<1>2. CASE Interrupted \/ ContextLimit \/ NextRound
  BY <1>2 DEF Interrupted, ContextLimit, NextRound, Recover, BeginRound, journalVars,
     storeVars, toolVars, ClearRound, Issued, KeepsCall
<1>3. CASE TurnEnds \/ TurnDropped \/ ProcessDies
  BY <1>3 DEF TurnEnds, TurnDropped, ProcessDies, NewTurn, Crash, NewJournal, NextTurn,
     ClearRound, storeVars, Issued, KeepsCall
<1> QED
  BY <1>1, <1>2, <1>3

(* A running tool has a pending receipt whose outcome is not known.        *)
LEMMA RunningFacts ==
    ASSUME IInv, NEW p \in running
    PROVE  /\ p \in Pending /\ p \in Issued /\ p \in OpId /\ state[p] = "started"
           /\ rows[p] \in Row /\ rows[p].call \in CallId /\ p # NoOp
<1>1. p \in Pending /\ state[p] = "started"
  BY DEF IInv, ExecutingIsStarted
<1>2. p \in Issued /\ p \in OpId /\ rows[p] \in Row
  BY <1>1 DEF IInv, TypeOK, Pending, Issued
<1> QED
  BY <1>1, <1>2, NoOpAssumption DEF Row

(* Running tools keep their ids, and waiting calls their tools.            *)
LEMMA RunningStep ==
    ASSUME TurnInv, [TurnNext]_vars
    PROVE  RunningIsNamed' /\ WaitingRuns'
<1> USE DEF TurnInv
<1>1. ASSUME NEW c \in CallId, NEW f \in Fingerprint, ModelCalls(c, f)
      PROVE  RunningIsNamed' /\ WaitingRuns'
  <2>0. aliases \in [CallId -> OpId \cup {NoOp}]
    BY DEF IInv, TypeOK
  <2>1. ASSUME NEW o \in OpId, Start(c, f, o, Messages), waiting' = waiting \cup {c}
        PROVE  RunningIsNamed' /\ WaitingRuns'
    <3>1. ASSUME NEW p \in running PROVE rows[p].call # c
      <4>1. SUFFICES ASSUME rows[p].call = c PROVE FALSE
        OBVIOUS
      <4>2. aliases[c] = p /\ p # NoOp
        BY <4>1, RunningFacts DEF RunningIsNamed
      <4>3. rows[p].fp = f
        BY <2>1, <4>2 DEF Start, IdReused
      <4>4. p \in Ackable(Messages)
        BY <2>1, <4>3, RunningFacts, Executed
      <4> QED
        BY <4>4, RunningFacts DEF Ackable
    <3>2. /\ running' = running \cup {o} /\ aliases' = [aliases EXCEPT ![c] = o]
          /\ rows'[o].call = c /\ \A p \in Issued : rows'[p].call = rows[p].call
      BY <2>1, Executed DEF KeepsCall
    <3>3. \A p \in running : rows'[p].call = rows[p].call /\ rows[p].call \in CallId \ {c}
      BY <3>1, <3>2, RunningFacts
    <3>4. RunningIsNamed'
      BY <2>0, <3>2, <3>3 DEF RunningIsNamed
    <3>5. WaitingRuns'
      BY <2>1, <3>2, <3>3 DEF WaitingRuns
    <3> QED
      BY <3>4, <3>5
  <2>2. CASE Replay(c, f, Messages) /\ UNCHANGED waiting
    <3>1. /\ running' = running /\ \A p \in Issued : rows'[p].call = rows[p].call
          /\ aliases' = [aliases EXCEPT ![c] = aliases'[c]]
          /\ aliases'[c] \in Pending /\ rows[aliases'[c]].fp = f /\ ~IdReused(c, f)
      BY <2>2, Replayed DEF KeepsCall
    <3>2. ASSUME NEW p \in running, rows[p].call = c PROVE aliases'[c] = p
      <4>1. aliases[c] = p /\ p # NoOp /\ p \in Pending
        BY <3>2, RunningFacts DEF RunningIsNamed
      <4>2. rows[p].fp = f
        BY <3>1, <4>1 DEF IdReused
      <4> QED
        BY <3>1, <4>1, <4>2 DEF IInv, SingleClaim
    <3>3. \A p \in running : rows'[p].call = rows[p].call /\ rows[p].call \in CallId
      BY <3>1, RunningFacts
    <3>4. RunningIsNamed'
      BY <2>0, <3>1, <3>2, <3>3 DEF RunningIsNamed
    <3>5. WaitingRuns'
      BY <2>2, <3>1, <3>3 DEF WaitingRuns
    <3> QED
      BY <3>4, <3>5
  <2>3. CASE Refuse(Messages) /\ UNCHANGED waiting
    <3>1. /\ running' = running /\ aliases' = aliases
          /\ \A p \in running : rows'[p].call = rows[p].call
      BY <2>3, RefusedCall, RunningFacts DEF KeepsCall
    <3> QED
      BY <2>3, <3>1 DEF RunningIsNamed, WaitingRuns
  <2> QED
    BY <1>1, <2>1, <2>2, <2>3 DEF ModelCalls
<1>2. ASSUME NEW o \in OpId, NEW outcome \in Outcome,
             ToolReturns(o, outcome) \/ LateReturn(o, outcome)
      PROVE  RunningIsNamed' /\ WaitingRuns'
  <2>1. Return(o, outcome) \/ StrayReturn(o, outcome)
    BY <1>2 DEF ToolReturns, LateReturn
  <2>2. /\ running' = running \ {o} /\ aliases' = aliases
        /\ \A p \in running : rows'[p].call = rows[p].call
    BY <2>1, Returned, RunningFacts DEF KeepsCall
  <2>3. RunningIsNamed'
    BY <2>2 DEF RunningIsNamed
  <2>4. CASE ToolReturns(o, outcome)
    <3>1. \A d \in waiting' : d \in waiting /\ d # rows[o].call
      BY <2>4 DEF ToolReturns
    <3>2. WaitingRuns'
      BY <2>2, <3>1 DEF WaitingRuns
    <3> QED
      BY <2>3, <3>2
  <2>5. CASE LateReturn(o, outcome)
    <3>1. waiting' = waiting /\ o \notin running
      BY <2>5 DEF LateReturn, turnVars, StrayReturn, IInv, StraysAreBarred,
         ExecutingIsStarted
    <3> QED
      BY <2>2, <2>3, <3>1 DEF WaitingRuns
  <2> QED
    BY <1>2, <2>4, <2>5
<1>3. CASE StepFinishes \/ RoundSucceeds \/ Interrupted \/ ContextLimit \/ NextRound
           \/ TurnEnds \/ TurnDropped \/ ProcessDies
  <2>1. /\ \A p \in running : rows'[p].call = rows[p].call
        /\ waiting' \in {waiting, {}}
        /\ \/ running' = running /\ aliases' = aliases
           \/ running' = {} /\ waiting' = {}
    BY <1>3, OtherSteps, RunningFacts DEF KeepsCall
  <2> QED
    BY <2>1 DEF RunningIsNamed, WaitingRuns
<1>4. CASE UNCHANGED vars
  BY <1>4 DEF vars, turnVars, journalVars, RunningIsNamed, WaitingRuns
<1> QED
  BY <1>1, <1>2, <1>3, <1>4 DEF TurnNext

(* The turn starts well, and each step keeps it so.                        *)
LEMMA TurnInitially == TurnInit => TurnInv
<1> SUFFICES ASSUME TurnInit PROVE TurnInv
  OBVIOUS
<1>1. IInv /\ TurnTyped
  BY InitEstablishes DEF TurnInit, TurnTyped
<1>2. RunningIsNamed /\ WaitingRuns
  BY DEF TurnInit, Init, RunningIsNamed, WaitingRuns
<1> QED
  BY <1>1, <1>2 DEF TurnInv

(* The inductive step.                                                     *)
LEMMA TurnSteps == ASSUME TurnInv, [TurnNext]_vars PROVE TurnInv'
<1>1. [Next]_journalVars
  BY JournalStep DEF TurnInv
<1>2. IInv'
  BY <1>1, NextPreserves DEF TurnInv
<1>3. TurnTyped'
  BY <1>2, TurnTypeStep DEF TurnInv
<1>4. RunningIsNamed' /\ WaitingRuns'
  BY RunningStep
<1> QED
  BY <1>2, <1>3, <1>4 DEF TurnInv

-----------------------------------------------------------------------------
(* What the model has been told, where every failed round is saved.        *)

(* No context limit is met: the code does not save a round it asks again   *)
(* with a smaller context.                                                 *)
Kept == Saved /\ "context" \notin Faults

Results == history \cup completed \cup returned \cup observed

(* A result of call c can only be about the operation that c started or    *)
(* that answered it.                                                       *)
Attributed(c, x) ==
    /\ aliases[c] \in {x, NoOp}
    /\ \A o \in Issued : rows[o].call = c => o = x

OneCallEach == \A o, p \in Issued : rows[o].call = rows[p].call => o = p

ResultsAttributed ==
    /\ \A c \in CallId, x \in OpId \cup {NoOp} : <<c, x>> \in Results => Attributed(c, x)
    /\ \A c \in CallId, x \in OpId : <<c, x>> \in observed => aliases[c] = x

StepsSaved == phase = "between" => completed \subseteq history

AckedIsTold == \A o \in Issued : rows[o].acked => Told(o)

KeptInv == Kept => OneCallEach /\ ResultsAttributed /\ StepsSaved /\ AckedIsTold

(* What is released on the strength of known results has been told.        *)
LEMMA ReleasedByResults ==
    ASSUME IInv, ResultsAttributed, TurnTyped,
           NEW R \in SUBSET (history \cup completed \cup returned),
           NEW o \in Ackable(Ids(R))
    PROVE  \E c \in CallId : <<c, o>> \in R
<1>1. PICK r \in R : aliases[r[1]] = o
  BY DEF Ackable, Ids
<1>2. o \in OpId /\ o # NoOp
  BY NoOpAssumption DEF Ackable, IInv, TypeOK
<1>3. r \in Result
  BY DEF TurnTyped
<1>4. PICK c \in CallId, x \in OpId \cup {NoOp} : r = <<c, x>>
  BY <1>3 DEF Result
<1>5. <<c, x>> \in Results /\ aliases[c] = o
  BY <1>1, <1>4 DEF Results
<1>6. x = o
  BY <1>2, <1>5 DEF ResultsAttributed, Attributed
<1> QED
  BY <1>4, <1>6

(* Receipts and results after a step that executes nothing and keeps ids.  *)
LEMMA QuietKeeps ==
    ASSUME IInv, OneCallEach, ResultsAttributed,
           Issued' = Issued, aliases' = aliases, \A p \in Issued : KeepsCall(p, rows'[p]),
           Results' \subseteq Results, observed' \subseteq observed
    PROVE  OneCallEach' /\ ResultsAttributed'
<1>1. \A p \in Issued : rows'[p].call = rows[p].call
  BY DEF KeepsCall
<1>2. OneCallEach'
  BY <1>1 DEF OneCallEach
<1>3. \A c \in CallId, x \in OpId \cup {NoOp} : Attributed(c, x) => Attributed(c, x)'
  BY <1>1 DEF Attributed
<1>4. ResultsAttributed'
  BY <1>3 DEF ResultsAttributed
<1> QED
  BY <1>2, <1>4

(* A fresh call id has no result and no receipt.                           *)
LEMMA FreshId ==
    ASSUME TurnInv, ResultsAttributed, ~ReusesIds, NEW c \in CallId, Nameable(c)
    PROVE  /\ aliases[c] = NoOp /\ \A o \in Issued : rows[o].call # c
           /\ \A x : <<c, x>> \notin Results
<1>1. aliases[c] = NoOp /\ \A o \in Issued : rows[o].call # c
  BY DEF Nameable
<1>2. ASSUME NEW x PROVE <<c, x>> \notin history \cup completed \cup returned
  BY DEF Nameable, Messages, Ids
<1>3. ASSUME NEW x, <<c, x>> \in observed PROVE FALSE
  <2>1. x \in OpId
    BY <1>3 DEF TurnInv, IInv, TypeOK
  <2> QED
    BY <1>1, <1>3, <2>1, NoOpAssumption DEF ResultsAttributed
<1> QED
  BY <1>1, <1>2, <1>3 DEF Results

(* The model's calls.                                                      *)
LEMMA CallsKeep ==
    ASSUME TurnInv, KeptInv, Kept, NEW c \in CallId, NEW f \in Fingerprint, ModelCalls(c, f)
    PROVE  OneCallEach' /\ ResultsAttributed' /\ StepsSaved' /\ AckedIsTold'
<1> USE DEF KeptInv
<1>1. /\ aliases[c] = NoOp /\ \A o \in Issued : rows[o].call # c
      /\ \A x : <<c, x>> \notin Results
  BY FreshId DEF ModelCalls, Kept, Saved
<1>2. IInv /\ aliases \in [CallId -> OpId \cup {NoOp}] /\ observed \subseteq CallId \X OpId
      /\ \A o \in Issued : o \in OpId /\ rows[o].call \in CallId
  <2>1. IInv /\ aliases \in [CallId -> OpId \cup {NoOp}] /\ observed \subseteq CallId \X OpId
    BY DEF TurnInv, IInv, TypeOK
  <2>2. \A o \in Issued : rows[o] \in Row /\ o \in OpId
    BY DEF TurnInv, IInv, TypeOK, Issued
  <2> QED
    BY <2>1, <2>2 DEF Row
<1>3. /\ history' = history /\ completed' = completed /\ phase' = "round"
  BY DEF ModelCalls
<1>4. StepsSaved'
  BY <1>3 DEF StepsSaved
<1>5. ASSUME NEW o \in Issued, o \in Ackable(Messages) PROVE Told(o)
  <2>1. Messages = Ids(history \cup completed)
    BY DEF Messages
  <2> QED
    BY <1>2, <1>5, <2>1, ReleasedByResults DEF TurnInv, Told
<1>6. \A o \in OpId : Told(o)' <=> Told(o)
  BY <1>3 DEF Told
<1>7. ASSUME \A p \in Issued : rows'[p].acked => rows[p].acked \/ p \in Ackable(Messages)
      PROVE  \A p \in Issued : rows'[p].acked => Told(p)'
  BY <1>2, <1>5, <1>6, <1>7 DEF AckedIsTold
<1>8. ASSUME NEW o \in OpId, Start(c, f, o, Messages), UNCHANGED returned
      PROVE  OneCallEach' /\ ResultsAttributed' /\ AckedIsTold'
  <2>1. /\ Issued' = Issued \cup {o} /\ o \notin Issued /\ rows'[o].call = c /\ ~rows'[o].acked
        /\ aliases' = [aliases EXCEPT ![c] = o]
        /\ \A p \in Issued : rows'[p].call = rows[p].call
        /\ \A p \in Issued : rows'[p].acked => rows[p].acked \/ p \in Ackable(Messages)
    BY <1>2, <1>8, Executed DEF KeepsCall
  <2>2. observed' = observed
    BY <1>8 DEF Start
  <2>3. Results' = Results
    BY <1>3, <1>8, <2>2 DEF Results
  <2>4. OneCallEach'
    BY <1>1, <2>1 DEF OneCallEach
  <2>5. ASSUME NEW d \in CallId, NEW x \in OpId \cup {NoOp}, <<d, x>> \in Results
        PROVE  Attributed(d, x)' /\ aliases'[d] = aliases[d]
    <3>1. d # c /\ Attributed(d, x)
      BY <1>1, <2>5 DEF ResultsAttributed
    <3> QED
      BY <1>2, <2>1, <3>1 DEF Attributed
  <2>6. ResultsAttributed'
    BY <2>2, <2>3, <2>5 DEF ResultsAttributed, Results
  <2>7. AckedIsTold'
    BY <1>7, <2>1 DEF AckedIsTold
  <2> QED
    BY <2>4, <2>6, <2>7
<1>9. ASSUME Replay(c, f, Messages), returned' = returned \cup {<<c, aliases'[c]>>}
      PROVE  OneCallEach' /\ ResultsAttributed' /\ AckedIsTold'
  <2>2. PICK q \in OpId : q = aliases'[c]
    BY <1>2, <1>9, Replayed DEF Pending
  <2>1. /\ Issued' = Issued /\ \A p \in Issued : rows'[p].call = rows[p].call
        /\ aliases' = [aliases EXCEPT ![c] = q]
        /\ observed' = observed \cup {<<c, q>>}
        /\ \A p \in Issued : rows'[p].acked => rows[p].acked \/ p \in Ackable(Messages)
    BY <1>2, <1>9, <2>2, Replayed DEF KeepsCall
  <2>3. Results' = Results \cup {<<c, q>>}
    BY <1>3, <1>9, <2>1, <2>2 DEF Results
  <2>4. OneCallEach'
    BY <2>1 DEF OneCallEach
  <2>5. Attributed(c, q)' /\ aliases'[c] = q
    BY <1>1, <1>2, <2>1, <2>2 DEF Attributed
  <2>6. ASSUME NEW d \in CallId, NEW x \in OpId \cup {NoOp}, <<d, x>> \in Results
        PROVE  Attributed(d, x)' /\ aliases'[d] = aliases[d]
    <3>1. d # c /\ Attributed(d, x)
      BY <1>1, <2>6 DEF ResultsAttributed
    <3> QED
      BY <1>2, <2>1, <3>1 DEF Attributed
  <2>7. ResultsAttributed'
    <3>1. \A d \in CallId, x \in OpId \cup {NoOp} : <<d, x>> \in Results' => Attributed(d, x)'
      BY <2>3, <2>5, <2>6
    <3>2. \A d \in CallId, x \in OpId : <<d, x>> \in observed' => aliases'[d] = x
      BY <2>1, <2>5, <2>6 DEF ResultsAttributed, Results
    <3> QED
      BY <3>1, <3>2 DEF ResultsAttributed
  <2>8. AckedIsTold'
    BY <1>7, <2>1 DEF AckedIsTold
  <2> QED
    BY <2>4, <2>7, <2>8
<1>10. ASSUME Refuse(Messages), returned' = returned \cup {<<c, NoOp>>}
       PROVE  OneCallEach' /\ ResultsAttributed' /\ AckedIsTold'
  <2>1. /\ Issued' = Issued /\ \A p \in Issued : rows'[p].call = rows[p].call
        /\ aliases' = aliases /\ observed' = observed
        /\ \A p \in Issued : rows'[p].acked => rows[p].acked \/ p \in Ackable(Messages)
    BY <1>2, <1>10, RefusedCall DEF KeepsCall
  <2>2. Results' = Results \cup {<<c, NoOp>>}
    BY <1>3, <1>10, <2>1 DEF Results
  <2>3. OneCallEach'
    BY <2>1 DEF OneCallEach
  <2>4. Attributed(c, NoOp)'
    BY <1>1, <2>1 DEF Attributed
  <2>5. \A d \in CallId, x \in OpId \cup {NoOp} : <<d, x>> \in Results => Attributed(d, x)'
    BY <2>1 DEF ResultsAttributed, Attributed
  <2>6. ResultsAttributed'
    BY <2>1, <2>2, <2>4, <2>5 DEF ResultsAttributed
  <2>7. AckedIsTold'
    BY <1>7, <2>1 DEF AckedIsTold
  <2> QED
    BY <2>3, <2>6, <2>7
<1> QED
  BY <1>4, <1>8, <1>9, <1>10 DEF ModelCalls

(* A tool returns.                                                         *)
LEMMA ReturnsKeep ==
    ASSUME TurnInv, KeptInv, Kept, NEW o \in OpId, NEW outcome \in Outcome,
           ToolReturns(o, outcome) \/ LateReturn(o, outcome)
    PROVE  OneCallEach' /\ ResultsAttributed' /\ StepsSaved' /\ AckedIsTold'
<1> USE DEF KeptInv
<1>1. Return(o, outcome) \/ StrayReturn(o, outcome)
  BY DEF ToolReturns, LateReturn
<1>2. IInv /\ observed \subseteq CallId \X OpId
  BY DEF TurnInv, IInv, TypeOK
<1>3. /\ o \in Issued /\ Issued' = Issued /\ aliases' = aliases
      /\ \/ observed' = observed \cup {<<rows[o].call, o>>} /\ o \in running
         \/ observed' = observed
      /\ \A p \in Issued : rows'[p].call = rows[p].call /\ (rows'[p].acked => rows[p].acked)
  BY <1>1, <1>2, Returned DEF KeepsCall
<1>4. /\ history' = history /\ completed' = completed /\ phase' = phase
      /\ \/ returned' = returned
         \/ returned' = returned \cup {<<rows[o].call, o>>} /\ o \in running
  BY DEF ToolReturns, LateReturn, turnVars, Return
<1>5. Results' \subseteq Results \cup {<<rows[o].call, o>>}
      /\ (~(o \in running) => Results' = Results)
  BY <1>3, <1>4 DEF Results
<1>6. OneCallEach'
  BY <1>3 DEF OneCallEach
<1>7. StepsSaved'
  BY <1>4 DEF StepsSaved
<1>8. AckedIsTold'
  BY <1>3, <1>4 DEF AckedIsTold, Told
<1>9. \A d \in CallId, x \in OpId \cup {NoOp} : <<d, x>> \in Results => Attributed(d, x)'
  BY <1>3 DEF ResultsAttributed, Attributed
<1>10. CASE o \in running
  <2>1. PICK c \in CallId : c = rows[o].call
    BY <1>2, <1>10, RunningFacts
  <2>2. aliases[c] = o
    BY <1>10, <2>1 DEF TurnInv, RunningIsNamed
  <2>3. Attributed(c, o)'
    BY <1>3, <2>1, <2>2 DEF Attributed, OneCallEach
  <2>4. \A d \in CallId, x \in OpId \cup {NoOp} : <<d, x>> \in Results' => Attributed(d, x)'
    BY <1>5, <1>9, <2>1, <2>3
  <2>5. \A d \in CallId, x \in OpId : <<d, x>> \in observed' => aliases'[d] = x
    BY <1>3, <2>1, <2>2 DEF ResultsAttributed
  <2> QED
    BY <1>6, <1>7, <1>8, <2>4, <2>5 DEF ResultsAttributed
<1>11. CASE o \notin running
  <2>1. ResultsAttributed'
    BY <1>3, <1>5, <1>9, <1>11 DEF ResultsAttributed
  <2> QED
    BY <1>6, <1>7, <1>8, <2>1
<1> QED
  BY <1>10, <1>11

(* Steps and rounds end.                                                   *)
LEMMA RoundsKeep ==
    ASSUME TurnInv, KeptInv, Kept, StepFinishes \/ RoundSucceeds \/ Interrupted \/ NextRound
    PROVE  OneCallEach' /\ ResultsAttributed' /\ StepsSaved' /\ AckedIsTold'
<1> USE DEF KeptInv
<1>1. IInv /\ TurnTyped
  BY DEF TurnInv
<1>2. ASSUME NEW M, Acknowledge(M), history \cup completed \subseteq history' \cup completed',
             history' \cup completed' \subseteq history \cup completed \cup returned,
             returned' \subseteq returned, M = Ids(completed'), completed' \subseteq history \cup completed \cup returned
      PROVE  OneCallEach' /\ ResultsAttributed' /\ AckedIsTold'
  <2>1. /\ Issued' = Issued /\ aliases' = aliases /\ observed' = observed
        /\ \A p \in Issued : KeepsCall(p, rows'[p])
        /\ \A p \in Issued : rows'[p].acked => rows[p].acked \/ p \in Ackable(M)
    BY <1>1, <1>2, Acknowledged
  <2>2. Results' \subseteq Results
    BY <1>2, <2>1 DEF Results
  <2>3. OneCallEach' /\ ResultsAttributed'
    BY <1>1, <2>1, <2>2, QuietKeeps
  <2>4. \A p \in Ackable(M) : \E c \in CallId : <<c, p>> \in completed'
    BY <1>1, <1>2, ReleasedByResults
  <2>5. AckedIsTold'
    BY <1>2, <2>1, <2>4 DEF AckedIsTold, Told
  <2> QED
    BY <2>3, <2>5
<1>3. CASE StepFinishes
  <2>1. StepsSaved'
    BY <1>3 DEF StepFinishes, StepsSaved
  <2> QED
    BY <1>2, <1>3, <2>1 DEF StepFinishes
<1>4. CASE RoundSucceeds
  <2>1. StepsSaved'
    BY <1>4 DEF RoundSucceeds, StepsSaved
  <2>2. Acknowledge(Ids(completed')) /\ completed' = completed
    BY <1>4 DEF RoundSucceeds, Ids
  <2> QED
    BY <1>2, <1>4, <2>1, <2>2 DEF RoundSucceeds
<1>5. CASE Interrupted
  <2>1. /\ Issued' = Issued /\ aliases' = aliases /\ rows' = rows /\ observed' = observed
        /\ history' = history \cup Recovered /\ completed' = completed /\ returned' = returned
    BY <1>5 DEF Interrupted, Recover, storeVars, Issued
  <2>2. completed \subseteq Recovered /\ Recovered \subseteq completed \cup observed
    BY DEF Recovered, Preserved
  <2>3. Results' \subseteq Results
    BY <2>1, <2>2 DEF Results
  <2>4. \A p \in Issued : KeepsCall(p, rows'[p])
    BY <2>1 DEF KeepsCall, Issued
  <2>5. OneCallEach' /\ ResultsAttributed'
    BY <1>1, <2>1, <2>3, <2>4, QuietKeeps
  <2>6. StepsSaved' /\ AckedIsTold'
    BY <2>1, <2>2 DEF StepsSaved, AckedIsTold, Told
  <2> QED
    BY <2>5, <2>6
<1>6. CASE NextRound
  <2>1. /\ Issued' = Issued /\ aliases' = aliases /\ rows' = rows /\ observed' = {}
        /\ history' = history /\ completed' = {} /\ returned' = {} /\ phase' = "round"
        /\ completed \subseteq history
    BY <1>6 DEF NextRound, BeginRound, storeVars, Issued, ClearRound, StepsSaved
  <2>2. Results' \subseteq Results
    BY <2>1 DEF Results
  <2>3. \A p \in Issued : KeepsCall(p, rows'[p])
    BY <2>1 DEF KeepsCall, Issued
  <2>4. OneCallEach' /\ ResultsAttributed'
    BY <1>1, <2>1, <2>2, <2>3, QuietKeeps
  <2>5. StepsSaved' /\ AckedIsTold'
    BY <2>1 DEF StepsSaved, AckedIsTold, Told
  <2> QED
    BY <2>4, <2>5
<1> QED
  BY <1>3, <1>4, <1>5, <1>6

(* The next turn loads the journal from its receipts.                      *)
LEMMA TurnsKeep ==
    ASSUME TurnInv, KeptInv, Kept, TurnEnds
    PROVE  OneCallEach' /\ ResultsAttributed' /\ StepsSaved' /\ AckedIsTold'
<1> USE DEF KeptInv
<1>1. /\ rows' = rows /\ Issued' = Issued /\ observed' = {} /\ history' = history
      /\ completed' = {} /\ returned' = {} /\ phase' = "round" /\ completed \subseteq history
  BY DEF TurnEnds, NewTurn, NewJournal, NextTurn, ClearRound, storeVars, Issued, StepsSaved
<1>2. \A c \in CallId : aliases'[c] = NoOp
                        \/ (aliases'[c] \in Issued /\ rows[aliases'[c]].call = c)
  <2>1. Load \/ LoadFails
    BY DEF TurnEnds, NewTurn, NewJournal
  <2>2. CASE Load
    BY <2>2 DEF Load, Pending
  <2>3. CASE LoadFails
    BY <2>3 DEF LoadFails
  <2> QED
    BY <2>1, <2>2, <2>3
<1>3. OneCallEach' /\ StepsSaved' /\ AckedIsTold'
  BY <1>1 DEF OneCallEach, StepsSaved, AckedIsTold, Told
<1>4. ASSUME NEW c \in CallId, NEW x \in OpId \cup {NoOp}, Attributed(c, x)
      PROVE  Attributed(c, x)'
  BY <1>1, <1>2, <1>4 DEF Attributed
<1>5. Results' \subseteq Results
  BY <1>1 DEF Results
<1>6. ResultsAttributed'
  BY <1>1, <1>4, <1>5 DEF ResultsAttributed
<1> QED
  BY <1>3, <1>6

(* The inductive step.                                                     *)
LEMMA KeptStep == ASSUME TurnInv, KeptInv, [TurnNext]_vars PROVE KeptInv'
<1>1. scenario' = scenario
  BY DEF TurnNext, ModelCalls, ToolReturns, LateReturn, StepFinishes, RoundSucceeds,
     Interrupted, ContextLimit, NextRound, TurnEnds, TurnDropped, ProcessDies, NextTurn,
     turnVars, vars
<1>2. Kept' => Kept
  BY <1>1 DEF Kept, Saved, Faults, ReusesIds
<1>3. SUFFICES ASSUME Kept
               PROVE  OneCallEach' /\ ResultsAttributed' /\ StepsSaved' /\ AckedIsTold'
  BY <1>2 DEF KeptInv
<1>4. ~(ContextLimit \/ TurnDropped \/ ProcessDies)
  BY <1>3 DEF Kept, Saved, ContextLimit, TurnDropped, ProcessDies
<1>5. CASE UNCHANGED vars
  <2>1. UNCHANGED <<rows, aliases, observed, history, completed, returned, phase, Issued>>
    BY <1>5 DEF vars, turnVars, journalVars, Issued
  <2> QED
    BY <1>3, <2>1 DEF KeptInv, OneCallEach, ResultsAttributed, Attributed, StepsSaved,
       AckedIsTold, Told, Results
<1> QED
  BY <1>3, <1>4, <1>5, CallsKeep, ReturnsKeep, RoundsKeep, TurnsKeep DEF TurnNext

(* Nothing is issued or told at the start.                                 *)
LEMMA KeptInitially == TurnInit => KeptInv
<1> SUFFICES ASSUME TurnInit PROVE KeptInv
  OBVIOUS
<1>1. Issued = {} /\ Results = {} /\ observed = {} /\ phase = "round"
  BY DEF TurnInit, Init, Issued, Results
<1> QED
  BY <1>1 DEF KeptInv, OneCallEach, ResultsAttributed, StepsSaved, AckedIsTold

(* An execution is preceded by the release of the last with its fingerprint.*)
LEMMA ExecutionIsKnowing ==
    ASSUME TurnInv, KeptInv, KeptInv', Kept, [TurnNext]_vars,
           NEW o \in Issued' \ Issued, NEW p \in Issued, rows[p].fp = rows'[o].fp
    PROVE  Told(p)'
<1>1. IInv
  BY DEF TurnInv
<1>2. PICK c \in CallId, f \in Fingerprint : Start(c, f, o, Messages)
  <2>1. ASSUME NEW q \in OpId, NEW outcome \in Outcome,
               ToolReturns(q, outcome) \/ LateReturn(q, outcome)
        PROVE  FALSE
    BY <1>1, <2>1, Returned DEF ToolReturns, LateReturn
  <2>2. CASE StepFinishes \/ RoundSucceeds \/ Interrupted \/ ContextLimit \/ NextRound
             \/ TurnEnds \/ TurnDropped \/ ProcessDies
    BY <1>1, <2>2, OtherSteps DEF TurnInv
  <2>3. CASE UNCHANGED vars
    BY <2>3 DEF vars, journalVars, Issued
  <2>4. ASSUME NEW c \in CallId, NEW f \in Fingerprint, ModelCalls(c, f)
        PROVE  Start(c, f, o, Messages)
    <3>1. CASE Replay(c, f, Messages) \/ Refuse(Messages)
      BY <1>1, <3>1, Replayed, RefusedCall
    <3>2. ASSUME NEW q \in OpId, Start(c, f, q, Messages) PROVE q = o
      BY <1>1, <3>2, Executed
    <3> QED
      BY <2>4, <3>1, <3>2 DEF ModelCalls
  <2> QED
    BY <2>1, <2>2, <2>3, <2>4 DEF TurnNext
<1>3. o \in OpId
  BY DEF Issued
<1>4. /\ rows'[o].fp = f /\ p \in Issued' /\ KeepsCall(p, rows'[p])
      /\ p \in Pending => rows'[p].acked
  BY <1>1, <1>2, <1>3, Executed
<1>5. rows'[p].acked
  BY <1>4 DEF KeepsCall, Pending
<1>6. Kept'
  BY DEF Kept, Saved, Faults, ReusesIds, TurnNext, ModelCalls, ToolReturns, LateReturn,
     StepFinishes, RoundSucceeds, Interrupted, ContextLimit, NextRound, TurnEnds,
     TurnDropped, ProcessDies, NextTurn, turnVars, vars
<1> QED
  BY <1>4, <1>5, <1>6 DEF KeptInv, AckedIsTold

-----------------------------------------------------------------------------
(* Theorems.                                                               *)

(* The turn keeps its invariant, the journal's included.                   *)
THEOREM TurnKeepsInv == TurnSpec => []TurnInv
  BY TurnInitially, TurnSteps, PTL DEF TurnSpec

(* The turn, its journal and the transcript keep their types.              *)
THEOREM TurnTypeCorrect == TurnSpec => []TurnTypeOK
<1>1. TurnInv => TurnTypeOK
  BY DEF TurnInv, TurnTyped, TurnTypeOK, IInv
<1> QED
  BY <1>1, TurnKeepsInv, PTL

(* The turn loop uses the journal only as the journal's specification      *)
(* allows, so every theorem on the journal is one on the turn.             *)
THEOREM UsesTheJournal == TurnSpec => ImplementsJournal
<1>1. TurnInit => Init
  BY DEF TurnInit
<1>2. TurnInv /\ [TurnNext]_vars => [Next]_journalVars
  BY JournalStep DEF TurnInv
<1> QED
  BY <1>1, <1>2, TurnKeepsInv, PTL DEF TurnSpec, ImplementsJournal, Spec

(* A step never waits for a tool that nobody runs, and no tool answers two *)
(* of its calls.                                                           *)
THEOREM ToolsAreAwaited == TurnSpec => []WaitsForARunningTool
<1>1. TurnInv => WaitsForARunningTool
  BY DEF TurnInv, WaitingRuns, RunningIsNamed, WaitsForARunningTool
<1> QED
  BY <1>1, TurnKeepsInv, PTL

NoContextLimits == \A s \in Scenario : "context" \notin s.faults

(* While no request outgrows the context window, the invariant of what has *)
(* been told holds too.                                                    *)
THEOREM TurnTellsOutcomes == NoContextLimits => (TurnSpec => []KeptInv)
  BY TurnKeepsInv, KeptInitially, KeptStep, PTL DEF TurnSpec

(* An acknowledged receipt is one whose outcome the transcript or the      *)
(* round's finished steps report: a connection or a key that fails loses   *)
(* none (a context limit does, which a run shows).                         *)
THEOREM AcknowledgedIsTold == NoContextLimits => (TurnSpec => []ReleasedIsTold)
<1> SUFFICES ASSUME NoContextLimits PROVE TurnSpec => []ReleasedIsTold
  OBVIOUS
<1>1. TurnInv /\ KeptInv => ReleasedIsTold
  <2>1. TurnInv => "context" \notin Faults
    BY DEF NoContextLimits, TurnInv, TurnTyped, Faults
  <2> QED
    BY <2>1 DEF KeptInv, Kept, ReleasedIsTold, AckedIsTold
<1> QED
  BY <1>1, TurnKeepsInv, TurnTellsOutcomes, PTL

(* The host never executes a fingerprint again unknown to the model.       *)
THEOREM RepeatsAreKnowing == NoContextLimits => (TurnSpec => RepeatsKnowingly)
<1> SUFFICES ASSUME NoContextLimits PROVE TurnSpec => RepeatsKnowingly
  OBVIOUS
<1>1. TurnInv => "context" \notin Faults
  BY DEF NoContextLimits, TurnInv, TurnTyped, Faults
<1>2. TurnInv /\ KeptInv /\ KeptInv' /\ [TurnNext]_vars =>
        [Saved => \A o \in Issued' \ Issued :
                     \A p \in Issued : rows[p].fp = rows'[o].fp => Told(p)']_vars
  BY <1>1, ExecutionIsKnowing DEF Kept
<1> QED
  BY <1>2, TurnKeepsInv, TurnTellsOutcomes, PTL DEF TurnSpec, RepeatsKnowingly
===============================================================================
