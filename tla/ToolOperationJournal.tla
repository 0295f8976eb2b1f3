------------------------ MODULE ToolOperationJournal ------------------------
(***************************************************************************)
(* The host's receipts for tool operations: src/agent/tool-operations.ts   *)
(* (the journal a turn keeps in memory) over src/storage/tool-operations.ts*)
(* (one SQLite row per operation of a session and scope).                  *)
(*                                                                         *)
(* A tool call is identified by the fingerprint of its name, directory,    *)
(* arguments and position in the step (`identity`); the provider names it  *)
(* with a call id of its own choosing.  The journal decides whether a call *)
(* is executed, answered from an earlier receipt, or refused.              *)
(*                                                                         *)
(* Everything a wrapped `execute` does before it awaits the tool is one    *)
(* step here (JavaScript runs it without interleaving); the tool's return  *)
(* is another, which may come long after the round that made the call was  *)
(* interrupted, or after the turn's journal was replaced.                  *)
(***************************************************************************)
EXTENDS Naturals, FiniteSets

CONSTANTS
    Fingerprint,  \* what calls do: name, directory, arguments, position
    CallId,       \* ids the provider gives its calls
    OpId,         \* ids the host gives the operations it executes
    MaxPending,   \* MAX_PENDING, 128 in the code
    NoOp,         \* no operation
    NoRow         \* no receipt in the store

(* "settled" is "confirmed" or "refused": the code tells them apart only in *)
(* the output it replays.                                                  *)
Outcome == {"settled", "ambiguous"}
OpState == Outcome \cup {"started"}
Row     == [fp : Fingerprint, call : CallId, state : OpState, acked : BOOLEAN]

ASSUME NoOpAssumption  == NoOp \notin OpId
ASSUME NoRowAssumption == NoRow \notin Row
ASSUME LimitAssumption == MaxPending \in Nat \ {0}

VARIABLES
    rows,         \* the store: survives crashes
    loadProblem,  \* the journal could not read its pending receipts
    operations,   \* operations this journal holds unacknowledged
    state,        \* the state of each of them as this journal knows it
    aliases,      \* call id -> the operation that answered it
    barriers,     \* fingerprint -> the operation that bars its execution
    running,      \* operations whose tool this journal is awaiting
    strays,       \* operations whose tool runs on for a replaced journal
    observed,     \* results of this round: <<call id, operation answering it>>
    recovered     \* call ids whose result `recover` has already preserved

storeVars  == <<rows>>
memoryVars == <<loadProblem, operations, state, aliases, barriers, observed, recovered>>
toolVars   == <<running, strays>>
journalVars == <<rows, loadProblem, operations, state, aliases, barriers,
                 running, strays, observed, recovered>>

Issued  == {o \in OpId : rows[o] # NoRow}
Pending == {o \in Issued : ~rows[o].acked}

(* The operation of S that holds fingerprint f; by SingleClaim at most one. *)
Holder(S, f) ==
    IF \E o \in S : rows[o].fp = f
    THEN CHOOSE o \in S : rows[o].fp = f
    ELSE NoOp

-----------------------------------------------------------------------------
(* Acknowledgement: the receipts a conversation with results M releases.   *)

(* Faulty: a receipt whose tool has not returned is released.              *)
AckableStarted(M) ==
    {o \in operations :
        /\ \E c \in M : aliases[c] = o
        /\ ~(state[o] = "ambiguous" /\ barriers[rows[o].fp] # NoOp)}

(* Faulty: a replayed uncertain outcome releases its receipt.              *)
AckableUncertain(M) ==
    {o \in operations : (\E c \in M : aliases[c] = o) /\ state[o] # "started"}

Ackable(M) ==
    {o \in operations :
        /\ \E c \in M : aliases[c] = o
        /\ state[o] # "started"
        /\ ~(state[o] = "ambiguous" /\ barriers[rows[o].fp] # NoOp)}

(* Releasing D, the part of Ackable(M) whose UPDATE the store accepted.     *)
RowsAfter(D)     == [o \in OpId |-> IF o \in D THEN [rows[o] EXCEPT !.acked = TRUE]
                                               ELSE rows[o]]
BarriersAfter(D) == [f \in Fingerprint |-> IF \E o \in D : rows[o].fp = f
                                           THEN NoOp ELSE barriers[f]]

Acknowledge(M) ==
    \E D \in SUBSET Ackable(M) :
        /\ rows' = RowsAfter(D)
        /\ operations' = operations \ D
        /\ barriers' = BarriersAfter(D)
        /\ UNCHANGED <<loadProblem, state, aliases, toolVars, observed, recovered>>

-----------------------------------------------------------------------------
(* A wrapped tool call.                                                    *)

(* A call id the journal knows under another fingerprint.                  *)
IdReused(c, f) == aliases[c] # NoOp /\ rows[aliases[c]].fp # f

(* Faulty: a call under a new id is taken for a new operation.             *)
PreviousById(c, f, D) ==
    IF BarriersAfter(D)[f] # NoOp THEN BarriersAfter(D)[f]
    ELSE IF aliases[c] \in operations \ D THEN aliases[c] ELSE NoOp

(* The operation that answers a call in place of an execution, once D has  *)
(* been released.                                                          *)
Previous(c, f, D) ==
    LET held == operations \ D IN
    IF BarriersAfter(D)[f] # NoOp THEN BarriersAfter(D)[f]
    ELSE IF aliases[c] \in held THEN aliases[c]
    ELSE Holder(held, f)

(* Faulty: the limit is met by one too many.                               *)
RoomForOneMore(D) == Cardinality(operations \ D) <= MaxPending

(* The limit leaves room for another operation, once D has been released.  *)
Room(D) == Cardinality(operations \ D) < MaxPending

(* Refused before any effect: the receipts are unreadable, the call cannot *)
(* be identified, its id is reused, the limit is reached, or the intention *)
(* cannot be persisted.  Any call may meet the second or the last.         *)
Refuse(M) ==
    \/ loadProblem /\ UNCHANGED journalVars
    \/ ~loadProblem /\ Acknowledge(M)

(* Answered from the receipt of an operation that is still pending.        *)
Replay(c, f, M) ==
    /\ ~loadProblem
    /\ \E D \in SUBSET Ackable(M) :
        LET previous == Previous(c, f, D) IN
        /\ ~IdReused(c, f)
        /\ previous # NoOp
        /\ rows' = RowsAfter(D)
        /\ operations' = operations \ D
        /\ aliases' = [aliases EXCEPT ![c] = previous]
        /\ barriers' = IF state[previous] = "settled"
                       THEN BarriersAfter(D)
                       ELSE [BarriersAfter(D) EXCEPT ![f] = previous]
        /\ observed' = observed \cup {<<c, previous>>}
        /\ UNCHANGED <<loadProblem, state, toolVars, recovered>>

(* Executed: the intention o is in the store before the tool runs.         *)
Start(c, f, o, M) ==
    /\ ~loadProblem
    /\ rows[o] = NoRow
    /\ \E D \in SUBSET Ackable(M) :
        /\ ~IdReused(c, f)
        /\ Previous(c, f, D) = NoOp
        /\ Room(D)
        /\ rows' = [RowsAfter(D) EXCEPT
                        ![o] = [fp |-> f, call |-> c, state |-> "started", acked |-> FALSE]]
        /\ operations' = (operations \ D) \cup {o}
        /\ state' = [state EXCEPT ![o] = "started"]
        /\ aliases' = [aliases EXCEPT ![c] = o]
        /\ barriers' = BarriersAfter(D)
        /\ running' = running \cup {o}
        /\ UNCHANGED <<loadProblem, strays, observed, recovered>>

(* `finish`: the store takes the outcome of a receipt that is not          *)
(* acknowledged, or fails and keeps what it had.                           *)
Finish(o, outcome) ==
    \/ rows' = rows
    \/ ~rows[o].acked /\ rows' = [rows EXCEPT ![o].state = outcome]

(* The tool of operation o returns or throws.                              *)
Return(o, outcome) ==
    /\ o \in running
    /\ running' = running \ {o}
    /\ state' = [state EXCEPT ![o] = outcome]
    /\ observed' = observed \cup {<<rows[o].call, o>>}
    /\ Finish(o, outcome)
    /\ UNCHANGED <<loadProblem, operations, aliases, barriers, strays, recovered>>

(* The same for a tool a replaced journal was awaiting: only the store     *)
(* is shared with the journal that replaced it.                            *)
StrayReturn(o, outcome) ==
    /\ o \in strays
    /\ strays' = strays \ {o}
    /\ Finish(o, outcome)
    /\ UNCHANGED <<memoryVars, running>>

-----------------------------------------------------------------------------
(* Rounds and turns.                                                       *)

BeginRound ==
    /\ observed' = {}
    /\ UNCHANGED <<storeVars, toolVars, loadProblem, operations, state, aliases,
                   barriers, recovered>>

(* Faulty: results are told apart by operation id, not by call id.         *)
PreservedByOperation(present) == {<<r[2], r[1]>> : r \in observed}

(* The results `recover` adds to a conversation with the results `present`.*)
Preserved(present) == {r \in observed : r[1] \notin present \cup recovered}

(* An interrupted round: every pending operation bars its fingerprint.     *)
Recover(present) ==
    /\ barriers' = [f \in Fingerprint |-> IF Holder(operations, f) # NoOp
                                          THEN Holder(operations, f) ELSE barriers[f]]
    /\ recovered' = recovered \cup {r[1] : r \in Preserved(present)}
    /\ UNCHANGED <<storeVars, toolVars, loadProblem, operations, state, aliases, observed>>

(* The constructor: a started receipt is loaded as ambiguous, and every    *)
(* receipt bars its fingerprint.                                           *)
Load ==
    /\ loadProblem' = FALSE
    /\ Cardinality(Pending) <= MaxPending
    /\ operations' = Pending
    /\ state' = [o \in OpId |-> IF o \in Pending /\ rows[o].state # "started"
                                THEN rows[o].state ELSE "ambiguous"]
    /\ aliases' \in [CallId -> OpId \cup {NoOp}]
    /\ \A c \in CallId :
        LET named == {o \in Pending : rows[o].call = c} IN
        IF named = {} THEN aliases'[c] = NoOp ELSE aliases'[c] \in named
    /\ barriers' = [f \in Fingerprint |-> Holder(Pending, f)]

(* Faulty: the receipts read before the error stay in the journal.         *)
LoadFailsHalfway ==
    /\ loadProblem' = TRUE
    /\ operations' = Pending
    /\ state' = [o \in OpId |-> "ambiguous"]
    /\ aliases' = [c \in CallId |-> NoOp]
    /\ barriers' = [f \in Fingerprint |-> NoOp]

LoadFails ==
    /\ loadProblem' = TRUE
    /\ operations' = {}
    /\ state' = [o \in OpId |-> "ambiguous"]
    /\ aliases' = [c \in CallId |-> NoOp]
    /\ barriers' = [f \in Fingerprint |-> NoOp]

(* A new journal over the same store, while the tools `alive` run on.      *)
NewJournal(alive) ==
    /\ Load \/ LoadFails
    /\ running' = {}
    /\ strays' = alive
    /\ observed' = {}
    /\ recovered' = {}
    /\ UNCHANGED storeVars

NewTurn == NewJournal(strays \cup running)
Crash   == NewJournal({})

-----------------------------------------------------------------------------

Init ==
    /\ rows = [o \in OpId |-> NoRow]
    /\ loadProblem = FALSE
    /\ operations = {}
    /\ state = [o \in OpId |-> "ambiguous"]
    /\ aliases = [c \in CallId |-> NoOp]
    /\ barriers = [f \in Fingerprint |-> NoOp]
    /\ running = {}
    /\ strays = {}
    /\ observed = {}
    /\ recovered = {}

(* The journal under any provider and any turn loop: the conversation it is*)
(* shown may hold any results.  The receipts CallId acknowledges include   *)
(* those of every smaller conversation, as the store may refuse any write. *)
Next ==
    \/ Acknowledge(CallId)
    \/ Refuse(CallId)
    \/ \E c \in CallId, f \in Fingerprint :
        \/ Replay(c, f, CallId)
        \/ \E o \in OpId : Start(c, f, o, CallId)
    \/ \E o \in OpId, outcome \in Outcome : Return(o, outcome) \/ StrayReturn(o, outcome)
    \/ \E present \in SUBSET CallId : Recover(present)
    \/ BeginRound
    \/ NewTurn
    \/ Crash

Spec == Init /\ [][Next]_journalVars

-----------------------------------------------------------------------------
(* Properties.                                                             *)

TypeOK ==
    /\ rows \in [OpId -> Row \cup {NoRow}]
    /\ loadProblem \in BOOLEAN
    /\ operations \subseteq OpId
    /\ state \in [OpId -> OpState]
    /\ aliases \in [CallId -> OpId \cup {NoOp}]
    /\ barriers \in [Fingerprint -> OpId \cup {NoOp}]
    /\ running \subseteq OpId
    /\ strays \subseteq OpId
    /\ observed \subseteq CallId \X OpId
    /\ recovered \subseteq CallId

(* At most one execution per fingerprint is outstanding: as long as the    *)
(* receipt of an execution is not acknowledged, nothing with the same      *)
(* fingerprint is executed again, whatever retries, parallel calls, reused *)
(* ids, crashes and failed writes come between (lines 231-254).            *)
SingleClaim ==
    \A o, p \in Pending : rows[o].fp = rows[p].fp => o = p

(* A receipt is never acknowledged while its tool may still be applying    *)
(* its effect, even for a journal that did not start it (line 316).        *)
NoAckWhileExecuting ==
    \A o \in running \cup strays : o \in Pending

(* A legal history never fills the store past what a restart can load:     *)
(* the constructor's "Too many pending operations" is for reading          *)
(* failures and foreign writes only (lines 149 and 255).                   *)
RecoverableStore == Cardinality(Pending) <= MaxPending

(* The journal in memory and the store name the same pending operations,   *)
(* whichever writes failed (lines 267-274 and 318-327).                    *)
ReceiptsAgree == operations = IF loadProblem THEN {} ELSE Pending

(* The inductive invariant SingleClaim and NoAckWhileExecuting rest on.    *)
(* A barrier is a pending operation of its own fingerprint.                *)
BarriersHold ==
    \A f \in Fingerprint :
        barriers[f] # NoOp => barriers[f] \in operations /\ rows[barriers[f]].fp = f

(* The receipt of a tool that is still running says "started", in the      *)
(* store and in the journal that awaits it.                                *)
ExecutingIsStarted ==
    /\ \A o \in running \cup strays : o \in Pending /\ rows[o].state = "started"
    /\ \A o \in running : ~loadProblem /\ state[o] = "started"

(* A journal that did not start a running tool bars its repetition.        *)
StraysAreBarred ==
    ~loadProblem =>
        \A o \in strays : state[o] = "ambiguous" /\ barriers[rows[o].fp] # NoOp

IInv ==
    /\ TypeOK
    /\ ReceiptsAgree
    /\ SingleClaim
    /\ BarriersHold
    /\ ExecutingIsStarted
    /\ StraysAreBarred

(* The outcome of o is uncertain, its tool is over, and it bars its        *)
(* fingerprint (or nothing is executed at all).                            *)
Quarantined(o) ==
    /\ o \in Pending
    /\ o \notin running \cup strays
    /\ rows[o].state \in {"started", "ambiguous"}
    /\ loadProblem \/ (state[o] = "ambiguous" /\ barriers[rows[o].fp] = o)

(* An effect that may or may not have happened is never tried again by the *)
(* host: once its receipt is quarantined no conversation, retry, new turn  *)
(* or crash releases it (lines 163-174, 317 and 344).                      *)
QuarantineIsForever ==
    [][\A o \in OpId : Quarantined(o) => Quarantined(o)']_journalVars

(* The journal implements the promise it makes to the agent (EffectClaims):*)
(* an effect is executed only while no other execution claims its          *)
(* fingerprint, and a barred claim is never released.                      *)
Claims == INSTANCE EffectClaims WITH
    holder <- [f \in Fingerprint |-> Holder(Pending, f)],
    barred <- {f \in Fingerprint : \E o \in Issued : rows[o].fp = f /\ Quarantined(o)},
    spent  <- Issued

ImplementsEffectClaims == Claims!Spec

=============================================================================
