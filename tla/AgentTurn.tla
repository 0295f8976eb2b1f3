------------------------------ MODULE AgentTurn ------------------------------
(***************************************************************************)
(* The rounds of a turn (`Agent.processMessage`, src/agent/agent.ts) and   *)
(* the session's transcript, over the journal of tool operations.          *)
(*                                                                         *)
(* A round is one provider request that runs several steps: in each the    *)
(* model makes calls, the SDK waits for all of them, and the step's        *)
(* results join the round's completed messages.  The transcript receives   *)
(* them when the round ends (`appendCompletedTurn`), so a round is the     *)
(* unit of persistence while a step is the unit of acknowledgement.        *)
(*                                                                         *)
(* A result is the pair of a call id and the operation whose outcome the   *)
(* message reports (NoOp when the host refused the call).                  *)
(***************************************************************************)
EXTENDS ToolOperationJournal, FiniteSets

CONSTANT Scenario    \* what may go wrong in a behaviour: a set of Scenarios

FaultKind == {"connection", "context", "key", "cancel", "crash"}

(* What goes wrong; whether a retried round may name a call like one the   *)
(* round lost; and a bound on the operations.                              *)
Scenarios == [faults : SUBSET FaultKind, reusesIds : BOOLEAN, operations : Nat]

ASSUME ScenarioAssumption == Scenario \subseteq Scenarios

VARIABLES
    scenario,
    phase,        \* "round": streaming; "between": before the next round
    history,      \* results in the session's transcript
    completed,    \* results of the round's finished steps
    returned,     \* results of the running step
    waiting,      \* call ids of the running step whose tool is running
    overflowed    \* overflowRecoveryLevel > 0: the turn goes on without tools

turnVars == <<scenario, phase, history, completed, returned, waiting, overflowed>>
vars     == <<journalVars, turnVars>>

Faults    == scenario.faults
ReusesIds == scenario.reusesIds

Result   == CallId \X (OpId \cup {NoOp})
Ids(R)   == {r[1] : r \in R}

(* Faulty: a result is taken for told before its step has finished.        *)
MessagesAndReturned == Ids(history \cup completed \cup returned)

Messages == Ids(history \cup completed)

(* Faulty: a new round still waits for the tools of the last one.          *)
ClearMessages == completed' = {} /\ returned' = {} /\ UNCHANGED waiting

ClearRound ==
    /\ completed' = {}
    /\ returned' = {}
    /\ waiting' = {}

-----------------------------------------------------------------------------
(* Inside a round.                                                         *)

(* The ids a provider may give its next call: one it has not used, or one  *)
(* whose result it never received.                                         *)
Nameable(c) ==
    /\ c \notin waiting \cup Ids(returned) \cup Messages
    /\ ReusesIds \/ (aliases[c] = NoOp /\ \A o \in Issued : rows[o].call # c)

ModelCalls(c, f) ==
    /\ phase = "round"
    /\ ~overflowed
    /\ Nameable(c)
    /\ \/ /\ Cardinality(Issued) < scenario.operations
          /\ \E o \in OpId : Start(c, f, o, Messages)
          /\ waiting' = waiting \cup {c}
          /\ UNCHANGED returned
       \/ /\ Replay(c, f, Messages)
          /\ returned' = returned \cup {<<c, aliases'[c]>>}
          /\ UNCHANGED waiting
       \/ /\ Refuse(Messages)
          /\ returned' = returned \cup {<<c, NoOp>>}
          /\ UNCHANGED waiting
    /\ UNCHANGED <<scenario, phase, history, completed, overflowed>>

(* A tool returns: to the step that waits for it, or late.                 *)
ToolReturns(o, outcome) ==
    /\ Return(o, outcome)
    /\ LET c == rows[o].call IN
        IF c \in waiting
        THEN /\ waiting' = waiting \ {c}
             /\ returned' = returned \cup {<<c, o>>}
        ELSE UNCHANGED <<waiting, returned>>
    /\ UNCHANGED <<scenario, phase, history, completed, overflowed>>

(* Faulty: the journals of two turns share the list of observed results.   *)
LateReturnObserved(o, outcome) ==
    /\ o \in strays
    /\ strays' = strays \ {o}
    /\ observed' = observed \cup {<<rows[o].call, o>>}
    /\ UNCHANGED <<rows, loadProblem, operations, state, aliases, barriers,
                    running, recovered, turnVars>>

LateReturn(o, outcome) == StrayReturn(o, outcome) /\ UNCHANGED turnVars

(* `onStepFinish`: the finished steps' results acknowledge their receipts. *)
StepFinishes ==
    /\ phase = "round"
    /\ waiting = {}
    /\ returned # {}
    /\ completed' = completed \cup returned
    /\ returned' = {}
    /\ Acknowledge(Ids(completed'))
    /\ UNCHANGED <<scenario, phase, history, waiting, overflowed>>

(* The round's response resolves after its last step.                      *)
RoundSucceeds ==
    /\ phase = "round"
    /\ waiting = {} /\ returned = {}
    /\ Acknowledge(Ids(completed))
    /\ history' = history \cup completed
    /\ phase' = "between"
    /\ UNCHANGED <<scenario, completed, returned, waiting, overflowed>>

-----------------------------------------------------------------------------
(* A round that does not succeed.                                          *)

(* Faulty: the finished steps exist only in the response that failed.      *)
RecoveredWithoutSteps == Preserved(Ids(completed))

(* What `recover` makes of the round: finished steps, then the results the *)
(* host observed that no finished step holds.                              *)
Recovered == completed \cup Preserved(Ids(completed))

(* A failing connection, a rejected key with another provider to go to, or *)
(* a context limit met after text or past the last level of recovery: the  *)
(* round is recovered into the transcript.                                 *)
Interrupted ==
    /\ Faults \cap {"connection", "context", "key"} # {}
    /\ phase = "round"
    /\ Recover(Ids(completed))
    /\ history' = history \cup Recovered
    /\ phase' = "between"
    /\ UNCHANGED <<scenario, completed, returned, waiting, overflowed>>

(* The request outgrew the context window before the model wrote any text: *)
(* the round is asked again with a smaller context and no tools, and it is *)
(* not recovered.                                                          *)
ContextLimit ==
    /\ "context" \in Faults
    /\ phase = "round"
    /\ phase' = "between"
    /\ overflowed' = TRUE
    /\ UNCHANGED <<journalVars, scenario, history, completed, returned, waiting>>

NextRound ==
    /\ phase = "between"
    /\ BeginRound
    /\ phase' = "round"
    /\ ClearRound
    /\ UNCHANGED <<scenario, history, overflowed>>

-----------------------------------------------------------------------------
(* The end of a turn; the next one builds a new journal.                   *)

NextTurn ==
    /\ phase' = "round"
    /\ overflowed' = FALSE
    /\ ClearRound
    /\ UNCHANGED <<scenario, history>>

(* The completion gate let it end, or it paused after interruptions.       *)
TurnEnds ==
    /\ phase = "between"
    /\ NewTurn
    /\ NextTurn

(* The user cancelled, or the key was rejected and there is nowhere to go: *)
(* the round is dropped, its tools may run on.                             *)
TurnDropped ==
    /\ Faults \cap {"cancel", "key"} # {}
    /\ phase = "round"
    /\ NewTurn
    /\ NextTurn

ProcessDies ==
    /\ "crash" \in Faults
    /\ Crash
    /\ NextTurn

-----------------------------------------------------------------------------

TurnInit ==
    /\ Init
    /\ scenario \in Scenario
    /\ phase = "round"
    /\ history = {}
    /\ completed = {}
    /\ returned = {}
    /\ waiting = {}
    /\ overflowed = FALSE

TurnNext ==
    \/ \E c \in CallId, f \in Fingerprint : ModelCalls(c, f)
    \/ \E o \in OpId, outcome \in Outcome : ToolReturns(o, outcome) \/ LateReturn(o, outcome)
    \/ StepFinishes
    \/ RoundSucceeds
    \/ Interrupted
    \/ ContextLimit
    \/ NextRound
    \/ TurnEnds
    \/ TurnDropped
    \/ ProcessDies

TurnSpec == TurnInit /\ [][TurnNext]_vars

-----------------------------------------------------------------------------
(* Properties.                                                             *)

TurnTypeOK ==
    /\ TypeOK
    /\ scenario \in Scenario
    /\ phase \in {"round", "between"}
    /\ history \subseteq Result
    /\ completed \subseteq Result
    /\ returned \subseteq Result
    /\ waiting \subseteq CallId
    /\ overflowed \in BOOLEAN

(* Whatever interrupts, drops or kills a round, and however calls are named,*)
(* the turn loop uses the journal only as its theorems assume: no path of  *)
(* `processMessage` touches its receipts, tools or results otherwise.      *)
ImplementsJournal == Spec

(* The model has been told the outcome of an operation: some result in the *)
(* transcript or in the round's finished steps reports it.                 *)
Told(o) == \E c \in CallId : <<c, o>> \in history \cup completed

(* The code does not save a round that the user cancels, whose key is      *)
(* rejected for good, or in which the process dies; and no result can be   *)
(* attributed when ids are used again.                                     *)
Saved == Faults \cap {"cancel", "key", "crash"} = {} /\ ~ReusesIds

(* Releasing a receipt allows its effect to be repeated, so a receipt is   *)
(* released only when its outcome is told, and what was told stays told:   *)
(* a turn whose connection fails keeps its completed steps                 *)
(* (src/agent/agent.ts lines 4594-4597 and 6562-6574).                     *)
ReleasedIsTold == Saved => \A o \in Issued : rows[o].acked => Told(o)

(* The model chooses to repeat an effect knowingly: when an operation is   *)
(* executed, the outcome of every earlier execution of the same            *)
(* fingerprint has been told to it.                                        *)
RepeatsKnowingly ==
    [][Saved => \A o \in Issued' \ Issued :
                    \A p \in Issued : rows[p].fp = rows'[o].fp => Told(p)']_vars

(* A call the running step waits for belongs to exactly one operation that *)
(* is really running: no step waits for a tool nobody runs (the SDK would  *)
(* wait forever), and no result is delivered to two calls.                 *)
WaitsForARunningTool ==
    \A c \in waiting :
        \E o \in running : rows[o].call = c /\ \A p \in running : rows[p].call = c => p = o

=============================================================================
