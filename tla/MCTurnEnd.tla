------------------------------- MODULE MCTurnEnd -------------------------------
(***************************************************************************)
(* How a turn ends, for TLC: its rounds (Interruptions), its gate          *)
(* (CompletionGate) and what the session keeps of it (SessionTranscript).  *)
(* The three share only the number of requests of the gate and the fact    *)
(* that rounds fail, which each takes for granted; so the run explores one *)
(* of them at a time, chosen in the first state.                           *)
(***************************************************************************)
EXTENDS CompletionGate, Interruptions, SessionTranscript

VARIABLE focus

(* Two interruptions without progress in a row for the turn, one for its   *)
(* sub-agent: enough for a switch of model before the pause.               *)
WithoutProgress == [a \in Agent |-> IF a = "main" THEN 2 ELSE 1]
Total           == [a \in Agent |-> IF a = "main" THEN 3 ELSE 2]

Meets(contract, documents, web, dense, asks) ==
    [contract |-> contract, documents |-> documents, web |-> web, dense |-> dense,
     asks |-> asks]

(* A web project with checks; pages without one; a request with several    *)
(* requirements; documents, with checks the turn defined itself.           *)
Turns == {Meets("project", FALSE, TRUE, FALSE, {}),
          Meets("none", FALSE, TRUE, FALSE, {"pages"}),
          Meets("none", FALSE, FALSE, TRUE, {"rules", "memory"}),
          Meets("own", TRUE, FALSE, FALSE, {"before", "stop"})}

PagesTurn == {Meets("none", FALSE, TRUE, FALSE, {"pages"})}

GateAtRest  == GateInit /\ turn = CHOOSE t \in Turn : TRUE
RoundAtRest == RoundInit /\ agent = "main" /\ model = CHOOSE m \in Model : TRUE

Init == \/ focus = "gate"       /\ GateInit   /\ RoundAtRest /\ TranscriptInit
        \/ focus = "round"      /\ GateAtRest /\ RoundInit   /\ TranscriptInit
        \/ focus = "transcript" /\ GateAtRest /\ RoundAtRest /\ TranscriptInit

InGate       == focus = "gate"       /\ UNCHANGED <<focus, roundVars, transcriptVars>>
InRound      == focus = "round"      /\ UNCHANGED <<focus, gateVars, transcriptVars>>
InTranscript == focus = "transcript" /\ UNCHANGED <<focus, gateVars, roundVars>>

vars == <<focus, gateVars, roundVars, transcriptVars>>

Next == (InGate /\ GateNext) \/ (InRound /\ RoundNext) \/ (InTranscript /\ TranscriptNext)

Spec == /\ Init /\ [][Next]_vars
        /\ WF_vars(InGate /\ CheckEnds)
        /\ SF_vars(InGate /\ EntersGate)
        /\ WF_vars(InGate /\ Gate)
        /\ WF_vars(InRound /\ Round)

(* A turn whose rounds end well gets through its gate, and one whose       *)
(* rounds fail ends as well: the turn is never left running (the loop of   *)
(* processMessage).                                                        *)
TurnEnds == <>CASE focus = "gate" -> stage = "over"
              [] focus = "round" -> outcome # "running"
              [] OTHER -> TRUE
================================================================================
