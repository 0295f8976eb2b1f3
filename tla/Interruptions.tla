----------------------------- MODULE Interruptions -----------------------------
(***************************************************************************)
(* What a turn does when the model does not answer (agent.ts): the         *)
(* counters of `recoverFromInterruption`, the fallback models of a         *)
(* provider, the fallbacks to another provider or key, empty answers and   *)
(* the context limit; and the same loop, with tighter bounds, of a         *)
(* sub-agent (`runTaskOnce`).  One action is one round of the loop.  What  *)
(* a round's steps did to the transcript is AgentTurn's; what the host     *)
(* asks after a round that ended well is CompletionGate's, of which only   *)
(* the number of requests matters here.                                    *)
(***************************************************************************)
EXTENDS Naturals, FiniteSets

CONSTANTS
    Model,                        \* the models a provider offers
    MaxFallbacks,                 \* moves to another provider, key or local model
    MaxRequests,                  \* requests the completion gate makes in a turn
    FAILURES_BEFORE_MODEL_SWITCH,
    MaxWithoutProgress,           \* MAX_[SUBAGENT_]INTERRUPTIONS_WITHOUT_PROGRESS
    MaxTotal,                     \* MAX_INTERRUPTIONS_PER_TURN, MAX_SUBAGENT_INTERRUPTIONS
    MAX_EMPTY_RESPONSE_RETRIES, MAX_OVERFLOW_RECOVERY_LEVEL

Agent == {"main", "child"}

ASSUME InterruptionsAssumption ==
    /\ IsFiniteSet(Model) /\ Model # {}
    /\ MaxFallbacks \in Nat /\ MaxRequests \in Nat
    /\ FAILURES_BEFORE_MODEL_SWITCH \in Nat
    /\ MaxWithoutProgress \in [Agent -> Nat] /\ MaxTotal \in [Agent -> Nat]
    /\ MAX_EMPTY_RESPONSE_RETRIES \in Nat /\ MAX_OVERFLOW_RECOVERY_LEVEL \in Nat

Outcome == {"running", "answered", "paused", "no response", "error", "cancelled"}

(* How a model connection fails: by a passing fault, for good, on a        *)
(* parameter, by the budget of the round.                                  *)
Kind == {"passing", "unavailable", "sampling", "budget"}

VARIABLES
    agent,            \* whose loop this is
    model, triedModels, samplingRejected,
    onModel, withoutProgress, total,
    emptyResponseRetries, overflowRecoveryLevel,
    fallbacks,        \* providers and keys not tried yet
    requests,         \* what the gate has asked
    outcome,
    idle,             \* interruptions since one whose round had completed a step
    abandoned,        \* models the turn has moved away from, on this provider
    cause             \* why the turn paused

counters  == <<onModel, withoutProgress, total>>
models    == <<model, triedModels, abandoned>>
history   == <<idle, cause>>
roundVars == <<agent, model, triedModels, samplingRejected, onModel, withoutProgress,
               total, emptyResponseRetries, overflowRecoveryLevel, fallbacks, requests,
               outcome, idle, abandoned, cause>>

RoundInit ==
    /\ agent \in Agent
    /\ model \in Model /\ triedModels = {model} /\ samplingRejected = {}
    /\ onModel = 0 /\ withoutProgress = 0 /\ total = 0
    /\ emptyResponseRetries = 0 /\ overflowRecoveryLevel = 0
    /\ fallbacks = MaxFallbacks /\ requests = 0 /\ outcome = "running"
    /\ idle = 0 /\ abandoned = {} /\ cause = "none"

-----------------------------------------------------------------------------
(* Where the turn can go on.                                               *)

(* `nextFallbackModel`: the next fallback not tried yet, marked as tried.  *)
(* Mutant: the model moved to is not marked.                               *)
NextFallbackModelUnmarked(m) == m \in Model \ {model} /\ UNCHANGED triedModels

NextFallbackModel(m) == m \in Model \ triedModels /\ triedModels' = triedModels \cup {m}

NoModelLeft == Model \subseteq triedModels

SwitchModel(m) ==
    /\ model' = m
    /\ emptyResponseRetries' = 0
    /\ abandoned' = abandoned \cup {model}

(* `adoptProvider`: another provider or key, and a fresh budget there.  A  *)
(* chain offers each of its sources once.  The installed local model may   *)
(* be offered again, but only when a key is rejected, and it has none: it  *)
(* is adopted at most once for each provider with a key.                   *)
AdoptProvider ==
    /\ agent = "main" /\ fallbacks > 0
    /\ fallbacks' = fallbacks - 1
    /\ \E m \in Model : model' = m /\ triedModels' = {m}
    /\ onModel' = 0 /\ withoutProgress' = 0 /\ total' = 0
    /\ emptyResponseRetries' = 0 /\ abandoned' = {}
    /\ idle' = 0
    /\ UNCHANGED outcome

-----------------------------------------------------------------------------
(* A failed round; `steps`: it had completed a step.                       *)

(* Mutant: a completed step does not reset the counters.                   *)
AfterKeeping(count, steps) == count + 1

After(count, steps) == (IF steps THEN 0 ELSE count) + 1

Idles(steps) == idle' = IF steps THEN 0 ELSE idle + 1

Stay == UNCHANGED <<models, emptyResponseRetries, fallbacks, outcome, cause>>

(* `continueOnProviderFallback`, else `pauseAfterInterruptions`.  A        *)
(* sub-agent returns to the turn that waits for it.                        *)
Pause(why, steps) ==
    /\ cause' = why
    /\ \/ AdoptProvider
       \/ /\ outcome' = "paused" /\ Idles(steps)
          /\ UNCHANGED <<fallbacks, models, counters, emptyResponseRetries>>

(* The round reached its own budget after doing work.  Only the number of  *)
(* interruptions counts it.                                                *)
RoundBudget ==
    IF total + 1 > MaxTotal[agent]
    THEN Pause("total", TRUE)
    ELSE /\ withoutProgress' = 0 /\ onModel' = 0 /\ total' = total + 1
         /\ Idles(TRUE) /\ Stay

(* Mutant: one interruption more, and no bound on all of them.             *)
ExhaustedLate(steps) == After(withoutProgress, steps) > MaxWithoutProgress[agent] + 1

Exhausted(steps) == \/ After(withoutProgress, steps) > MaxWithoutProgress[agent]
                    \/ total + 1 > MaxTotal[agent]

Counted(steps) ==
    /\ withoutProgress' = After(withoutProgress, steps)
    /\ onModel' = After(onModel, steps)
    /\ total' = total + 1
    /\ Idles(steps)

MovesToFallback(steps) ==
    /\ \E m \in Model : NextFallbackModel(m) /\ SwitchModel(m)
    /\ withoutProgress' = After(withoutProgress, steps)
    /\ onModel' = 0 /\ total' = total + 1
    /\ Idles(steps)
    /\ UNCHANGED <<fallbacks, outcome, cause>>

GivesUpModel(kind, steps) ==
    kind = "unavailable" \/ After(onModel, steps) >= FAILURES_BEFORE_MODEL_SWITCH

TakesNoSampling(kind) == kind = "sampling" /\ model \notin samplingRejected

(* `recoverFromInterruption`, from the counts on.                          *)
Recover(kind, steps) ==
    \/ /\ Exhausted(steps)
       /\ Pause(IF total + 1 > MaxTotal[agent] THEN "total" ELSE "progress", steps)
       /\ UNCHANGED samplingRejected
    \/ /\ ~Exhausted(steps) /\ TakesNoSampling(kind)
       /\ samplingRejected' = samplingRejected \cup {model}
       /\ Counted(steps) /\ Stay
    \/ /\ ~Exhausted(steps) /\ ~TakesNoSampling(kind) /\ GivesUpModel(kind, steps)
       /\ \/ MovesToFallback(steps)
          \/ NoModelLeft /\ kind = "unavailable" /\ Pause("unavailable", steps)
          \/ NoModelLeft /\ kind # "unavailable" /\ Counted(steps) /\ Stay
       /\ UNCHANGED samplingRejected
    \/ /\ ~Exhausted(steps) /\ ~TakesNoSampling(kind) /\ ~GivesUpModel(kind, steps)
       /\ Counted(steps) /\ Stay
       /\ UNCHANGED samplingRejected

Interrupted ==
    /\ outcome = "running"
    /\ \E kind \in Kind, steps \in BOOLEAN :
        IF kind = "budget" /\ steps /\ agent = "main"
        THEN RoundBudget /\ UNCHANGED samplingRejected
        ELSE Recover(kind, steps)
    /\ UNCHANGED <<agent, overflowRecoveryLevel, requests>>

(* The context limit: a smaller request is tried, except that the later    *)
(* levels may find nothing to trim; then it is an interruption.            *)
Overflow ==
    /\ outcome = "running" /\ agent = "main"
    /\ overflowRecoveryLevel < MAX_OVERFLOW_RECOVERY_LEVEL
    /\ overflowRecoveryLevel' = overflowRecoveryLevel + 1
    /\ UNCHANGED <<agent, models, samplingRejected, counters, emptyResponseRetries,
                   fallbacks, requests, outcome, history>>

(* A rejected key: `continueOnCredentialFallback`, else the turn ends.  It *)
(* fails every attempt of a sub-agent.                                     *)
RejectedCredential ==
    /\ outcome = "running"
    /\ \/ AdoptProvider
       \/ /\ outcome' = "error"
          /\ UNCHANGED <<fallbacks, models, counters, emptyResponseRetries, idle>>
    /\ UNCHANGED <<agent, samplingRejected, overflowRecoveryLevel, requests, cause>>

-----------------------------------------------------------------------------
(* A round that ended.                                                     *)

AskAgain ==
    /\ agent = "main" /\ requests < MaxRequests
    /\ requests' = requests + 1
    /\ UNCHANGED outcome

(* An answer: the gate asks again, or the turn is over.                    *)
Answer ==
    /\ outcome = "running"
    /\ AskAgain \/ (outcome' = "answered" /\ UNCHANGED requests)
    /\ UNCHANGED <<agent, models, samplingRejected, counters, emptyResponseRetries,
                   overflowRecoveryLevel, fallbacks, idle, cause>>

(* A last step without text or call, or a call that came as text           *)
(* (`leaked`): it is asked again, then another model is.  The last leaked  *)
(* one is taken for an answer.  A sub-agent takes any answer.              *)
EmptyAnswer ==
    /\ outcome = "running" /\ agent = "main"
    /\ \E leaked \in BOOLEAN :
        \/ /\ emptyResponseRetries < MAX_EMPTY_RESPONSE_RETRIES
           /\ emptyResponseRetries' = emptyResponseRetries + 1
           /\ UNCHANGED <<models, outcome, requests>>
        \/ /\ emptyResponseRetries >= MAX_EMPTY_RESPONSE_RETRIES /\ ~leaked
           /\ \/ \E m \in Model : NextFallbackModel(m) /\ SwitchModel(m) /\ UNCHANGED outcome
              \/ /\ NoModelLeft /\ outcome' = "no response"
                 /\ UNCHANGED <<models, emptyResponseRetries>>
           /\ UNCHANGED requests
        \/ /\ emptyResponseRetries >= MAX_EMPTY_RESPONSE_RETRIES /\ leaked
           /\ AskAgain \/ (outcome' = "answered" /\ UNCHANGED requests)
           /\ UNCHANGED <<models, emptyResponseRetries>>
    /\ UNCHANGED <<agent, samplingRejected, counters, overflowRecoveryLevel, fallbacks,
                   idle, cause>>

UserCancels ==
    /\ outcome = "running"
    /\ outcome' = "cancelled"
    /\ UNCHANGED <<agent, models, samplingRejected, counters, emptyResponseRetries,
                   overflowRecoveryLevel, fallbacks, requests, history>>

Round     == Interrupted \/ Overflow \/ RejectedCredential \/ Answer \/ EmptyAnswer
RoundNext == Round \/ UserCancels

(* Every round ends: the idle watchdog and the round's budget see to it.   *)
RoundSpec == RoundInit /\ [][RoundNext]_roundVars /\ WF_roundVars(Round)

-----------------------------------------------------------------------------
(* Properties.                                                             *)

(* The counters stay within their bounds, and a turn that runs has budget  *)
(* left on its provider.                                                   *)
RoundTypeOK ==
    /\ agent \in Agent /\ model \in triedModels /\ triedModels \subseteq Model
    /\ samplingRejected \subseteq Model
    /\ onModel \in 0 .. withoutProgress
    /\ withoutProgress \in 0 .. MaxWithoutProgress[agent]
    /\ total \in 0 .. MaxTotal[agent]
    /\ emptyResponseRetries \in 0 .. MAX_EMPTY_RESPONSE_RETRIES
    /\ overflowRecoveryLevel \in 0 .. MAX_OVERFLOW_RECOVERY_LEVEL
    /\ fallbacks \in 0 .. MaxFallbacks /\ requests \in 0 .. MaxRequests
    /\ outcome \in Outcome
    /\ idle \in Nat /\ abandoned \subseteq Model
    /\ cause \in {"none", "total", "progress", "unavailable"}

(* The turn does not come back to a model it gave up on this provider,     *)
(* whichever mix of empty answers and failures made it move.               *)
NeverGoesBack == model \notin abandoned

(* A turn that pauses has had its attempts: so many rounds in a row        *)
(* without a completed step, or in all, or a failure that no retry and no  *)
(* model is left for (docs/architecture/14, section 26).                   *)
PausesExhausted ==
    outcome = "paused" =>
        \/ cause = "total"
        \/ cause = "progress" /\ idle >= MaxWithoutProgress[agent]
        \/ cause = "unavailable" /\ NoModelLeft

(* Whatever the models answer and however they fail, the turn ends.        *)
EveryTurnEnds == <>(outcome # "running")
================================================================================
