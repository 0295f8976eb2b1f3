---------------------------- MODULE CompletionGate ----------------------------
(***************************************************************************)
(* What lets a turn end as done (agent.ts): the rounds in which the model  *)
(* edits and runs checks, the gate a round that ended well goes through,   *)
(* and `finishHostTurnResult`.  The gate waits between its steps (checks,  *)
(* the browser, another agent, hooks), and the workspace is not its own:   *)
(* the shell, the user or another session may change it meanwhile without  *)
(* an event.  Every check may pass or fail at any time.                    *)
(*                                                                         *)
(* A content of the workspace is numbered by the changes that led to it;   *)
(* two captures are equal when no path differs.  A change never brings an  *)
(* earlier content back.                                                   *)
(***************************************************************************)
EXTENDS Naturals, FiniteSets

CONSTANTS
    None,                         \* no value
    Turn,                         \* the kinds of turn: see Kinds
    MAX_VERIFICATION_RETRIES, SMOKE_REPAIRS,
    MaxEdits, MaxOutside,         \* changes by the turn, and by anyone else
    ChildEdits                    \* a sub-agent may edit after its last check

(* Protections of the user's tests, rules, checks and decisions; each asks *)
(* once, and so do four other parts of the gate.                           *)
Guard == {"tests", "rules", "checks", "decisions"}
Asks  == Guard \cup {"stop", "before", "memory", "pages"}

(* What decides which gates a turn meets: the checks its contract has (of  *)
(* the project, or only those the turn defined itself), whether it writes  *)
(* documents only, changes pages, and states several requirements; and     *)
(* what may ask something of it.                                           *)
Kinds == [contract : {"none", "project", "own"}, documents : BOOLEAN, web : BOOLEAN,
          dense : BOOLEAN, asks : SUBSET Asks]

ASSUME GateAssumption ==
    /\ None \notin Nat /\ Turn \subseteq Kinds
    /\ MAX_VERIFICATION_RETRIES \in Nat \ {0} /\ SMOKE_REPAIRS \in Nat
    /\ MaxEdits \in Nat /\ MaxOutside \in Nat /\ ChildEdits \in BOOLEAN

Source == {"project", "command", "page", "independent"}
Status == {"verified", "answered", "unverified", "blocked", "cancelled"}
Stage  == {"working", "contract", "checked", "smoke", "evidence", "audit", "pages",
           "hook", "learning", "over"}

VARIABLES
    turn, stage,
    events,          \* turnMutationEvents
    edits, outside,  \* changes made so far
    run,             \* a check that is running, and the content it started on
    latest,          \* the last receipt of the contract's check
    lastPassingCheck, evidence, lastSmoke, independentPass, independentPending,
    requirementAudit,
    verificationRetries, smokeRepairs, nudged,
    endState,        \* the workspace as the gate read it
    unverified,      \* unverifiedSinceAudit
    result,          \* of the contract's check in this pass
    contractPassed, couldNotRun, checkedNote, pagesBroken,
    candidate,       \* turnVerifiedCandidate
    status,          \* turnHostStatus
    summary,         \* what the turn says it saw pass
    verdicts,        \* recorded against the turn
    uncertain, invalidated, aborted,
    observed         \* which sources were seen to pass on the content of now

gateVars == <<turn, stage, events, edits, outside, run, latest, lastPassingCheck,
    evidence, lastSmoke, independentPass, independentPending, requirementAudit,
    verificationRetries, smokeRepairs, nudged, endState, unverified, result,
    contractPassed, couldNotRun, checkedNote, pagesBroken, candidate, status, summary,
    verdicts, uncertain, invalidated, aborted, observed>>

workspace == <<events, edits, outside>>
receipts  == <<run, latest, lastPassingCheck, evidence, observed>>
smokes    == <<lastSmoke, smokeRepairs>>
audits    == <<independentPass, independentPending, requirementAudit>>
retries   == <<verificationRetries, nudged>>
reading   == <<endState, unverified, result, couldNotRun>>
checks    == <<contractPassed, checkedNote>>
ending    == <<pagesBroken, candidate, status, summary, verdicts>>
doubts    == <<uncertain, invalidated, aborted>>

GateInit ==
    /\ turn \in Turn /\ stage = "working"
    /\ events = 0 /\ edits = 0 /\ outside = 0
    /\ run = None /\ latest = None /\ lastPassingCheck = None /\ evidence = 0
    /\ lastSmoke = None /\ independentPass = None /\ independentPending = FALSE
    /\ requirementAudit = None
    /\ verificationRetries = 0 /\ smokeRepairs = 0 /\ nudged = {}
    /\ endState = 0 /\ unverified = FALSE
    /\ result = None /\ contractPassed = FALSE /\ couldNotRun = FALSE
    /\ checkedNote = FALSE /\ pagesBroken = FALSE
    /\ candidate = None /\ status = "unverified" /\ summary = {} /\ verdicts = 0
    /\ uncertain = FALSE /\ invalidated = FALSE /\ aborted = FALSE
    /\ observed = {}

-----------------------------------------------------------------------------
(* Receipts and what they say of a content.                                *)

(* The content now.                                                        *)
files == edits + outside

Pass == [state : Nat, events : Nat]

Stamp(state) == [state |-> state, events |-> events]

Matches(pass, state) == pass # None /\ pass.events = events /\ pass.state = state

(* `observedCheckRuns`: the last run is fresh for a content.               *)
Fresh(receipt, state) == receipt # None /\ receipt.stable /\ Matches(receipt.at, state)

(* The evidence is a list; what matters is whether it is empty, and        *)
(* whether it has grown since the audit.                                   *)
MoreEvidence == IF requirementAudit = None THEN 1 ELSE 2

Receipt(outcome, before) ==
    [outcome |-> outcome, stable |-> before = files, at |-> Stamp(files)]

Mutated == events > 0 \/ endState # 0

DocumentsOnly == Mutated /\ ~unverified /\ turn.documents

ContractApplies == Mutated /\ ~DocumentsOnly /\ turn.contract # "none"

(* A check that the turn wrote itself proves only what it wrote into it.   *)
Trusted == turn.contract = "project"

-----------------------------------------------------------------------------
(* The round: the model works.                                             *)

Working == stage = "working" /\ ~aborted

(* A file tool's change is an event; one by the shell, or by a tool whose  *)
(* result never came, is not.                                              *)
Edit ==
    /\ Working /\ edits < MaxEdits
    /\ edits' = edits + 1
    /\ events' \in {events, events + 1}
    /\ observed' = {}
    /\ UNCHANGED <<turn, stage, outside, run, latest, lastPassingCheck, evidence, smokes, audits, retries, reading, checks,
                   ending, doubts>>

(* The check is a project check or another command; the workspace is       *)
(* captured as it is about to run, and again when it is done.              *)
RunsCheck ==
    /\ Working /\ run = None
    /\ \E by \in {"project", "command"} :
        /\ by = "project" => turn.contract # "none"
        /\ run' = [by |-> by, before |-> files]
    /\ UNCHANGED <<turn, stage, workspace, latest, lastPassingCheck, evidence, observed,
                   smokes, audits, retries, reading, checks, ending, doubts>>

(* A pass is evidence if nothing changed while it ran.                     *)
Counts == run.before = files /\ (run.by = "project" => Trusted)

CheckEnds ==
    /\ Working /\ run # None
    /\ \E passed \in BOOLEAN :
        /\ latest' = IF run.by = "project"
                     THEN Receipt(IF passed THEN "passed" ELSE "failed", run.before)
                     ELSE latest
        /\ IF passed /\ Counts
           THEN /\ lastPassingCheck' = Stamp(files) /\ evidence' = MoreEvidence
                /\ observed' = observed \cup {run.by}
           ELSE UNCHANGED <<lastPassingCheck, evidence, observed>>
    /\ run' = None
    /\ UNCHANGED <<turn, stage, workspace, smokes, audits, retries, reading, checks, ending,
                   doubts>>

(* A sub-agent ran a check; its task's result counts for the workspace as  *)
(* it is when the result arrives.                                          *)
Delegate ==
    /\ Working /\ run = None
    /\ edits' \in {edits, edits + 1} /\ outside' = outside
    /\ edits' # edits => ChildEdits /\ edits < MaxEdits
    /\ lastPassingCheck' = Stamp(files')
    /\ evidence' = MoreEvidence
    /\ observed' = IF edits' # edits THEN {} ELSE observed \cup {"command"}
    /\ UNCHANGED <<turn, stage, events, run, latest, smokes, audits, retries, reading,
                   checks, ending, doubts>>

(* Anyone else changes the workspace; the user cancels; a tool of this or  *)
(* an earlier turn ends without a known outcome.                           *)
OutsideChanges ==
    /\ stage # "over" /\ outside < MaxOutside
    /\ outside' = outside + 1
    /\ observed' = {}
    /\ UNCHANGED <<turn, stage, events, edits, run, latest, lastPassingCheck, evidence, smokes, audits, retries, reading,
                   checks, ending, doubts>>

Aborts ==
    /\ stage # "over" /\ ~aborted /\ aborted' = TRUE
    /\ UNCHANGED <<turn, stage, workspace, receipts, smokes, audits, retries, reading, checks,
                   ending, uncertain, invalidated>>

BecomesUncertain ==
    /\ stage # "over" /\ ~uncertain /\ uncertain' = TRUE
    /\ UNCHANGED <<turn, stage, workspace, receipts, smokes, audits, retries, reading, checks,
                   ending, invalidated, aborted>>

-----------------------------------------------------------------------------
(* Ways on and out of the gate.  What a pass read it does not keep.        *)

Goes(next) == stage' = next /\ UNCHANGED <<reading, ending>>

Leaves(next) ==
    /\ stage' = next
    /\ endState' = 0 /\ unverified' = FALSE /\ result' = None /\ couldNotRun' = FALSE

AsksAgain == Leaves("working") /\ UNCHANGED ending

NotVerified(as) ==
    /\ Leaves("learning")
    /\ status' = as /\ verdicts' = verdicts + 1
    /\ UNCHANGED <<pagesBroken, candidate, summary>>

(* The round was cancelled.                                                *)
Cancelled ==
    /\ stage = "working" /\ aborted
    /\ Goes("learning") /\ run' = None
    /\ UNCHANGED <<turn, workspace, latest, lastPassingCheck, evidence, observed, smokes,
                   audits, retries, checks, doubts>>

(* The round ends well.  The host asks once about a round it stopped; else *)
(* it reads the workspace, and the blocker and the protections come first. *)
HostStopped ==
    /\ Working /\ run = None /\ "stop" \in turn.asks \ nudged
    /\ nudged' = nudged \cup {"stop"}
    /\ AsksAgain
    /\ UNCHANGED <<turn, workspace, receipts, smokes, audits, verificationRetries, checks, doubts>>

StaleEvidence ==
    /\ events > 0 \/ files # 0
    /\ lastPassingCheck # None /\ ~Matches(lastPassingCheck, files)

UnverifiedSinceAudit ==
    \/ StaleEvidence
    \/ /\ requirementAudit # None
       /\ events > requirementAudit.events /\ evidence = requirementAudit.evidence

EntersGate ==
    /\ Working /\ run = None
    /\ \/ NotVerified("blocked") /\ UNCHANGED nudged
       \/ \E guard \in Guard \cap turn.asks :
            /\ events > 0 \/ files # 0
            /\ \/ guard \notin nudged /\ nudged' = nudged \cup {guard} /\ AsksAgain
               \/ guard \in nudged /\ UNCHANGED nudged /\ NotVerified("unverified")
       \/ /\ stage' = "contract" /\ endState' = files
          /\ unverified' = UnverifiedSinceAudit
          /\ UNCHANGED <<nudged, result, couldNotRun, ending>>
    /\ UNCHANGED <<turn, workspace, receipts, smokes, audits, verificationRetries, checks,
                   doubts>>

-----------------------------------------------------------------------------
(* The contract.                                                           *)

NoContract ==
    /\ stage = "contract" /\ ~ContractApplies
    /\ Goes("smoke")
    /\ UNCHANGED <<turn, workspace, receipts, smokes, audits, retries, checks, doubts>>

(* `evaluateTurnContract`: a run that is fresh for what the gate read is   *)
(* reused, any other check is run by the host.                             *)
ReusesRun ==
    /\ stage = "contract" /\ ContractApplies /\ run = None
    /\ Fresh(latest, endState)
    /\ result' = latest.outcome /\ stage' = "checked"
    /\ UNCHANGED <<turn, workspace, receipts, smokes, audits, retries, endState, unverified,
                   couldNotRun, checks, ending, doubts>>

HostRuns ==
    /\ stage = "contract" /\ ContractApplies /\ run = None
    /\ ~Fresh(latest, endState)
    /\ run' = [by |-> "host", before |-> files]
    /\ UNCHANGED <<turn, stage, workspace, latest, lastPassingCheck, evidence, observed,
                   smokes, audits, retries, reading, checks, ending, doubts>>

(* A check that could not run says nothing either way.                     *)
HostRunEnds ==
    /\ stage = "contract" /\ run # None
    /\ \E outcome \in {"passed", "failed", "unrunnable"} :
        /\ aborted => outcome # "passed"
        /\ latest' = Receipt(outcome, run.before)
        /\ result' = outcome
        /\ checkedNote' = (checkedNote \/ (outcome = "passed" /\ Trusted))
        /\ observed' = IF outcome = "passed" /\ run.before = files /\ Trusted
                       THEN observed \cup {"project"} ELSE observed
    /\ run' = None /\ stage' = "checked"
    /\ UNCHANGED <<turn, workspace, lastPassingCheck, evidence, smokes, audits, retries,
                   endState, unverified, couldNotRun, contractPassed, ending, doubts>>

(* The workspace is read again; a pass that is not fresh for it fails.     *)
Stands == Fresh(latest, files)

ContractPasses ==
    /\ stage = "checked" /\ result = "passed" /\ Stands
    /\ contractPassed' = Trusted
    /\ evidence' = IF Trusted THEN MoreEvidence ELSE evidence
    /\ Goes("smoke")
    /\ UNCHANGED <<turn, workspace, run, latest, lastPassingCheck, observed, smokes, audits,
                   retries, checkedNote, doubts>>

ContractCouldNotRun ==
    /\ stage = "checked" /\ result = "unrunnable"
    /\ couldNotRun' = TRUE /\ contractPassed' = FALSE /\ stage' = "smoke"
    /\ UNCHANGED <<turn, workspace, receipts, smokes, audits, retries, endState, unverified,
                   result, checkedNote, ending, doubts>>

(* It is sent back a bounded number of times, and once only when it fails  *)
(* as it did before the turn.                                              *)
ContractFails ==
    /\ stage = "checked"
    /\ result = "failed" \/ (result = "passed" /\ ~Stands)
    /\ contractPassed' = FALSE /\ checkedNote' = FALSE
    /\ \E asBefore \in {FALSE, "before" \in turn.asks} :
        IF /\ verificationRetries < MAX_VERIFICATION_RETRIES
           /\ ~(asBefore /\ "before" \in nudged)
        THEN /\ verificationRetries' = verificationRetries + 1
             /\ nudged' = IF asBefore THEN nudged \cup {"before"} ELSE nudged
             /\ AsksAgain
        ELSE NotVerified("unverified") /\ UNCHANGED retries
    /\ UNCHANGED <<turn, workspace, receipts, smokes, audits, doubts>>

-----------------------------------------------------------------------------
(* The page, the evidence, the audit.                                      *)

SmokeStands == lastSmoke # None /\ Matches(lastSmoke.at, endState)

Smokes == Mutated /\ ~DocumentsOnly /\ turn.web

(* The page is opened again once the files have changed since.  What it    *)
(* shows is recorded for the workspace as the gate read it.                *)
OpensApp ==
    /\ stage = "smoke" /\ Smokes
    /\ ~SmokeStands
    /\ \E seen \in {"passed", "failed", "unavailable"} :
        /\ lastSmoke' = [seen |-> seen, at |-> Stamp(endState)]
        /\ evidence' = IF seen = "passed" THEN MoreEvidence ELSE evidence
        /\ observed' = IF seen = "passed" THEN observed \cup {"page"} ELSE observed
    /\ UNCHANGED <<turn, stage, workspace, run, latest, lastPassingCheck, smokeRepairs, audits,
                   retries, reading, checks, ending, doubts>>

AppWorks ==
    /\ stage = "smoke"
    /\ Smokes => SmokeStands /\ lastSmoke.seen # "failed"
    /\ Goes("evidence")
    /\ UNCHANGED <<turn, workspace, receipts, smokes, audits, retries, checks, doubts>>

AppFails ==
    /\ stage = "smoke" /\ Smokes
    /\ SmokeStands /\ lastSmoke.seen = "failed"
    /\ IF smokeRepairs < SMOKE_REPAIRS
       THEN smokeRepairs' = smokeRepairs + 1 /\ AsksAgain
       ELSE NotVerified("unverified") /\ UNCHANGED smokeRepairs
    /\ UNCHANGED <<turn, workspace, receipts, lastSmoke, audits, retries, checks,
                   doubts>>

(* No check of the project decided: there is none, none could run, or the  *)
(* turn defined them all itself.                                           *)
NoContractEvidence ==
    ContractApplies => (couldNotRun <=> turn.contract = "project")

Unbacked == /\ NoContractEvidence /\ Mutated
            /\ DocumentsOnly \/ evidence = 0 \/ unverified

HasEvidence ==
    /\ stage = "evidence" /\ ~Unbacked
    /\ Goes("audit")
    /\ UNCHANGED <<turn, workspace, receipts, smokes, audits, retries, checks, doubts>>

(* Mutant: the requests for evidence are counted apart and one too many.   *)
NeedsEvidenceOnceMore ==
    /\ stage = "evidence" /\ Unbacked
    /\ IF verificationRetries <= MAX_VERIFICATION_RETRIES
       THEN verificationRetries' = verificationRetries + 1 /\ AsksAgain
       ELSE NotVerified("unverified") /\ UNCHANGED verificationRetries
    /\ UNCHANGED <<turn, workspace, receipts, smokes, audits, nudged, checks, doubts>>

NeedsEvidence ==
    /\ stage = "evidence" /\ Unbacked
    /\ IF verificationRetries < (IF DocumentsOnly THEN 1 ELSE MAX_VERIFICATION_RETRIES)
       THEN verificationRetries' = verificationRetries + 1 /\ AsksAgain
       ELSE NotVerified("unverified") /\ UNCHANGED verificationRetries
    /\ UNCHANGED <<turn, workspace, receipts, smokes, audits, nudged, checks, doubts>>

(* Memory that names a command the turn did not run is asked about once.   *)
MemoryUnapplied ==
    /\ stage = "audit" /\ Mutated /\ "memory" \in turn.asks \ nudged
    /\ nudged' = nudged \cup {"memory"}
    /\ AsksAgain
    /\ UNCHANGED <<turn, workspace, receipts, smokes, audits, verificationRetries, checks, doubts>>

(* An independent check of the request: tests by an agent that never saw   *)
(* the turn, run by the host on a copy of the workspace.  Without one the  *)
(* turn audits itself.                                                     *)
Audits ==
    /\ stage = "audit" /\ Mutated /\ turn.dense /\ requirementAudit = None
    /\ requirementAudit' = [events |-> events, evidence |-> evidence]
    /\ \/ /\ aborted /\ AsksAgain
          /\ UNCHANGED <<independentPass, independentPending, observed, invalidated>>
       \/ /\ ~aborted
          /\ independentPass' = Stamp(files)
          /\ observed' = observed \cup {"independent"}
          /\ Goes("audit")
          /\ UNCHANGED <<independentPending, invalidated>>
       \/ /\ ~aborted /\ independentPending' = TRUE /\ AsksAgain
          /\ UNCHANGED <<independentPass, observed, invalidated>>
       \/ /\ ~aborted /\ invalidated' \in {invalidated, TRUE} /\ AsksAgain
          /\ UNCHANGED <<independentPass, independentPending, observed>>
    /\ UNCHANGED <<turn, workspace, run, latest, lastPassingCheck, evidence, smokes, retries,
                   checks, uncertain, aborted>>

NoAudit == ~(Mutated /\ turn.dense) \/ requirementAudit # None

(* The check that failed runs again on the repaired code.                  *)
RunsIndependentAgain ==
    /\ stage = "audit" /\ NoAudit /\ independentPending
    /\ independentPending' = FALSE
    /\ \/ /\ independentPass' = Stamp(files)
          /\ observed' = observed \cup {"independent"}
          /\ Goes("pages")
          /\ UNCHANGED invalidated
       \/ /\ IF aborted THEN Goes("pages") ELSE NotVerified("unverified")
          /\ invalidated' \in {invalidated, TRUE}
          /\ UNCHANGED <<independentPass, observed>>
    /\ UNCHANGED <<turn, workspace, run, latest, lastPassingCheck, evidence, smokes,
                   requirementAudit, retries, checks, uncertain, aborted>>

Audited ==
    /\ stage = "audit" /\ NoAudit /\ ~independentPending
    /\ Goes("pages")
    /\ UNCHANGED <<turn, workspace, receipts, smokes, audits, retries, checks, doubts>>

(* The local pages that the answer names are asked for; one that does not  *)
(* answer is sent back once, then it leaves the turn unverified.           *)
AsksPages ==
    /\ stage = "pages"
    /\ \/ /\ "pages" \in turn.asks \ nudged /\ nudged' = nudged \cup {"pages"} /\ AsksAgain
       \/ /\ "pages" \in nudged \/ ("pages" \notin turn.asks /\ Mutated)
          /\ stage' = "hook" /\ pagesBroken' = TRUE
          /\ status' = "unverified" /\ verdicts' = verdicts + 1
          /\ UNCHANGED <<nudged, reading, candidate, summary>>
       \/ Goes("hook") /\ UNCHANGED nudged
    /\ UNCHANGED <<turn, workspace, receipts, smokes, audits, verificationRetries, checks, doubts>>

StopHookBlocks ==
    /\ stage = "hook"
    /\ NotVerified("blocked")
    /\ UNCHANGED <<turn, workspace, receipts, smokes, audits, retries, checks, doubts>>

-----------------------------------------------------------------------------
(* The verdict.                                                            *)

(* What the host itself saw pass (`hostPasses`).                           *)
HostPasses ==
    {source \in {"project", "page", "independent"} :
        CASE source = "project"     -> checkedNote
          [] source = "page"        -> lastSmoke # None /\ lastSmoke.seen = "passed"
          [] source = "independent" -> Matches(independentPass, endState)}

(* Mutant: the receipts are compared with what the gate read on entering.  *)
VerifiedAsRead ==
    /\ ~invalidated /\ ~uncertain /\ ~pagesBroken /\ evidence > 0 /\ ~couldNotRun
    /\ contractPassed \/ Matches(lastPassingCheck, endState) \/ HostPasses # {}
    /\ ~ContractApplies \/ turn.contract = "own" \/ contractPassed

FreshContract == contractPassed /\ ~couldNotRun /\ Fresh(latest, files) /\ latest.outcome = "passed"
FreshCommand  == Matches(lastPassingCheck, files)
FreshSmoke    == lastSmoke # None /\ lastSmoke.seen = "passed" /\ Matches(lastSmoke.at, files)
FreshIndependent == Matches(independentPass, files)

Verified ==
    /\ ~invalidated /\ ~uncertain /\ ~pagesBroken
    /\ evidence > 0
    /\ FreshContract \/ FreshCommand \/ FreshSmoke \/ FreshIndependent
    /\ ~ContractApplies \/ turn.contract = "own" \/ FreshContract
    /\ lastSmoke # None /\ lastSmoke.seen = "passed" => FreshSmoke
    /\ independentPass # None => FreshIndependent
    /\ ~couldNotRun

(* A pass is announced only when the turn is over: the workspace is read   *)
(* once more then.  A turn without changes is unverified if it ran a check *)
(* (`checkRuns`); of those by another command the model keeps no record.   *)
Decides ==
    /\ stage = "hook" /\ Leaves("learning")
    /\ LET passes == HostPasses # {} /\ ~pagesBroken IN
        /\ status' \in CASE Verified -> {"verified"}
                          [] ~Verified /\ (Mutated \/ latest # None) -> {"unverified"}
                          [] OTHER -> {"unverified", "answered"}
        /\ candidate' = IF Verified THEN files ELSE None
        /\ summary' = IF passes /\ Verified THEN HostPasses ELSE {}
        /\ verdicts' = IF passes /\ ~Verified THEN verdicts + 1 ELSE verdicts
    /\ UNCHANGED <<turn, workspace, receipts, smokes, audits, retries, checks,
                   pagesBroken, doubts>>

(* Mutant: what became uncertain while the turn learned is not looked at.  *)
FinishesAsDecided ==
    /\ stage = "learning"
    /\ stage' = "over"
    /\ status' = CASE aborted -> "cancelled"
                   [] ~aborted /\ status = "verified" /\ candidate # files -> "unverified"
                   [] OTHER -> status
    /\ UNCHANGED <<turn, workspace, receipts, smokes, audits, retries, reading, checks,
                   pagesBroken, candidate, summary, verdicts, doubts>>

(* `finishHostTurnResult`, after the turn has learned from what it did.    *)
Finishes ==
    /\ stage = "learning"
    /\ stage' = "over"
    /\ status' = CASE aborted -> "cancelled"
                   [] ~aborted /\ status = "verified"
                               /\ (invalidated \/ uncertain \/ candidate # files) -> "unverified"
                   [] ~aborted /\ status = "answered" /\ uncertain -> "unverified"
                   [] OTHER -> status
    /\ UNCHANGED <<turn, workspace, receipts, smokes, audits, retries, reading, checks,
                   pagesBroken, candidate, summary, verdicts, doubts>>

-----------------------------------------------------------------------------

Works == Edit \/ RunsCheck \/ CheckEnds \/ Delegate

Gate == \/ Cancelled \/ HostStopped \/ EntersGate
        \/ NoContract \/ ReusesRun \/ HostRuns \/ HostRunEnds
        \/ ContractPasses \/ ContractCouldNotRun \/ ContractFails
        \/ OpensApp \/ AppWorks \/ AppFails \/ HasEvidence \/ NeedsEvidence
        \/ MemoryUnapplied \/ Audits \/ RunsIndependentAgain \/ Audited
        \/ AsksPages \/ StopHookBlocks \/ Decides \/ Finishes

GateNext == Works \/ Gate \/ OutsideChanges \/ Aborts \/ BecomesUncertain

(* A round has a bounded number of steps, a check a timeout, and the gate  *)
(* goes on.                                                                *)
GateSpec ==
    /\ GateInit /\ [][GateNext]_gateVars
    /\ WF_gateVars(CheckEnds) /\ SF_gateVars(EntersGate) /\ WF_gateVars(Gate)

-----------------------------------------------------------------------------
(* Properties.                                                             *)

(* The gate's state: the requests it may still make are bounded, and a     *)
(* candidate is kept only of a turn that was verified.                     *)
GateTypeOK ==
    /\ turn \in Turn /\ stage \in Stage /\ endState \in 0 .. files
    /\ events \in 0 .. edits /\ edits \in 0 .. MaxEdits /\ outside \in 0 .. MaxOutside
    /\ run # None => run.by \in {"project", "command", "host"} /\ run.before \in 0 .. files
    /\ latest # None => latest.at \in Pass
    /\ \A pass \in {lastPassingCheck, independentPass} : pass # None => pass \in Pass
    /\ lastSmoke # None => lastSmoke.at \in Pass
    /\ evidence \in 0 .. 2
    /\ requirementAudit # None => requirementAudit.events \in 0 .. events
    /\ verificationRetries \in 0 .. MAX_VERIFICATION_RETRIES
    /\ smokeRepairs \in 0 .. SMOKE_REPAIRS
    /\ nudged \subseteq turn.asks
    /\ result \in {None, "passed", "failed", "unrunnable"}
    /\ candidate \in Nat \cup {None} /\ (status = "verified" => candidate # None)
    /\ status \in Status /\ summary \subseteq Source /\ verdicts \in Nat
    /\ observed \subseteq Source
    /\ \A flag \in {independentPending, unverified, contractPassed, couldNotRun, checkedNote,
                     pagesBroken, uncertain, invalidated, aborted} : flag \in BOOLEAN

Over(how) == stage = "over" /\ status = how

(* A turn is verified only if something was seen to pass on the very       *)
(* content it leaves, the project's own check included when the turn       *)
(* changed the project, and everything its summary names was.  Rounds,     *)
(* edits by tool or shell, checks of the model and of the host, and        *)
(* changes by others come between the checks and the verdict in any order. *)
VerifiedIsObserved ==
    Over("verified") =>
        /\ observed # {}
        /\ turn.contract = "project" /\ ~turn.documents /\ files # 0 => "project" \in observed
        /\ summary \subseteq observed

(* A turn with a verdict against it, with an operation whose outcome is    *)
(* unknown (also one of an earlier turn that returns late), or with a      *)
(* check that was tampered with, never ends as verified.                   *)
NoDoubtfulSuccess ==
    Over("verified") => verdicts = 0 /\ ~uncertain /\ ~invalidated /\ ~aborted

(* A page that does not work leaves the turn unverified.                   *)
BrokenPageIsUnverified ==
    stage = "over" /\ pagesBroken => status \notin {"verified", "answered"}

(* Whatever the model does, the host stops asking and the turn ends.       *)
GateEnds == <>(stage = "over")
================================================================================
