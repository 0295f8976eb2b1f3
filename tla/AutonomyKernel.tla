---------------------------- MODULE AutonomyKernel ----------------------------
(***************************************************************************)
(* One run of an objective (`AutonomyKernel.run`, src/autonomy/kernel.ts,  *)
(* under `runObjective`, autonomy/runtime.ts): derive a contract, plan,    *)
(* carry out the tasks, then serve, verify and repair until the contract   *)
(* holds or nothing is left to try.                                        *)
(*                                                                         *)
(* The workspace is the set `good` of the criteria that its files satisfy; *)
(* a change set or a command may make it any other set.  What an           *)
(* application answers is its own affair, as long as it is there to.       *)
(***************************************************************************)
EXTENDS Naturals, FiniteSets, Sequences

CONSTANTS
    DiskCriterion,      \* answered by files
    CommandCriterion,   \* answered by a command, which may change the files
    RouteCriterion,     \* answered by a request to the application
    MobilePage,         \* answered by its page, loaded once for each viewport
    DesktopPage,
    RequestCriterion,   \* no_external_requests, one of the desktop's
    JudgeCriterion,     \* answered by a model
    Contract,           \* the sets of criteria that are asked for
    Detail,             \* what a failure says, normalized
    MaxProcesses,       \* processes at one time
    MaxTasks,           \* tasks of a plan
    maxTaskAttempts, maxRepairAttempts, IDENTICAL_FAILURE_LIMIT

PageCriterion == MobilePage \cup DesktopPage
AppCriterion  == RouteCriterion \cup PageCriterion
Criterion     == DiskCriterion \cup CommandCriterion \cup AppCriterion \cup JudgeCriterion

(* A criterion has one check, of one kind.                                 *)
ASSUME KernelAssumption ==
    /\ DiskCriterion \cap (AppCriterion \cup CommandCriterion \cup JudgeCriterion) = {}
    /\ RequestCriterion \subseteq DesktopPage
    /\ Contract \subseteq (SUBSET Criterion) \ {{}}
    /\ Detail # {}
    /\ MaxProcesses \in Nat
    /\ MaxTasks \in Nat \ {0}
    /\ maxTaskAttempts \in Nat \ {0}
    /\ maxRepairAttempts \in Nat
    /\ IDENTICAL_FAILURE_LIMIT \in Nat

StopReason == {"verified_success", "user_cancelled", "impossible_environment",
               "retry_exhausted"}
None       == "none"
Phase      == {"interpreting", "planning", "implementing", "running",
               "verifying", "diagnosing", "repairing", "complete", "stopped"}
Place      == {"body", "start", "static", "selfCheck", "cleaned", "ended"}
TaskStatus == {"pending", "done", "failed"}
Process    == 1 .. MaxProcesses
NoProcess  == 0
Static     == MaxProcesses + 1    \* the id of a static server

VARIABLES
    phase, stopReason,
    at,            \* where it is: in ensureAppRunning, before the self-checks,
                   \* `cleaned` after cleanup, `ended` after stopAll
    supplied,      \* the criteria come with the request
    acceptance,    \* the criteria of the contract
    required,      \* those of them that must pass
    plan,          \* the tasks: status and attempts
    good,          \* the criteria the files satisfy
    url,           \* objective.app is ready and has one
    appProcessId,
    running,       \* the processes that run
    handles,       \* those the ProcessManager knows
    servers,       \* how many static servers listen
    startCommand,  \* detectedStartCommand is set
    seen,          \* fingerprintCounts
    repairs,
    checked,       \* the criteria the present verification has results of
    passed,        \* those that passed
    cancelled, overBudget

(* What happened, which decides nothing.                                   *)
VARIABLES
    spoilt,        \* passed, and undone by a later command of the same checks
    unkilled       \* processes that were killed and run on

contractVars == <<supplied, acceptance, required>>
appVars      == <<url, appProcessId>>
osVars       == <<running, handles, servers, unkilled>>
resultVars   == <<checked, passed, spoilt>>
countVars    == <<seen, repairs>>
outside      == <<cancelled, overBudget>>
kernelVars   == <<phase, stopReason, at, supplied, acceptance, required, plan, good,
                  url, appProcessId, running, handles, servers, startCommand, seen,
                  repairs, checked, passed, cancelled, overBudget, spoilt, unkilled>>

Init ==
    /\ phase = "interpreting" /\ stopReason = None /\ at = "body"
    /\ supplied \in BOOLEAN
    /\ acceptance = {} /\ required = {} /\ plan = <<>>
    /\ good \in SUBSET DiskCriterion
    /\ url = FALSE /\ appProcessId = NoProcess /\ startCommand = FALSE
    /\ running = {} /\ handles = {} /\ servers = 0 /\ unkilled = {}
    /\ seen = << >> /\ repairs = 0
    /\ checked = {} /\ passed = {} /\ spoilt = {}
    /\ cancelled = FALSE /\ overBudget = FALSE

-----------------------------------------------------------------------------
(* Ends.                                                                   *)

Finish(reason) ==
    /\ stopReason' = reason
    /\ phase' = IF reason = "verified_success" THEN "complete" ELSE "stopped"

Running == phase \notin {"complete", "stopped"}

(* A model answers, or not; what it cost may pass the budget.              *)
Think(answered) ==
    /\ cancelled => ~answered
    /\ overBudget' \in {overBudget, TRUE}
    /\ UNCHANGED cancelled

-----------------------------------------------------------------------------
(* Interpreting and planning.                                              *)

(* A derived contract has a required criterion; a supplied one is taken as *)
(* it is.                                                                  *)
Interpret ==
    /\ phase = "interpreting"
    /\ \/ /\ acceptance' \in Contract
          /\ required' \in SUBSET acceptance'
          /\ supplied \/ required' # {}
          /\ phase' = "planning"
          /\ IF supplied THEN UNCHANGED outside ELSE Think(TRUE)
          /\ UNCHANGED stopReason
       \/ /\ ~supplied
          /\ Finish("impossible_environment")
          /\ \E answered \in BOOLEAN : Think(answered)
          /\ UNCHANGED <<acceptance, required>>
    /\ UNCHANGED <<at, supplied, plan, good, appVars, osVars, startCommand, countVars,
                    resultVars>>

Fresh == [status |-> "pending", attempts |-> 0]

(* Without an answer there is one task, the whole objective.               *)
BuildPlan ==
    /\ phase = "planning"
    /\ \E n \in 1 .. MaxTasks :
        /\ IF supplied
           THEN n = 1 /\ UNCHANGED outside
           ELSE \E answered \in BOOLEAN : Think(answered) /\ (~answered => n = 1)
        /\ plan' = [i \in 1 .. n |-> Fresh]
    /\ phase' = "implementing"
    /\ UNCHANGED <<stopReason, at, contractVars, good, appVars, osVars, startCommand,
                    countVars, resultVars>>

-----------------------------------------------------------------------------
(* Change sets.                                                            *)

(* The files of a change set are applied one by one and then its commands, *)
(* each of which may fail; what was applied stays.                         *)
ApplyChangeSet ==
    /\ good' \in SUBSET DiskCriterion
    /\ startCommand' \in {startCommand, TRUE}

NoChangeSet == UNCHANGED <<good, startCommand>>

Untried(i)  == plan[i].status # "done" /\ plan[i].attempts < maxTaskAttempts

(* Task i is the one to try now; it is tried again while it fails.         *)
Turn(i)     == i \in DOMAIN plan /\ Untried(i) /\ \A j \in 1 .. i - 1 : ~Untried(j)

AllTried    == \A i \in DOMAIN plan : ~Untried(i)

Attempted(i, status) ==
    plan' = [plan EXCEPT ![i] = [status |-> status, attempts |-> @.attempts + 1]]

(* `executeTask`, and its retry while it fails.                            *)
ExecuteTask ==
    /\ phase = "implementing"
    /\ \E i \in DOMAIN plan :
        /\ Turn(i)
        /\ plan[i].attempts = 0 => ~cancelled
        /\ \/ /\ Think(TRUE)
              /\ ApplyChangeSet
              /\ \E status \in {"done", "failed"} : Attempted(i, status)
           \/ /\ \E answered \in BOOLEAN : Think(answered)    \* none, or an invalid one
              /\ NoChangeSet
              /\ Attempted(i, "failed")
    /\ UNCHANGED <<phase, stopReason, at, contractVars, appVars, osVars, countVars,
                    resultVars>>

-----------------------------------------------------------------------------
(* The loop: serve, verify, repair.                                        *)

AtLoopHead ==
    \/ phase = "repairing"
    \/ phase = "implementing" /\ AllTried

AtNextTask ==
    /\ phase = "implementing"
    /\ \E i \in DOMAIN plan : Turn(i) /\ plan[i].attempts = 0

(* A run that goes no further.                                             *)
Stops(reason) ==
    /\ Finish(reason)
    /\ UNCHANGED <<at, contractVars, plan, good, appVars, osVars, startCommand, countVars,
                    resultVars, outside>>

(* The user's cancellation is seen between tasks and between attempts.     *)
CancelledAtHead == cancelled /\ (AtLoopHead \/ AtNextTask) /\ Stops("user_cancelled")

BudgetSpent     == AtLoopHead /\ ~cancelled /\ overBudget /\ Stops("retry_exhausted")

(* Killing a process does not report that it failed.                       *)
Kill(S) ==
    \E survivors \in SUBSET (S \cap running) :
        /\ running'  = running \ (S \ survivors)
        /\ unkilled' = (unkilled \ S) \cup survivors

(* `stopApp`: the handle goes first, and a failure is swallowed.           *)
StopApp ==
    /\ servers' = IF appProcessId = Static THEN servers - 1 ELSE servers
    /\ handles' = handles \ {appProcessId}
    /\ Kill(handles \cap {appProcessId})
    /\ appProcessId' = NoProcess
    /\ url' = FALSE

(* The list of kinds in ensureAppRunning lacks no_external_requests.       *)
NeedsApp == acceptance \cap (AppCriterion \ RequestCriterion) # {}

Known    == appProcessId # NoProcess /\ url

Alive    == appProcessId \in running \cup {Static}

(* `ensureAppRunning`: an application that answers is kept, one that does  *)
(* not is stopped, and one without a URL goes on beside its successor.     *)
EnsureAppRunning ==
    /\ AtLoopHead /\ ~cancelled /\ ~overBudget
    /\ phase' = "running"
    /\ \/ /\ NeedsApp => Known /\ Alive
          /\ at' = "selfCheck" /\ UNCHANGED <<appVars, osVars>>
       \/ /\ NeedsApp
          /\ IF Known THEN StopApp ELSE UNCHANGED <<appVars, osVars>>
          /\ at' = "start"
    /\ UNCHANGED <<stopReason, contractVars, plan, good, startCommand, countVars,
                    resultVars, outside>>

NewProcess(p) ==
    LET unused == Process \ (running \cup handles \cup {appProcessId})
    IN  p \in unused /\ \A q \in unused : p <= q

(* The declared process is started and becomes ready, with a URL or        *)
(* without, or it is killed for having not, or nothing can be started.     *)
StartProcess ==
    /\ at = "start" /\ Running
    /\ \/ /\ startCommand
          /\ \E p \in Process :
               /\ NewProcess(p)
               /\ running' = running \cup {p} /\ handles' = handles \cup {p}
               /\ appProcessId' = p /\ url' \in BOOLEAN
          /\ at' = "selfCheck" /\ UNCHANGED unkilled
       \/ /\ startCommand
          /\ \E p \in Process :
               /\ NewProcess(p)
               /\ running' = running \cup {p} /\ unkilled' = unkilled \cup {p}
          /\ at' = "static" /\ UNCHANGED <<handles, appVars>>
       \/ at' = "static" /\ UNCHANGED <<running, unkilled, handles, appVars>>
    /\ UNCHANGED <<phase, stopReason, contractVars, plan, good, servers, startCommand,
                    countVars, resultVars, outside>>

ServeStatic ==
    /\ at = "static" /\ Running
    /\ \/ servers' = servers + 1 /\ appProcessId' = Static /\ url' = TRUE
       \/ url' = FALSE /\ UNCHANGED <<servers, appProcessId>>
    /\ at' = "selfCheck"
    /\ UNCHANGED <<phase, stopReason, contractVars, plan, good, running, handles,
                    unkilled, startCommand, countVars, resultVars, outside>>

(* The commands of the contract, before they are asked as its criteria.    *)
RunDeclaredSelfChecks ==
    /\ at = "selfCheck" /\ Running
    /\ at' = "body" /\ phase' = "verifying"
    /\ IF acceptance \cap CommandCriterion = {}
       THEN UNCHANGED good ELSE good' \in SUBSET DiskCriterion
    /\ UNCHANGED <<stopReason, contractVars, plan, appVars, osVars, startCommand,
                    countVars, resultVars, outside>>

-----------------------------------------------------------------------------
(* `evaluateAcceptance`: one criterion after another, in the order of the  *)
(* contract, and the pages last; an aborted signal ends the checks early.  *)

Pending == acceptance \ checked

(* The criteria that an answer can pass.                                   *)
Passable(S) == IF S \subseteq AppCriterion /\ ~(url /\ Alive) THEN {} ELSE S

Answer(S, successes) ==
    /\ phase = "verifying" /\ ~cancelled
    /\ checked' = checked \cup S /\ passed' = passed \cup successes
    /\ UNCHANGED <<phase, stopReason, at, contractVars, plan, appVars, osVars,
                    startCommand, countVars, outside>>

CheckFile ==
    /\ \E c \in Pending \cap DiskCriterion : Answer({c}, {c} \cap good)
    /\ UNCHANGED <<good, spoilt>>

(* A command answers anything, and may change what was judged before it.   *)
RunCommand ==
    /\ \E c \in Pending \cap CommandCriterion : \E ok \in SUBSET {c} : Answer({c}, ok)
    /\ good' \in SUBSET DiskCriterion
    /\ spoilt' = (passed \cap DiskCriterion) \ good'

(* A request or a model answers anything; without an application nothing   *)
(* answers a request.                                                      *)
Ask ==
    /\ \E c \in Pending \cap (RouteCriterion \cup JudgeCriterion) :
          \E ok \in SUBSET Passable({c}) : Answer({c}, ok)
    /\ UNCHANGED <<good, spoilt>>

(* One load of the page answers every criterion of its viewport.           *)
ObservePage ==
    /\ Pending \subseteq PageCriterion
    /\ \E viewport \in {MobilePage, DesktopPage} :
          /\ Pending \cap viewport # {}
          /\ \E ok \in SUBSET Passable(Pending \cap viewport) :
                Answer(Pending \cap viewport, ok)
    /\ UNCHANGED <<good, spoilt>>

(* Faulty: only the results are looked at.                                 *)
ResultsPassed == required \cap checked \subseteq passed

(* `verificationPassed`: a required criterion without a result has failed. *)
VerificationPassed == required \subseteq passed

Failing == (required \cap checked) \ passed

(* `failureFingerprint`: the failures and what they say.                   *)
Fingerprint == [Failing -> Detail]

Times(f) == IF f \in DOMAIN seen THEN seen[f] ELSE 0

(* Faulty: the limit is tested before the repair is counted.               *)
ExhaustedLate(f) == repairs > maxRepairAttempts \/ Times(f) + 1 > IDENTICAL_FAILURE_LIMIT

Exhausted(f) == repairs >= maxRepairAttempts \/ Times(f) + 1 > IDENTICAL_FAILURE_LIMIT

(* Faulty: another failure counts as progress and starts both counts again. *)
TallySinceProgress(f) ==
    /\ repairs' = Times(f) + 1
    /\ seen' = [g \in {f} |-> Times(f) + 1]

Tally(f) ==
    /\ repairs' = repairs + 1
    /\ seen' = [g \in DOMAIN seen \cup {f} |-> IF g = f THEN Times(f) + 1 ELSE seen[g]]

(* The report passes, or its failures are to be repaired, or nothing is    *)
(* left to try.                                                            *)
Decide ==
    /\ phase = "verifying"
    /\ cancelled \/ Pending = {}
    /\ IF VerificationPassed
       THEN Finish("verified_success") /\ UNCHANGED <<countVars, resultVars>>
       ELSE /\ \E f \in Fingerprint :
                 IF Exhausted(f)
                 THEN Finish("retry_exhausted") /\ UNCHANGED countVars
                 ELSE Tally(f) /\ phase' = "diagnosing" /\ UNCHANGED stopReason
            /\ checked' = {} /\ passed' = {} /\ spoilt' = {}
    /\ UNCHANGED <<at, contractVars, plan, good, appVars, osVars, startCommand, outside>>

(* A repair that no file change came of ends the run, even when it ran     *)
(* commands.                                                               *)
Repair ==
    /\ phase = "diagnosing"
    /\ \/ /\ Think(TRUE)
          /\ ApplyChangeSet
          /\ \/ phase' = "repairing" /\ UNCHANGED stopReason
             \/ Finish("retry_exhausted")
       \/ /\ Think(FALSE)
          /\ NoChangeSet
          /\ Finish("retry_exhausted")
    /\ UNCHANGED <<at, contractVars, plan, appVars, osVars, countVars, resultVars>>

-----------------------------------------------------------------------------
(* Around the loop.                                                        *)

(* A file system, a probe or the journal throws.                           *)
Throws == Running /\ Stops("impossible_environment")

(* The `finally` of `run`: `cleanup` stops the application it knows.       *)
CleanUp ==
    /\ ~Running /\ at \notin {"cleaned", "ended"}
    /\ at' = "cleaned"
    /\ IF appProcessId # NoProcess THEN StopApp ELSE UNCHANGED <<appVars, osVars>>
    /\ UNCHANGED <<phase, stopReason, contractVars, plan, good, startCommand, countVars,
                    resultVars, outside>>

(* Faulty: what the kernel knew is taken to be all there was.              *)
StopKnown ==
    /\ at = "cleaned"
    /\ at' = "ended"
    /\ UNCHANGED <<phase, stopReason, contractVars, plan, good, appVars, osVars,
                    startCommand, countVars, resultVars, outside>>

(* The `finally` of `runObjective`: every process that has a handle.       *)
StopAll ==
    /\ at = "cleaned"
    /\ at' = "ended"
    /\ Kill(handles) /\ handles' = {}
    /\ UNCHANGED <<phase, stopReason, contractVars, plan, good, appVars, servers,
                    startCommand, countVars, resultVars, outside>>

UserCancels ==
    /\ Running /\ ~cancelled
    /\ cancelled' = TRUE
    /\ UNCHANGED <<phase, stopReason, at, contractVars, plan, good, appVars, osVars,
                    startCommand, countVars, resultVars, overBudget>>

(* A process ends by itself.                                               *)
Dies ==
    /\ at # "ended"
    /\ \E p \in running : running' = running \ {p} /\ unkilled' = unkilled \ {p}
    /\ UNCHANGED <<phase, stopReason, at, contractVars, plan, good, appVars, handles,
                    servers, startCommand, countVars, resultVars, outside>>

Verify == CheckFile \/ RunCommand \/ Ask \/ ObservePage

Run ==
    \/ Interpret \/ BuildPlan \/ ExecuteTask \/ CancelledAtHead \/ BudgetSpent
    \/ EnsureAppRunning \/ StartProcess \/ ServeStatic \/ RunDeclaredSelfChecks
    \/ Verify \/ Decide \/ Repair \/ CleanUp \/ StopAll

Next == Run \/ Throws \/ UserCancels \/ Dies

KernelSpec == Init /\ [][Next]_kernelVars /\ WF_kernelVars(Run)

-----------------------------------------------------------------------------
(* Properties.                                                             *)

KernelTypeOK ==
    /\ phase \in Phase /\ stopReason \in StopReason \cup {None} /\ at \in Place
    /\ supplied \in BOOLEAN
    /\ acceptance \subseteq Criterion /\ required \subseteq acceptance
    /\ plan \in Seq([status : TaskStatus, attempts : 0 .. maxTaskAttempts])
    /\ good \subseteq DiskCriterion
    /\ url \in BOOLEAN /\ appProcessId \in Process \cup {NoProcess, Static}
    /\ startCommand \in BOOLEAN
    /\ running \subseteq Process /\ handles \subseteq Process /\ servers \in Nat
    /\ DOMAIN seen \subseteq UNION {[S -> Detail] : S \in SUBSET required}
    /\ \A f \in DOMAIN seen : seen[f] \in 1 .. IDENTICAL_FAILURE_LIMIT
    /\ repairs \in 0 .. maxRepairAttempts
    /\ checked \subseteq acceptance /\ passed \subseteq checked
    /\ spoilt \subseteq passed /\ unkilled \subseteq running
    /\ cancelled \in BOOLEAN /\ overBudget \in BOOLEAN
    /\ (stopReason = None) <=> Running

(* Success rests on the workspace as it is left: every required criterion  *)
(* passed in the last verification, those about files hold now unless a    *)
(* later command of that same verification undid them, and a contract the  *)
(* kernel derived requires something (run, verify, evaluateAcceptance).    *)
VerdictIsEarned ==
    stopReason = "verified_success" =>
        /\ required \subseteq passed
        /\ required \cap DiskCriterion \subseteq good \cup spoilt
        /\ supplied \/ required # {}

(* Whichever way a run ends, every server it started has stopped and every *)
(* process still running is one that was killed to no effect, those        *)
(* included that the kernel lost sight of (ensureAppRunning, stopApp,      *)
(* cleanup, stopAll).                                                      *)
NothingLeftRunning == at = "ended" => servers = 0 /\ running \subseteq unkilled

Proven ==
    /\ phase \in {"verifying", "complete"}
    /\ required \subseteq passed
    /\ required \cap DiskCriterion \subseteq good \cup spoilt

Outcome == IF stopReason \in {None, "verified_success"} THEN stopReason ELSE "failure"

Promise == INSTANCE Objective
             WITH Success <- "verified_success", Failure <- "failure", Open <- None,
                  proven <- Proven, reason <- Outcome

(* A run ends, and with success only on a verification that nothing but    *)
(* the commands it ran itself has followed.                                *)
ImplementsObjective == Promise!Spec
=============================================================================
