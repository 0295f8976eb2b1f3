-------------------------- MODULE AutonomyKernel_proofs --------------------------
(***************************************************************************)
(* Theorems on a run of an objective, for any criteria, number of tasks    *)
(* and limits.                                                             *)
(***************************************************************************)
EXTENDS AutonomyKernel, SequenceTheorems, TLAPS

(* The kernel serves the application only in the phase `running`, and is    *)
(* done with it only when it has stopped.                                  *)
AtFits ==
    /\ Running => at \in {"body", "start", "static", "selfCheck"}
    /\ Running /\ phase # "running" => at = "body"

(* There are results only of a verification that goes on or was the last,  *)
(* and nothing has failed before there is a contract.                      *)
ResultsOfNow ==
    /\ phase \notin {"verifying", "complete", "stopped"}
         => checked = {} /\ passed = {} /\ spoilt = {}
    /\ phase = "interpreting" => DOMAIN seen = {}

(* What a verification saw on disk is there until a change set follows it, *)
(* or was undone by a command of that verification.                        *)
DiskIsAsSeen ==
    phase \in {"verifying", "complete"} =>
        passed \cap DiskCriterion \subseteq good \cup spoilt

(* A contract that the kernel derived requires something.                  *)
DerivedRequires == supplied \/ required # {} \/ phase \in {"interpreting", "stopped"}

(* Success is the phase `complete`, and it was reached with every required *)
(* criterion passed.                                                       *)
CompleteIsVerified ==
    /\ stopReason = "verified_success" <=> phase = "complete"
    /\ phase = "complete" => required \subseteq passed

Fingerprints == UNION {[S -> Detail] : S \in SUBSET required}

(* The type invariant but for the plan and the processes.                  *)
RestTyped ==
    /\ phase \in Phase /\ stopReason \in StopReason \cup {None} /\ at \in Place
    /\ supplied \in BOOLEAN
    /\ acceptance \subseteq Criterion /\ required \subseteq acceptance
    /\ good \subseteq DiskCriterion
    /\ startCommand \in BOOLEAN
    /\ DOMAIN seen \subseteq Fingerprints
    /\ \A f \in DOMAIN seen : seen[f] \in 1 .. IDENTICAL_FAILURE_LIMIT
    /\ repairs \in 0 .. maxRepairAttempts
    /\ checked \subseteq acceptance /\ passed \subseteq checked /\ spoilt \subseteq passed
    /\ cancelled \in BOOLEAN /\ overBudget \in BOOLEAN
    /\ (stopReason = None) <=> Running

Task      == [status : TaskStatus, attempts : 0 .. maxTaskAttempts]
PlanTyped == plan \in Seq(Task)

ProcessesTyped ==
    /\ url \in BOOLEAN /\ appProcessId \in Process \cup {NoProcess, Static}
    /\ running \subseteq Process /\ handles \subseteq Process /\ servers \in Nat
    /\ unkilled \subseteq running

(* Every process that runs can still be stopped, or was killed already.    *)
NoneIsLost == running \subseteq handles \cup unkilled

(* The kernel knows its static server, and stops it before another starts. *)
ServerIsKnown ==
    /\ servers = IF appProcessId = Static THEN 1 ELSE 0
    /\ appProcessId = Static => url /\ at \in {"body", "selfCheck"}

StoppedAll == at = "ended" => handles = {}

VerdictInv == RestTyped /\ ResultsOfNow /\ AtFits /\ DiskIsAsSeen /\ DerivedRequires
                /\ CompleteIsVerified

ProcessInv == ProcessesTyped /\ NoneIsLost /\ ServerIsKnown /\ StoppedAll

KernelInv == VerdictInv /\ PlanTyped /\ ProcessInv

(* The type invariant, split into what planning changes, what starting and *)
(* stopping processes changes, and the rest.                               *)
LEMMA TypedInParts == KernelTypeOK <=> RestTyped /\ PlanTyped /\ ProcessesTyped
  BY DEF KernelTypeOK, RestTyped, PlanTyped, ProcessesTyped, Task, Fingerprints

-----------------------------------------------------------------------------
(* Every run starts in the invariant.                                      *)
LEMMA KernelInvInit == Init => KernelInv
<1> SUFFICES ASSUME Init PROVE KernelInv
  OBVIOUS
<1>1. PlanTyped
  BY EmptySeq DEF Init, PlanTyped
<1>2. RestTyped
  <2>2. DOMAIN seen = {}
    BY EmptySeq DEF Init
  <2>3. /\ phase \in Phase /\ stopReason \in StopReason \cup {None} /\ at \in Place
        /\ (stopReason = None) <=> Running
    BY DEF Init, Phase, StopReason, None, Running, Place
  <2>4. /\ supplied \in BOOLEAN /\ startCommand \in BOOLEAN
        /\ cancelled \in BOOLEAN /\ overBudget \in BOOLEAN
    BY DEF Init
  <2>5. /\ acceptance = {} /\ required = {} /\ checked = {} /\ passed = {} /\ spoilt = {}
        /\ good \subseteq DiskCriterion /\ repairs = 0
    BY DEF Init
  <2>6. repairs \in 0 .. maxRepairAttempts
    BY <2>5, KernelAssumption DEF KernelAssumption
  <2> QED
    BY <2>2, <2>3, <2>4, <2>5, <2>6 DEF RestTyped
<1>3. ResultsOfNow /\ AtFits /\ DiskIsAsSeen /\ DerivedRequires /\ CompleteIsVerified
  BY EmptySeq DEF Init, ResultsOfNow, AtFits, DiskIsAsSeen, DerivedRequires,
                  CompleteIsVerified, None, Running
<1>4. ProcessInv
  <2>1. NoProcess # Static
    BY KernelAssumption DEF KernelAssumption, NoProcess, Static
  <2> QED
    BY <2>1 DEF Init, ProcessInv, ProcessesTyped, NoneIsLost, ServerIsKnown, StoppedAll
<1> QED
  BY <1>1, <1>2, <1>3, <1>4 DEF KernelInv, VerdictInv

(* The plan keeps its type: attempts are counted only while some are left. *)
LEMMA PlanStep == ASSUME KernelInv, [Next]_kernelVars PROVE PlanTyped'
<1>1. CASE BuildPlan
  <2>1. PICK n \in 1 .. MaxTasks : plan' = [i \in 1 .. n |-> Fresh]
    BY <1>1 DEF BuildPlan
  <2>2. Fresh \in Task
    BY KernelAssumption DEF KernelAssumption, Fresh, Task, TaskStatus
  <2>3. n \in Nat /\ plan' \in [1 .. n -> Task]
    BY <2>1, <2>2, KernelAssumption DEF KernelAssumption
  <2> QED
    BY <2>3, SeqDef DEF PlanTyped
<1>2. CASE ExecuteTask
  <2>1. PICK i \in DOMAIN plan : Turn(i) /\ \E status \in {"done", "failed"} :
                                               Attempted(i, status)
    BY <1>2 DEF ExecuteTask
  <2>2. PICK status \in {"done", "failed"} : Attempted(i, status)
    BY <2>1
  <2>3. i \in 1 .. Len(plan) /\ plan[i] \in Task
    BY <2>1, LenProperties, ElementOfSeq DEF KernelInv, PlanTyped
  <2>4. [status |-> status, attempts |-> plan[i].attempts + 1] \in Task
    BY <2>1, <2>3, KernelAssumption DEF KernelAssumption, Turn, Untried, Task, TaskStatus
  <2> QED
    BY <2>2, <2>3, <2>4, ExceptSeq DEF KernelInv, PlanTyped, Attempted
<1>3. CASE UNCHANGED plan
  BY <1>3 DEF KernelInv, PlanTyped
<1> QED
  BY <1>1, <1>2, <1>3 DEF Next, Run, Verify, Interpret, CancelledAtHead, BudgetSpent,
       Stops, EnsureAppRunning, StartProcess, ServeStatic, RunDeclaredSelfChecks,
       CheckFile, RunCommand, Ask, ObservePage, Answer, Decide, Repair, CleanUp,
       StopAll, Throws, UserCancels, Dies, kernelVars

-----------------------------------------------------------------------------
(* The processes, step by step.                                            *)

(* A kill leaves only processes that ran, and remembers them.              *)
LEMMA KillLeaves ==
    ASSUME NEW S, Kill(S), unkilled \subseteq running
    PROVE  /\ running' \subseteq running
           /\ unkilled' \subseteq running'
           /\ \A p \in running' : p \in S \cup unkilled => p \in unkilled'
  BY DEF Kill

(* A step that starts and stops nothing.                                   *)
LEMMA QuietStep ==
    ASSUME ProcessInv, UNCHANGED <<appVars, osVars>>,
           at' = at \/ at' \in {"body", "selfCheck"}
    PROVE  ProcessInv'
  BY DEF ProcessInv, ProcessesTyped, NoneIsLost, ServerIsKnown, StoppedAll, appVars,
       osVars

(* Stopping the application forgets it: what survives was killed.          *)
LEMMA StopStep ==
    ASSUME ProcessInv, StopApp, at' \in {"start", "cleaned"}
    PROVE  ProcessInv'
<1>1. /\ running' \subseteq running /\ unkilled' \subseteq running'
      /\ \A p \in running' : p \in (handles \cap {appProcessId}) \cup unkilled
                               => p \in unkilled'
  BY KillLeaves DEF StopApp, ProcessInv, ProcessesTyped
<1>2. ProcessesTyped'
  <2>1. servers' \in Nat
    BY DEF StopApp, ProcessInv, ProcessesTyped, ServerIsKnown
  <2> QED
    BY <1>1, <2>1 DEF StopApp, ProcessInv, ProcessesTyped
<1>3. NoneIsLost'
  BY <1>1 DEF StopApp, ProcessInv, NoneIsLost
<1>4. ServerIsKnown'
  BY KernelAssumption DEF KernelAssumption, StopApp, ProcessInv, ServerIsKnown,
       NoProcess, Static
<1> QED
  BY <1>2, <1>3, <1>4 DEF ProcessInv, StoppedAll

(* A started process is known, or was killed at once.                      *)
LEMMA StartStep == ASSUME ProcessInv, StartProcess PROVE ProcessInv'
<1>1. appProcessId # Static
  BY DEF ProcessInv, ServerIsKnown, StartProcess
<1>2. /\ at = "start" /\ at' \in {"static", "selfCheck"} /\ servers' = servers
  BY DEF StartProcess
<1>3. Static \notin Process
  BY KernelAssumption DEF KernelAssumption, Static, Process
<1>4. ASSUME NEW p \in Process, running' = running \cup {p}, handles' = handles \cup {p},
             appProcessId' = p, url' \in BOOLEAN, UNCHANGED unkilled
      PROVE  ProcessInv'
  BY <1>1, <1>2, <1>3, <1>4 DEF ProcessInv, ProcessesTyped, NoneIsLost, ServerIsKnown,
       StoppedAll
<1>5. ASSUME NEW p \in Process, running' = running \cup {p}, unkilled' = unkilled \cup {p},
             UNCHANGED <<handles, appVars>>
      PROVE  ProcessInv'
  BY <1>1, <1>2, <1>3, <1>5 DEF appVars, ProcessInv, ProcessesTyped, NoneIsLost,
                                ServerIsKnown, StoppedAll
<1>6. CASE UNCHANGED <<running, unkilled, handles, appVars>>
  BY <1>1, <1>2, <1>6 DEF appVars, ProcessInv, ProcessesTyped, NoneIsLost, ServerIsKnown,
                          StoppedAll
<1> QED
  BY <1>4, <1>5, <1>6 DEF StartProcess

(* A static server is started only where there is none.                    *)
LEMMA StaticStep == ASSUME ProcessInv, ServeStatic PROVE ProcessInv'
<1>1. /\ appProcessId # Static /\ servers = 0 /\ at' = "selfCheck"
      /\ UNCHANGED <<running, handles, unkilled>>
  BY DEF ServeStatic, ProcessInv, ServerIsKnown
<1>2. \/ servers' = 1 /\ appProcessId' = Static /\ url' = TRUE
      \/ servers' = 0 /\ appProcessId' = appProcessId /\ url' = FALSE
  BY <1>1 DEF ServeStatic
<1>3. ServerIsKnown'
  BY <1>1, <1>2 DEF ServerIsKnown
<1>4. ProcessesTyped'
  <2>1. url' \in BOOLEAN
    BY <1>2, ZenonT(20)
  <2>2. servers' \in Nat /\ appProcessId' \in Process \cup {NoProcess, Static}
    BY <1>2 DEF ProcessInv, ProcessesTyped
  <2> QED
    BY <1>1, <2>1, <2>2 DEF ProcessInv, ProcessesTyped
<1> QED
  BY <1>1, <1>3, <1>4 DEF ProcessInv, NoneIsLost, StoppedAll

(* The last sweep kills every process that has a handle.                   *)
LEMMA SweepStep == ASSUME ProcessInv, StopAll PROVE ProcessInv'
<1>1. /\ running' \subseteq running /\ unkilled' \subseteq running'
      /\ \A p \in running' : p \in handles \cup unkilled => p \in unkilled'
  BY KillLeaves DEF StopAll, ProcessInv, ProcessesTyped
<1>2. appProcessId # Static
  BY DEF StopAll, ProcessInv, ServerIsKnown
<1> QED
  BY <1>1, <1>2 DEF StopAll, appVars, ProcessInv, ProcessesTyped, NoneIsLost,
       ServerIsKnown, StoppedAll

(* A process that ends by itself needs no one to stop it.                  *)
LEMMA DeathStep == ASSUME ProcessInv, Dies PROVE ProcessInv'
  BY DEF Dies, appVars, ProcessInv, ProcessesTyped, NoneIsLost, ServerIsKnown, StoppedAll

(* No step loses sight of a process.                                       *)
LEMMA ProcessStep == ASSUME KernelInv, [Next]_kernelVars PROVE ProcessInv'
<1> USE DEF KernelInv
<1>1. CASE EnsureAppRunning
  <2>1. CASE at' = "start" /\ Known /\ StopApp
    BY <2>1, StopStep
  <2>2. CASE at' = "start" /\ ~Known /\ UNCHANGED <<appVars, osVars>>
    <3>1. appProcessId # Static
      BY <2>2, KernelAssumption DEF KernelAssumption, Known, ProcessInv, ServerIsKnown,
                                    Static, NoProcess
    <3> QED
      BY <3>1, <2>2 DEF appVars, osVars, ProcessInv, ProcessesTyped, NoneIsLost,
                        ServerIsKnown, StoppedAll
  <2>3. CASE at' = "selfCheck" /\ UNCHANGED <<appVars, osVars>>
    BY <2>3, QuietStep
  <2> QED
    BY <1>1, <2>1, <2>2, <2>3 DEF EnsureAppRunning
<1>2. CASE CleanUp
  <2>1. CASE appProcessId # NoProcess
    BY <1>2, <2>1, StopStep DEF CleanUp
  <2>2. CASE appProcessId = NoProcess
    <3>1. appProcessId # Static
      BY <2>2, KernelAssumption DEF KernelAssumption, Static, NoProcess
    <3> QED
      BY <1>2, <2>2, <3>1 DEF CleanUp, appVars, osVars, ProcessInv, ProcessesTyped,
                              NoneIsLost, ServerIsKnown, StoppedAll
  <2> QED
    BY <2>1, <2>2
<1>3. CASE StartProcess \/ ServeStatic \/ StopAll \/ Dies
  BY <1>3, StartStep, StaticStep, SweepStep, DeathStep
<1>4. CASE Interpret \/ BuildPlan \/ ExecuteTask \/ Repair \/ Decide
  BY <1>4, QuietStep DEF Interpret, BuildPlan, ExecuteTask, Repair, Decide
<1>5. CASE CancelledAtHead \/ BudgetSpent \/ Throws
  BY <1>5, QuietStep DEF CancelledAtHead, BudgetSpent, Throws, Stops, appVars, osVars
<1>6. CASE RunDeclaredSelfChecks \/ UserCancels \/ UNCHANGED kernelVars
  BY <1>6, QuietStep DEF RunDeclaredSelfChecks, UserCancels, kernelVars, appVars, osVars
<1>7. CASE Verify
  BY <1>7, QuietStep DEF Verify, CheckFile, RunCommand, Ask, ObservePage, Answer
<1> QED
  BY <1>1, <1>2, <1>3, <1>4, <1>5, <1>6, <1>7 DEF Next, Run

-----------------------------------------------------------------------------
(* What the run knows of the workspace, step by step.                      *)

(* What may fail is a matter of the contract alone.                        *)
LEMMA FingerprintsStay == ASSUME UNCHANGED required PROVE Fingerprints' = Fingerprints
  BY DEF Fingerprints

(* Thinking costs, and only costs.                                         *)
LEMMA ThinkTyped ==
    ASSUME RestTyped, NEW answered \in BOOLEAN, Think(answered)
    PROVE  cancelled' \in BOOLEAN /\ overBudget' \in BOOLEAN
  BY DEF RestTyped, Think

(* Interpretation fixes the contract, before anything is seen.             *)
LEMMA InterpretStep == ASSUME KernelInv, Interpret PROVE VerdictInv'
<1>1. cancelled' \in BOOLEAN /\ overBudget' \in BOOLEAN
  BY ThinkTyped DEF Interpret, KernelInv, VerdictInv, RestTyped, outside
<1>2. UNCHANGED <<supplied, at, good, startCommand, seen, repairs, checked, passed, spoilt>>
  BY DEF Interpret, countVars, resultVars
<1>3. /\ DOMAIN seen = {} /\ checked = {} /\ passed = {} /\ spoilt = {}
      /\ phase = "interpreting"
  BY DEF Interpret, KernelInv, VerdictInv, ResultsOfNow
<1>4. CASE /\ acceptance' \in Contract
           /\ required' \in SUBSET acceptance'
           /\ supplied \/ required' # {}
           /\ phase' = "planning"
           /\ UNCHANGED stopReason
  BY <1>1, <1>2, <1>3, <1>4, KernelAssumption DEF KernelAssumption, KernelInv,
       VerdictInv, RestTyped, ResultsOfNow, AtFits, DiskIsAsSeen, DerivedRequires,
       CompleteIsVerified, Running, Phase
<1>5. CASE Finish("impossible_environment") /\ UNCHANGED <<acceptance, required>>
  BY <1>1, <1>2, <1>3, <1>5, FingerprintsStay DEF KernelInv, VerdictInv, RestTyped,
       ResultsOfNow, AtFits, DiskIsAsSeen, DerivedRequires, CompleteIsVerified, Running,
       Phase, Finish, StopReason, None
<1> QED
  BY <1>4, <1>5 DEF Interpret

(* A plan is made of what the contract asks.                               *)
LEMMA PlanningStep == ASSUME KernelInv, BuildPlan PROVE VerdictInv'
<1>1. cancelled' \in BOOLEAN /\ overBudget' \in BOOLEAN
  BY ThinkTyped DEF BuildPlan, KernelInv, VerdictInv, RestTyped, outside
<1> QED
  BY <1>1, FingerprintsStay DEF BuildPlan, contractVars, countVars, resultVars, Phase,
       KernelInv, VerdictInv, RestTyped, ResultsOfNow, AtFits, DiskIsAsSeen,
       DerivedRequires, CompleteIsVerified, Running

(* A task may change the disk: nothing seen before it counts.              *)
LEMMA TaskStep == ASSUME KernelInv, ExecuteTask PROVE VerdictInv'
<1>1. cancelled' \in BOOLEAN /\ overBudget' \in BOOLEAN
  BY ThinkTyped DEF ExecuteTask, KernelInv, VerdictInv
<1>2. good' \subseteq DiskCriterion /\ startCommand' \in BOOLEAN
  BY DEF ExecuteTask, ApplyChangeSet, NoChangeSet, KernelInv, VerdictInv, RestTyped
<1>3. phase = "implementing"
      /\ UNCHANGED <<phase, stopReason, at, supplied, acceptance, required, seen,
                     repairs, checked, passed, spoilt>>
  BY DEF ExecuteTask, contractVars, countVars, resultVars
<1> QED
  BY <1>1, <1>2, <1>3, FingerprintsStay DEF KernelInv, VerdictInv, RestTyped,
       ResultsOfNow, AtFits, DiskIsAsSeen, DerivedRequires, CompleteIsVerified, Running

(* Every way of stopping without success.                                  *)
LEMMA StoppedStep ==
    ASSUME KernelInv, NEW reason \in StopReason \ {"verified_success"}, Running,
           Stops(reason)
    PROVE  VerdictInv'
<1>1. phase' = "stopped" /\ stopReason' = reason
  BY DEF Stops, Finish
<1>2. UNCHANGED <<at, supplied, acceptance, required, good, startCommand, seen, repairs,
                  checked, passed, spoilt, cancelled, overBudget>>
  BY DEF Stops, contractVars, countVars, resultVars, outside
<1> QED
  BY <1>1, <1>2, FingerprintsStay DEF KernelInv, VerdictInv, RestTyped, ResultsOfNow,
       AtFits, DiskIsAsSeen, DerivedRequires, CompleteIsVerified, Running, Phase,
       StopReason, None

(* Serving the application changes nothing that was seen.                  *)
LEMMA ServeStep ==
    ASSUME KernelInv, EnsureAppRunning \/ StartProcess \/ ServeStatic
    PROVE  VerdictInv'
<1>1. UNCHANGED <<stopReason, supplied, acceptance, required, good, startCommand, seen,
                  repairs, checked, passed, spoilt, cancelled, overBudget>>
  BY DEF EnsureAppRunning, StartProcess, ServeStatic, contractVars, countVars, resultVars,
         outside
<1>2. Running /\ phase \in {"repairing", "implementing", "running"}
  BY DEF EnsureAppRunning, StartProcess, ServeStatic, AtLoopHead, KernelInv, VerdictInv,
         AtFits, Running
<1>3. phase' = "running" /\ at' \in {"start", "static", "selfCheck"}
  BY <1>2 DEF EnsureAppRunning, StartProcess, ServeStatic, KernelInv, VerdictInv, AtFits
<1> QED
  BY <1>1, <1>2, <1>3, FingerprintsStay DEF KernelInv, VerdictInv, RestTyped,
       ResultsOfNow, AtFits, DiskIsAsSeen, DerivedRequires, CompleteIsVerified, Running,
       Phase, Place

(* The self-checks run before anything is judged.                          *)
LEMMA SelfCheckStep == ASSUME KernelInv, RunDeclaredSelfChecks PROVE VerdictInv'
<1>1. phase = "running" /\ phase' = "verifying" /\ at' = "body"
  BY DEF RunDeclaredSelfChecks, KernelInv, VerdictInv, AtFits, Running
<1>2. good' \subseteq DiskCriterion
  BY DEF RunDeclaredSelfChecks, KernelInv, VerdictInv, RestTyped
<1> QED
  BY <1>1, <1>2, FingerprintsStay DEF RunDeclaredSelfChecks, contractVars, countVars,
       resultVars, outside, KernelInv, VerdictInv, RestTyped, ResultsOfNow, AtFits,
       DiskIsAsSeen, DerivedRequires, CompleteIsVerified, Running, Phase, Place

(* A check of files passes only if they satisfy it, and a command that     *)
(* undoes it leaves it spoilt.                                             *)
LEMMA VerifyStep == ASSUME KernelInv, Verify PROVE VerdictInv'
<1>1. PICK S, ok :
        /\ Answer(S, ok) /\ S \subseteq acceptance /\ ok \subseteq S
        /\ \/ ok \cap DiskCriterion \subseteq good /\ UNCHANGED <<good, spoilt>>
           \/ ok \cap DiskCriterion = {} /\ RunCommand
  <2>1. CASE CheckFile
    BY <2>1 DEF CheckFile, Pending
  <2>2. CASE RunCommand
    <3>1. PICK c \in Pending \cap CommandCriterion : \E ok \in SUBSET {c} : Answer({c}, ok)
      BY <2>2 DEF RunCommand
    <3>2. PICK ok \in SUBSET {c} : Answer({c}, ok)
      BY <3>1
    <3>3. ok \cap DiskCriterion = {} /\ c \in acceptance
      BY <3>1, KernelAssumption DEF KernelAssumption, Pending
    <3> QED
      BY <2>2, <3>2, <3>3
  <2>3. CASE Ask
    BY <2>3, KernelAssumption DEF KernelAssumption, Ask, Pending, Passable, AppCriterion
  <2>4. CASE ObservePage
    BY <2>4, KernelAssumption DEF KernelAssumption, ObservePage, Pending, Passable,
                                  AppCriterion, PageCriterion
  <2> QED
    BY <2>1, <2>2, <2>3, <2>4 DEF Verify
<1>2. /\ phase = "verifying" /\ checked' = checked \cup S /\ passed' = passed \cup ok
      /\ UNCHANGED <<phase, stopReason, at, supplied, acceptance, required, startCommand,
                     seen, repairs, cancelled, overBudget>>
  BY <1>1 DEF Answer, contractVars, countVars, outside
<1>3. good' \subseteq DiskCriterion /\ spoilt' \subseteq passed'
  BY <1>1, <1>2 DEF RunCommand, KernelInv, VerdictInv, RestTyped
<1>4. passed' \cap DiskCriterion \subseteq good' \cup spoilt'
  BY <1>1, <1>2 DEF RunCommand, KernelInv, VerdictInv, DiskIsAsSeen
<1> QED
  BY <1>1, <1>2, <1>3, <1>4, FingerprintsStay DEF KernelInv, VerdictInv, RestTyped,
       ResultsOfNow, AtFits, DiskIsAsSeen, DerivedRequires, CompleteIsVerified, Running

(* The decision is taken on what was seen of the present disk.             *)
LEMMA DecideStep == ASSUME KernelInv, Decide PROVE VerdictInv'
<1>1. UNCHANGED <<supplied, acceptance, required, good, startCommand, at, cancelled,
                  overBudget>>
  BY DEF Decide, contractVars, outside
<1>2. phase = "verifying" /\ Running
  BY DEF Decide, Running
<1>3. CASE VerificationPassed
  BY <1>1, <1>2, <1>3, FingerprintsStay DEF Decide, VerificationPassed, Finish,
       countVars, resultVars, Phase, StopReason, None, KernelInv, VerdictInv, RestTyped,
       ResultsOfNow, AtFits, DiskIsAsSeen, DerivedRequires, CompleteIsVerified, Running
<1>4. CASE ~VerificationPassed
  <2>1. checked' = {} /\ passed' = {} /\ spoilt' = {}
    BY <1>4 DEF Decide
  <2>2. PICK f \in Fingerprint :
            IF Exhausted(f)
            THEN Finish("retry_exhausted") /\ UNCHANGED countVars
            ELSE Tally(f) /\ phase' = "diagnosing" /\ UNCHANGED stopReason
    BY <1>4 DEF Decide
  <2>3. CASE Exhausted(f)
    BY <1>1, <1>2, <2>1, <2>2, <2>3, FingerprintsStay DEF Finish, countVars, Phase,
         StopReason, None, KernelInv, VerdictInv, RestTyped, ResultsOfNow, AtFits,
         DiskIsAsSeen, DerivedRequires, CompleteIsVerified, Running
  <2>4. CASE ~Exhausted(f)
    <3>1. Tally(f) /\ phase' = "diagnosing" /\ UNCHANGED stopReason
      BY <2>2, <2>4
    <3>2. repairs' \in 0 .. maxRepairAttempts
      BY <3>1, <2>4, KernelAssumption DEF KernelAssumption, Tally, Exhausted, KernelInv,
                                          VerdictInv, RestTyped
    <3>3. Times(f) \in Nat /\ Times(f) + 1 <= IDENTICAL_FAILURE_LIMIT
      BY <2>4, KernelAssumption DEF KernelAssumption, Times, Exhausted, KernelInv,
                                    VerdictInv, RestTyped
    <3>4. DOMAIN seen' \subseteq Fingerprints'
      <4>1. Failing \in SUBSET required
        BY DEF Failing
      <4>2. f \in Fingerprints
        BY <4>1 DEF Fingerprint, Fingerprints
      <4>3. DOMAIN seen' = DOMAIN seen \cup {f}
        BY <3>1 DEF Tally
      <4>4. Fingerprints' = Fingerprints
        BY <1>1 DEF Fingerprints
      <4> QED
        BY <4>2, <4>3, <4>4 DEF KernelInv, VerdictInv, RestTyped
    <3>5. ASSUME NEW g \in DOMAIN seen' PROVE seen'[g] \in 1 .. IDENTICAL_FAILURE_LIMIT
      <4>1. g \in DOMAIN seen \cup {f} /\ seen'[g] = IF g = f THEN Times(f) + 1 ELSE seen[g]
        BY <3>1 DEF Tally
      <4>2. CASE g = f
        BY <4>1, <4>2, <3>3, KernelAssumption DEF KernelAssumption
      <4>3. CASE g # f
        BY <4>1, <4>3 DEF KernelInv, VerdictInv, RestTyped
      <4> QED
        BY <4>2, <4>3
    <3> QED
      BY <1>1, <1>2, <2>1, <3>1, <3>2, <3>4, <3>5, FingerprintsStay DEF KernelInv,
           VerdictInv, RestTyped, ResultsOfNow, AtFits, DiskIsAsSeen, DerivedRequires,
           CompleteIsVerified, Running, Phase
  <2> QED
    BY <2>3, <2>4
<1> QED
  BY <1>3, <1>4

(* A repair changes the disk and is not a decision.                        *)
LEMMA RepairStep == ASSUME KernelInv, Repair PROVE VerdictInv'
<1>1. cancelled' \in BOOLEAN /\ overBudget' \in BOOLEAN
  BY ThinkTyped DEF Repair, KernelInv, VerdictInv
<1>2. good' \subseteq DiskCriterion /\ startCommand' \in BOOLEAN
  BY DEF Repair, ApplyChangeSet, NoChangeSet, KernelInv, VerdictInv, RestTyped
<1>3. /\ phase = "diagnosing"
      /\ UNCHANGED <<at, supplied, acceptance, required, seen, repairs, checked, passed,
                     spoilt>>
  BY DEF Repair, contractVars, countVars, resultVars
<1>4. \/ phase' = "repairing" /\ UNCHANGED stopReason
      \/ phase' = "stopped" /\ stopReason' = "retry_exhausted"
  BY DEF Repair, Finish
<1> QED
  BY <1>1, <1>2, <1>3, <1>4, FingerprintsStay DEF KernelInv, VerdictInv, RestTyped,
       ResultsOfNow, AtFits, DiskIsAsSeen, DerivedRequires, CompleteIsVerified, Running,
       Phase, StopReason, None

(* Stopping processes, and what happens outside, changes no verdict.       *)
LEMMA EndingStep ==
    ASSUME KernelInv, CleanUp \/ StopAll \/ UserCancels \/ Dies \/ UNCHANGED kernelVars
    PROVE  VerdictInv'
<1>1. /\ UNCHANGED <<phase, stopReason, supplied, acceptance, required, good, startCommand,
                     seen, repairs, checked, passed, spoilt, overBudget>>
      /\ cancelled' \in BOOLEAN
  BY DEF CleanUp, StopAll, UserCancels, Dies, kernelVars, contractVars, countVars,
         resultVars, outside, KernelInv, VerdictInv, RestTyped
<1>2. at' = at \/ (~Running /\ at' \in {"cleaned", "ended"})
  BY DEF CleanUp, StopAll, UserCancels, Dies, kernelVars, KernelInv, VerdictInv, AtFits
<1> QED
  BY <1>1, <1>2, FingerprintsStay DEF KernelInv, VerdictInv, RestTyped, ResultsOfNow,
       AtFits, DiskIsAsSeen, DerivedRequires, CompleteIsVerified, Running, Place

(* No step of a run leaves the invariant.                                  *)
LEMMA KernelInvStep == KernelInv /\ [Next]_kernelVars => KernelInv'
<1> SUFFICES ASSUME KernelInv, [Next]_kernelVars PROVE VerdictInv'
  BY PlanStep, ProcessStep DEF KernelInv
<1>1. CASE CancelledAtHead \/ BudgetSpent \/ Throws
  <2>1. Running
    BY <1>1 DEF CancelledAtHead, BudgetSpent, Throws, AtLoopHead, AtNextTask, Running
  <2>2. \E reason \in StopReason \ {"verified_success"} : Stops(reason)
    BY <1>1 DEF CancelledAtHead, BudgetSpent, Throws, StopReason
  <2> QED
    BY <2>1, <2>2, StoppedStep
<1>2. CASE Interpret \/ BuildPlan \/ ExecuteTask \/ EnsureAppRunning \/ StartProcess
             \/ ServeStatic \/ RunDeclaredSelfChecks
  BY <1>2, InterpretStep, PlanningStep, TaskStep, ServeStep, SelfCheckStep
<1>3. CASE Verify \/ Decide \/ Repair
  BY <1>3, VerifyStep, DecideStep, RepairStep
<1>4. CASE CleanUp \/ StopAll \/ UserCancels \/ Dies \/ UNCHANGED kernelVars
  BY <1>4, EndingStep
<1> QED
  BY <1>1, <1>2, <1>3, <1>4 DEF Next, Run

(* The strengthened invariant holds throughout every run.                  *)
THEOREM RunsKeepInv == KernelSpec => []KernelInv
  BY KernelInvInit, KernelInvStep, PTL DEF KernelSpec

(* The run keeps its types and its limits: no task, repair or failure is   *)
(* tried more often than the options allow (kernel.ts, run).               *)
THEOREM KernelTypeCorrect == KernelSpec => []KernelTypeOK
<1>1. KernelInv => KernelTypeOK
  BY TypedInParts DEF KernelInv, VerdictInv, ProcessInv
<1> QED
  BY <1>1, RunsKeepInv, PTL

(* A run that ends with verified_success has seen every required criterion *)
(* pass, and of the files it leaves only the commands of that verification *)
(* may have changed what was seen (kernel.ts, run; evaluate.ts).           *)
THEOREM SuccessIsEarned == KernelSpec => []VerdictIsEarned
<1>1. KernelInv => VerdictIsEarned
  BY DEF KernelInv, VerdictInv, VerdictIsEarned, CompleteIsVerified, DiskIsAsSeen,
         DerivedRequires
<1> QED
  BY <1>1, RunsKeepInv, PTL

(* Whichever way a run ends, no server outlives it, and no process but one *)
(* that was killed to no effect: none is forgotten (kernel.ts,             *)
(* ensureAppRunning, stopApp, cleanup; runtime.ts, stopAll).               *)
THEOREM NothingOutlivesTheRun == KernelSpec => []NothingLeftRunning
<1>1. KernelInv => NothingLeftRunning
  <2>1. ASSUME KernelInv, at = "ended" PROVE servers = 0 /\ running \subseteq unkilled
    BY <2>1 DEF KernelInv, ProcessInv, NoneIsLost, ServerIsKnown, StoppedAll
  <2> QED
    BY <2>1 DEF NothingLeftRunning
<1> QED
  BY <1>1, RunsKeepInv, PTL

-----------------------------------------------------------------------------
(* The refinement of Objective, but for its liveness.                      *)

(* The run starts as its promise does.                                     *)
LEMMA PromiseInit == Init => Promise!Init
  BY DEF Init, Promise!Init, Proven, Outcome, None

(* Once a run has a reason to stop, neither the reason nor what it proved  *)
(* changes.                                                                *)
LEMMA OverIsOver ==
    ASSUME KernelInv, [Next]_kernelVars, ~Running
    PROVE  UNCHANGED <<Proven, Outcome>>
<1>1. UNCHANGED <<phase, stopReason, required, passed, good, spoilt>>
  BY DEF Next, Run, Verify, Interpret, BuildPlan, ExecuteTask, CancelledAtHead,
       BudgetSpent, EnsureAppRunning, StartProcess, ServeStatic, RunDeclaredSelfChecks,
       CheckFile, RunCommand, Ask, ObservePage, Answer, Decide, Repair, CleanUp,
       StopAll, Throws, UserCancels, Dies, AtLoopHead, AtNextTask, Running, kernelVars,
       contractVars, resultVars
<1> QED
  BY <1>1 DEF Proven, Outcome

(* A step of a run that goes on: the objective stays open, succeeds on     *)
(* what is proven, or is given up.                                         *)
LEMMA PromiseOpenStep ==
    ASSUME KernelInv, [Next]_kernelVars, Running
    PROVE  [Promise!Next]_(Promise!objectiveVars)
<1>0. Proven \in BOOLEAN /\ Proven' \in BOOLEAN /\ Outcome = None
  BY DEF Proven, KernelInv, VerdictInv, RestTyped, Outcome, None
<1>1. KernelInv'
  BY KernelInvStep
<1>2. CASE Outcome' = None
  BY <1>0, <1>2 DEF Promise!Next, Promise!Verify, None
<1>3. CASE Outcome' = "verified_success"
  <2>1. Decide /\ VerificationPassed /\ Finish("verified_success")
    BY <1>0, <1>3 DEF Next, Run, Verify, Interpret, BuildPlan, ExecuteTask,
         CancelledAtHead, BudgetSpent, Stops, EnsureAppRunning, StartProcess,
         ServeStatic, RunDeclaredSelfChecks, CheckFile, RunCommand, Ask, ObservePage,
         Answer, Decide, Repair, CleanUp, StopAll, Throws, UserCancels, Dies,
         kernelVars, Finish, Outcome, None
  <2>2. Proven /\ Proven'
    BY <2>1 DEF Decide, VerificationPassed, Finish, Proven, KernelInv, VerdictInv,
                DiskIsAsSeen, contractVars, resultVars
  <2> QED
    BY <1>0, <1>3, <2>2 DEF Promise!Next, Promise!Succeed, None
<1>4. CASE Outcome' = "failure"
  <2>1. ~Proven'
    BY <1>1, <1>4 DEF Outcome, Proven, KernelInv, VerdictInv, CompleteIsVerified,
         RestTyped, Running, None
  <2> QED
    BY <1>0, <1>4, <2>1 DEF Promise!Next, Promise!GiveUp, None
<1> QED
  BY <1>2, <1>3, <1>4 DEF Outcome, None

(* Every step of a run is a step of its objective, or none of it.          *)
LEMMA PromiseStep ==
    ASSUME KernelInv, [Next]_kernelVars
    PROVE  [Promise!Next]_(Promise!objectiveVars)
  BY OverIsOver, PromiseOpenStep DEF Promise!objectiveVars

(* A run does what its objective allows: the workspace changes, and it     *)
(* ends with success only on a verification that nothing but the commands  *)
(* it ran itself followed, or gives up (kernel.ts, run; evaluate.ts).      *)
(* That it ends is left to model checking.                                 *)
THEOREM RunsAreObjectives ==
    KernelSpec => Promise!Init /\ [][Promise!Next]_(Promise!objectiveVars)
  BY PromiseInit, PromiseStep, RunsKeepInv, PTL DEF KernelSpec
===============================================================================
