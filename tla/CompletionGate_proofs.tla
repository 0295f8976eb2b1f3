-------------------------- MODULE CompletionGate_proofs --------------------------
(***************************************************************************)
(* Theorems on the completion gate, for every kind of turn, any number of  *)
(* requests and repairs, and any number of changes by anyone.              *)
(***************************************************************************)
EXTENDS CompletionGate, TLAPS

InGate == stage \in {"contract", "checked", "smoke", "evidence", "audit", "pages", "hook"}

(* GateTypeOK says nothing of the fields of the contract's receipt.        *)
LatestTyped ==
    latest # None => /\ latest.outcome \in {"passed", "failed", "unrunnable"}
                     /\ latest.stable \in BOOLEAN

(* No receipt is of a content that is still to come.                       *)
StampsAreOld ==
    /\ latest # None => latest.at.state <= files
    /\ lastPassingCheck # None => lastPassingCheck.state <= files
    /\ independentPass # None => independentPass.state <= files
    /\ lastSmoke # None => lastSmoke.at.state <= files
    /\ candidate # None => candidate <= files

(* What the gate compares was seen before it read the workspace.           *)
ReadAfterReceipts ==
    InGate => /\ lastPassingCheck # None => lastPassingCheck.state <= endState
              /\ lastSmoke # None => lastSmoke.at.state <= endState

(* A check of the host means that something was changed.                   *)
HostChecked == checkedNote \/ contractPassed \/ independentPass # None \/ independentPending

ChecksFollowChanges ==
    /\ HostChecked => (events > 0 \/ files # 0) /\ (InGate => Mutated)
    /\ stage = "checked" => Mutated

ContractIsTrusted == checkedNote \/ contractPassed => Trusted

(* Documents alone never get past the request for evidence.                *)
DocumentsStop == stage \in {"audit", "pages", "hook"} => ~DocumentsOnly

(* Who runs a check in which stage.                                        *)
RunByStage ==
    /\ stage = "working" /\ run # None => run.by \in {"project", "command"}
    /\ stage = "contract" /\ run # None => ContractApplies
    /\ stage \notin {"working", "contract"} => run = None

(* A receipt of the present content stands for an observation of it, if no *)
(* sub-agent edits behind its own check.                                   *)
SeenIsObserved == ~ChildEdits =>
    /\ latest # None /\ latest.outcome = "passed" /\ latest.stable
         /\ latest.at.state = files /\ Trusted => "project" \in observed
    /\ lastPassingCheck # None /\ lastPassingCheck.state = files =>
         "project" \in observed \/ "command" \in observed
    /\ independentPass # None /\ independentPass.state = files => "independent" \in observed
    /\ lastSmoke # None /\ lastSmoke.seen = "passed" /\ lastSmoke.at.state = files =>
         "page" \in observed

(* What VerifiedIsObserved asks of a turn that is over.                    *)
SeenEnough ==
    /\ observed # {}
    /\ turn.contract = "project" /\ ~turn.documents /\ files # 0 => "project" \in observed
    /\ summary \subseteq observed

(* A verdict of success is reached at the end, and stands on what was seen *)
(* as long as the candidate is the content.                                *)
DecidedIsObserved ==
    status = "verified" =>
        /\ stage \in {"learning", "over"} /\ verdicts = 0
        /\ ~ChildEdits /\ candidate = files => SeenEnough
        /\ stage = "over" => candidate = files

(* Verdicts against the turn end it, but for that on its pages.            *)
VerdictsByStage ==
    /\ stage \notin {"hook", "learning", "over"} => verdicts = 0 /\ ~pagesBroken
    /\ stage = "hook" /\ verdicts # 0 => pagesBroken

OverIsCertain == Over("verified") => ~uncertain /\ ~invalidated /\ ~aborted

GateInv ==
    /\ GateTypeOK /\ LatestTyped
    /\ StampsAreOld /\ ReadAfterReceipts /\ ChecksFollowChanges /\ ContractIsTrusted
    /\ DocumentsStop /\ RunByStage /\ SeenIsObserved
    /\ DecidedIsObserved /\ VerdictsByStage /\ OverIsCertain

-----------------------------------------------------------------------------
(* Which steps touch what.                                                 *)
USE DEF GateNext, Works, Gate, gateVars, workspace, receipts, smokes, audits, retries,
        reading, checks, ending, doubts, Edit, RunsCheck, CheckEnds, Delegate,
        OutsideChanges, Aborts, BecomesUncertain, Goes, Leaves, AsksAgain, NotVerified,
        Cancelled, HostStopped, EntersGate, NoContract, ReusesRun, HostRuns, HostRunEnds,
        ContractPasses, ContractCouldNotRun, ContractFails, OpensApp, AppWorks, AppFails,
        HasEvidence, NeedsEvidence, MemoryUnapplied, Audits, RunsIndependentAgain,
        Audited, AsksPages, StopHookBlocks, Decides, Finishes

(* The actions that change the workspace, each receipt and each counter;   *)
(* any other step leaves it alone.                                         *)
LEMMA Frame ==
    ASSUME [GateNext]_gateVars
    PROVE  /\ turn' = turn
           /\ Edit \/ Delegate \/ OutsideChanges \/ UNCHANGED workspace
           /\ RunsCheck \/ CheckEnds \/ Cancelled \/ HostRuns \/ HostRunEnds \/ UNCHANGED run
           /\ CheckEnds \/ HostRunEnds \/ UNCHANGED latest
           /\ CheckEnds \/ Delegate \/ UNCHANGED lastPassingCheck
           /\ OpensApp \/ UNCHANGED lastSmoke
           /\ Audits \/ RunsIndependentAgain \/ UNCHANGED <<independentPass, independentPending>>
           /\ Audits \/ UNCHANGED requirementAudit
           /\ ContractFails \/ NeedsEvidence \/ UNCHANGED verificationRetries
           /\ AppFails \/ UNCHANGED smokeRepairs
           /\ AsksPages \/ UNCHANGED pagesBroken
           /\ Decides \/ UNCHANGED <<candidate, summary>>
  OBVIOUS

(* The actions that change what one pass of the gate read or found.        *)
LEMMA FrameOfPass ==
    ASSUME [GateNext]_gateVars
    PROVE  /\ \/ HostRunEnds \/ ContractPasses \/ ContractCouldNotRun \/ ContractFails
              \/ UNCHANGED checks
           /\ EntersGate \/ endState' \in {0, endState}
           /\ EntersGate \/ unverified' \in {FALSE, unverified}
           /\ ContractCouldNotRun \/ couldNotRun' \in {FALSE, couldNotRun}
           /\ ReusesRun \/ HostRunEnds \/ result' \in {None, result}
  OBVIOUS

(* The actions that change what the turn keeps from pass to pass.          *)
LEMMA FrameOfTurn ==
    ASSUME [GateNext]_gateVars
    PROVE  /\ \/ HostStopped \/ EntersGate \/ ContractFails \/ MemoryUnapplied \/ AsksPages
              \/ UNCHANGED nudged
           /\ \/ CheckEnds \/ Delegate \/ ContractPasses \/ OpensApp
              \/ UNCHANGED evidence
           /\ \/ Edit \/ OutsideChanges \/ CheckEnds \/ Delegate \/ HostRunEnds
              \/ OpensApp \/ Audits \/ RunsIndependentAgain \/ UNCHANGED observed
           /\ verdicts' \in {verdicts, verdicts + 1}
  OBVIOUS

(* A doubt that has come up stays.                                         *)
LEMMA FrameOfEnd ==
    ASSUME [GateNext]_gateVars
    PROVE  /\ uncertain' \in {uncertain, TRUE} /\ invalidated' \in {invalidated, TRUE}
           /\ aborted' \in {aborted, TRUE}
  OBVIOUS

(* Only the decision and the end of the turn can make it verified.         *)
LEMMA FrameOfStatus ==
    ASSUME [GateNext]_gateVars
    PROVE  \/ Decides \/ Finishes \/ status' \in {"unverified", "blocked"}
           \/ UNCHANGED status
  OBVIOUS

-----------------------------------------------------------------------------
(* The stages.                                                             *)

(* Where the turn goes from where.                                         *)
LEMMA EntersContract ==
    ASSUME [GateNext]_gateVars
    PROVE  stage' = "contract" => stage \in {"contract", "working"}
  BY DEF Working

(* Whoever comes to the audit, the pages or the hook had its evidence.      *)
LEMMA EntersAudit ==
    ASSUME [GateNext]_gateVars
    PROVE  stage' \in {"audit", "pages", "hook"} =>
              stage \in {"audit", "pages", "hook"} \/ HasEvidence
  BY DEF Working

(* Back to the model no check is taken along from another stage.           *)
LEMMA Returns ==
    ASSUME [GateNext]_gateVars
    PROVE  stage' = "working" /\ stage # "working" => UNCHANGED run /\ stage # "contract"
  BY DEF Working

(* No check of the model's is still running when its round ends.           *)
LEMMA LeavesWork ==
    ASSUME [GateNext]_gateVars
    PROVE  stage = "working" /\ stage' # "working" => run' = None \/ (run' = run /\ run = None)
  BY DEF Working

(* Past the contract nothing runs.                                         *)
LEMMA RunsOutsideWork ==
    ASSUME [GateNext]_gateVars, stage' \notin {"working", "contract"}
    PROVE  run' = None \/ (run' = run /\ (stage = "working" => run = None)
                                      /\ (stage = "contract" => ~ContractApplies \/ run = None))
  BY DEF Working

(* What a pass of the contract is decided on was checked in this pass.     *)
LEMMA EntersChecked ==
    ASSUME [GateNext]_gateVars
    PROVE  stage' = "checked" => stage = "checked" \/ ReusesRun \/ HostRunEnds
  BY DEF Working

(* A turn that learns only finishes, one that is over stays as it is.      *)
LEMMA LateSteps ==
    ASSUME [GateNext]_gateVars
    PROVE  /\ stage = "learning" =>
                Finishes \/ UNCHANGED <<stage, status, verdicts, candidate, summary>>
           /\ stage' = "over" => Finishes \/ stage = "over"
           /\ stage = "over" => UNCHANGED <<stage, status, verdicts, candidate, summary,
                                           edits, outside, observed, doubts>>
  BY DEF Working

(* A verdict against the turn ends it, but for that on its pages.          *)
LEMMA VerdictSteps ==
    ASSUME [GateNext]_gateVars
    PROVE  /\ stage' \notin {"hook", "learning", "over"} =>
                /\ stage \notin {"hook", "learning", "over"}
                /\ UNCHANGED <<verdicts, pagesBroken>>
           /\ stage' = "hook" => /\ stage \in {"hook", "pages"}
                                 /\ UNCHANGED verdicts \/ pagesBroken' = TRUE
                                 /\ stage = "hook" => UNCHANGED <<verdicts, pagesBroken>>
  BY DEF Working

HIDE DEF GateNext, Works, Gate, gateVars, workspace, receipts, smokes, audits, retries,
        reading, checks, ending, doubts, Edit, RunsCheck, CheckEnds, Delegate,
        OutsideChanges, Aborts, BecomesUncertain, Goes, Leaves, AsksAgain, NotVerified,
        Cancelled, HostStopped, EntersGate, NoContract, ReusesRun, HostRuns, HostRunEnds,
        ContractPasses, ContractCouldNotRun, ContractFails, OpensApp, AppWorks, AppFails,
        HasEvidence, NeedsEvidence, MemoryUnapplied, Audits, RunsIndependentAgain,
        Audited, AsksPages, StopHookBlocks, Decides, Finishes

(* In the gate the reading stands, and the turn changes nothing itself.    *)
LEMMA GateReads ==
    ASSUME [GateNext]_gateVars, InGate'
    PROVE  \/ /\ EntersGate /\ stage = "working" /\ stage' = "contract"
              /\ endState' = files /\ UNCHANGED workspace
           \/ InGate /\ UNCHANGED <<endState, unverified, events, edits>>
  BY DEF GateNext, Works, Gate, gateVars, workspace, reading, InGate, Working, Edit,
         RunsCheck, CheckEnds, Delegate, OutsideChanges, Aborts, BecomesUncertain, Goes,
         Leaves, AsksAgain, NotVerified, Cancelled, HostStopped, EntersGate, NoContract,
         ReusesRun, HostRuns, HostRunEnds, ContractPasses, ContractCouldNotRun,
         ContractFails, OpensApp, AppWorks, AppFails, HasEvidence, NeedsEvidence,
         MemoryUnapplied, Audits, RunsIndependentAgain, Audited, AsksPages,
         StopHookBlocks, Decides, Finishes

-----------------------------------------------------------------------------
(* The type invariant, part by part.                                       *)

(* Sums of numbers that do not shrink do not shrink.                       *)
LEMMA SumGrows ==
    ASSUME NEW a \in Nat, NEW b \in Nat, NEW c \in Nat, NEW d \in Nat, c >= a, d >= b
    PROVE  a + b \in Nat /\ c + d \in Nat /\ c + d >= a + b
             /\ (c # a \/ d # b => c + d > a + b)
  OBVIOUS

(* Events never outnumber edits, and the gate never reads ahead.           *)
LEMMA WorkspaceTyped ==
    ASSUME GateTypeOK, [GateNext]_gateVars
    PROVE  /\ events' \in 0 .. edits' /\ edits' \in 0 .. MaxEdits
           /\ outside' \in 0 .. MaxOutside /\ files' \in Nat /\ files' >= files
           /\ endState' \in 0 .. files' /\ events' >= events
<1>1. events \in Nat /\ edits \in Nat /\ outside \in Nat /\ events <= edits
      /\ endState \in 0 .. edits + outside /\ edits <= MaxEdits /\ outside <= MaxOutside
  BY GateAssumption DEF GateAssumption, GateTypeOK, files
<1>2. /\ edits' \in {edits, edits + 1} /\ outside' \in {outside, outside + 1}
      /\ events' \in {events, events + 1} /\ (edits' = edits => events' = events)
      /\ edits' <= MaxEdits /\ outside' <= MaxOutside
  <2>1. CASE Edit
    BY <1>1, <2>1, GateAssumption DEF GateAssumption, Edit
  <2>2. CASE Delegate
    BY <1>1, <2>2, GateAssumption DEF GateAssumption, Delegate
  <2>3. CASE OutsideChanges
    BY <1>1, <2>3, GateAssumption DEF GateAssumption, OutsideChanges
  <2>4. CASE UNCHANGED workspace
    BY <1>1, <2>4 DEF workspace
  <2> QED
    BY <2>1, <2>2, <2>3, <2>4, Frame
<1>3. files \in Nat /\ files' \in Nat /\ files' >= files
  <2>1. edits' \in Nat /\ edits' >= edits /\ outside' \in Nat /\ outside' >= outside
    BY <1>1, <1>2
  <2> QED
    BY <1>1, <2>1, SumGrows DEF files
<1>4. endState' \in {0, endState} \/ (endState' = files /\ UNCHANGED workspace)
  <2>1. EntersGate => endState' = 0 \/ (endState' = files /\ UNCHANGED workspace)
    BY DEF EntersGate, AsksAgain, NotVerified, Leaves
  <2> QED
    BY <2>1, FrameOfPass
<1>5. endState' \in 0 .. files'
  BY <1>1, <1>3, <1>4 DEF files, workspace
<1>6. events' \in 0 .. edits' /\ events' >= events
  BY <1>1, <1>2
<1> QED
  BY <1>1, <1>2, <1>3, <1>5, <1>6, GateAssumption DEF GateAssumption

(* Every receipt is stamped with a state and a number of events.           *)
LEMMA ReceiptsTyped ==
    ASSUME GateTypeOK, LatestTyped, [GateNext]_gateVars
    PROVE  /\ run' # None => run'.by \in {"project", "command", "host"}
                             /\ run'.before \in 0 .. files'
           /\ latest' # None => latest'.at \in Pass
           /\ LatestTyped'
           /\ \A pass \in {lastPassingCheck', independentPass'} : pass # None => pass \in Pass
           /\ lastSmoke' # None => lastSmoke'.at \in Pass
           /\ requirementAudit' # None => requirementAudit'.events \in 0 .. events'
<1>1. /\ files \in Nat /\ files' \in Nat /\ files' >= files
      /\ events \in Nat /\ events' \in Nat /\ events' >= events /\ endState \in Nat
  BY WorkspaceTyped, GateAssumption DEF GateAssumption, GateTypeOK, files
<1>2. Stamp(files) \in Pass /\ Stamp(endState) \in Pass /\ Stamp(files)' \in Pass
  BY <1>1 DEF Stamp, Pass
<1>3. run' # None => run'.by \in {"project", "command", "host"} /\ run'.before \in 0 .. files'
  <2>1. CASE RunsCheck \/ HostRuns
    BY <2>1, <1>1 DEF RunsCheck, HostRuns
  <2>2. CASE CheckEnds \/ Cancelled \/ HostRunEnds
    BY <2>2 DEF CheckEnds, Cancelled, HostRunEnds
  <2>3. CASE UNCHANGED run
    BY <2>3, <1>1 DEF GateTypeOK
  <2> QED
    BY <2>1, <2>2, <2>3, Frame
<1>4. (latest' # None => latest'.at \in Pass) /\ LatestTyped'
  <2>1. ASSUME NEW outcome \in {"passed", "failed", "unrunnable"}, NEW before,
               latest' = Receipt(outcome, before)
        PROVE  latest'.at \in Pass /\ LatestTyped'
    BY <2>1, <1>2 DEF Receipt, LatestTyped
  <2>2. CASE CheckEnds
    <3>1. latest' = latest \/ latest' = Receipt("passed", run.before)
                           \/ latest' = Receipt("failed", run.before)
      BY <2>2 DEF CheckEnds
    <3> QED
      BY <3>1, <2>1 DEF GateTypeOK, LatestTyped
  <2>3. CASE HostRunEnds
    <3>1. PICK outcome \in {"passed", "failed", "unrunnable"} :
            latest' = Receipt(outcome, run.before)
      BY <2>3 DEF HostRunEnds
    <3> QED
      BY <3>1, <2>1
  <2>4. CASE UNCHANGED latest
    BY <2>4 DEF GateTypeOK, LatestTyped
  <2> QED
    BY <2>2, <2>3, <2>4, Frame
<1>5. lastPassingCheck' # None => lastPassingCheck' \in Pass
  <2>1. CASE CheckEnds
    BY <2>1, <1>2 DEF CheckEnds, GateTypeOK
  <2>2. CASE Delegate
    <3>1. lastPassingCheck' = [state |-> files', events |-> events]
      BY <2>2 DEF Delegate, Stamp
    <3> QED
      BY <3>1, <1>1 DEF Pass
  <2>3. CASE UNCHANGED lastPassingCheck
    BY <2>3 DEF GateTypeOK
  <2> QED
    BY <2>1, <2>2, <2>3, Frame
<1>6. independentPass' # None => independentPass' \in Pass
  BY <1>2, Frame DEF Audits, RunsIndependentAgain, GateTypeOK
<1>7. lastSmoke' # None => lastSmoke'.at \in Pass
  BY <1>2, Frame DEF OpensApp, GateTypeOK
<1>8. requirementAudit' # None => requirementAudit'.events \in 0 .. events'
  <2>1. CASE Audits
    BY <2>1, <1>1 DEF Audits, workspace
  <2>2. CASE UNCHANGED requirementAudit
    BY <2>2, <1>1 DEF GateTypeOK
  <2> QED
    BY <2>1, <2>2, Frame
<1> QED
  BY <1>3, <1>4, <1>5, <1>6, <1>7, <1>8

(* No request goes past its bound, and nobody asks twice.                  *)
LEMMA RequestsTyped ==
    ASSUME GateTypeOK, [GateNext]_gateVars
    PROVE  /\ evidence' \in 0 .. 2
           /\ verificationRetries' \in 0 .. MAX_VERIFICATION_RETRIES
           /\ smokeRepairs' \in 0 .. SMOKE_REPAIRS
           /\ nudged' \subseteq turn'.asks
           /\ verdicts' \in Nat
<1>1. evidence' \in 0 .. 2
  BY FrameOfTurn DEF CheckEnds, Delegate, ContractPasses, OpensApp, MoreEvidence, GateTypeOK
<1>2. verificationRetries' \in 0 .. MAX_VERIFICATION_RETRIES
  <2>1. CASE ContractFails
    BY <2>1, GateAssumption DEF GateAssumption, ContractFails, retries, GateTypeOK
  <2>2. CASE NeedsEvidence
    BY <2>2, GateAssumption DEF GateAssumption, NeedsEvidence, GateTypeOK
  <2>3. CASE UNCHANGED verificationRetries
    BY <2>3 DEF GateTypeOK
  <2> QED
    BY <2>1, <2>2, <2>3, Frame
<1>3. smokeRepairs' \in 0 .. SMOKE_REPAIRS
  <2>1. \/ UNCHANGED smokeRepairs
        \/ smokeRepairs < SMOKE_REPAIRS /\ smokeRepairs' = smokeRepairs + 1
    BY Frame DEF AppFails
  <2> QED
    BY <2>1, GateAssumption DEF GateAssumption, GateTypeOK
<1>4. nudged' \subseteq turn'.asks
  <2>1. CASE HostStopped \/ EntersGate \/ MemoryUnapplied \/ AsksPages
    BY <2>1, Frame DEF HostStopped, EntersGate, MemoryUnapplied, AsksPages, GateTypeOK
  <2>2. CASE ContractFails
    <3>1. PICK asBefore \in {FALSE, "before" \in turn.asks} :
            nudged' \in {nudged, IF asBefore THEN nudged \cup {"before"} ELSE nudged}
      BY <2>2 DEF ContractFails, retries
    <3> QED
      BY <3>1, Frame DEF GateTypeOK
  <2>3. CASE UNCHANGED nudged
    BY <2>3, Frame DEF GateTypeOK
  <2> QED
    BY <2>1, <2>2, <2>3, FrameOfTurn
<1>5. verdicts' \in Nat
  BY FrameOfTurn DEF GateTypeOK
<1> QED
  BY <1>1, <1>2, <1>3, <1>4, <1>5

(* Only the model's own checks end while it works, hence RunByStage.       *)
LEMMA EndTyped ==
    ASSUME GateTypeOK, LatestTyped, RunByStage, [GateNext]_gateVars
    PROVE  /\ result' \in {None, "passed", "failed", "unrunnable"}
           /\ candidate' \in Nat \cup {None}
           /\ status' \in Status /\ (status' = "verified" => candidate' # None)
           /\ summary' \subseteq Source /\ observed' \subseteq Source
<1>1. result' \in {None, "passed", "failed", "unrunnable"}
  <2>1. CASE ReusesRun
    BY <2>1 DEF ReusesRun, Fresh, LatestTyped
  <2>2. CASE HostRunEnds
    BY <2>2 DEF HostRunEnds
  <2>3. CASE result' \in {None, result}
    BY <2>3 DEF GateTypeOK
  <2> QED
    BY <2>1, <2>2, <2>3, FrameOfPass
<1>2. files \in Nat /\ files # None
  BY WorkspaceTyped, GateAssumption, SumGrows DEF GateAssumption, GateTypeOK, files
<1>3. CASE Decides
  BY <1>1, <1>2, <1>3, Frame, FrameOfTurn DEF Decides, Leaves, receipts, HostPasses,
     Status, Source, GateTypeOK
<1>4. CASE Finishes
  <2>1. status' \in {status, "cancelled", "unverified"} /\ (status' = status \/ status' # "verified")
    BY <1>4 DEF Finishes
  <2>2. UNCHANGED <<candidate, summary, observed>>
    BY <1>4 DEF Finishes, receipts
  <2> QED
    BY <1>1, <2>1, <2>2 DEF GateTypeOK, Status
<1>5. CASE ~Decides /\ ~Finishes
  <2>1. UNCHANGED <<candidate, summary>> /\ status' \in {status, "unverified", "blocked"}
    BY <1>5, Frame, FrameOfStatus
  <2>2. observed' \subseteq Source
    <3>1. CASE Edit \/ OutsideChanges \/ Delegate
      BY <3>1 DEF Edit, OutsideChanges, Delegate, GateTypeOK, Source
    <3>2. CASE CheckEnds
      BY <3>2 DEF CheckEnds, Working, RunByStage, GateTypeOK, Source
    <3>3. CASE HostRunEnds \/ OpensApp \/ Audits \/ RunsIndependentAgain
      BY <3>3 DEF HostRunEnds, OpensApp, Audits, RunsIndependentAgain, GateTypeOK, Source
    <3> QED
      BY <3>1, <3>2, <3>3, FrameOfTurn DEF GateTypeOK
  <2> QED
    BY <1>1, <2>1, <2>2 DEF GateTypeOK, Status
<1> QED
  BY <1>3, <1>4, <1>5

(* The flags.                                                              *)
LEMMA FlagsTyped ==
    ASSUME GateTypeOK, [GateNext]_gateVars
    PROVE  /\ independentPending' \in BOOLEAN /\ unverified' \in BOOLEAN
           /\ contractPassed' \in BOOLEAN /\ checkedNote' \in BOOLEAN
           /\ couldNotRun' \in BOOLEAN /\ pagesBroken' \in BOOLEAN
           /\ uncertain' \in BOOLEAN /\ invalidated' \in BOOLEAN /\ aborted' \in BOOLEAN
<1>1. independentPending' \in BOOLEAN
  BY Frame DEF Audits, RunsIndependentAgain, GateTypeOK
<1>2. unverified' \in BOOLEAN
  <2>1. EntersGate => unverified' \in {FALSE, UnverifiedSinceAudit}
    BY DEF EntersGate, AsksAgain, NotVerified, Leaves
  <2>2. UnverifiedSinceAudit \in BOOLEAN
    BY DEF UnverifiedSinceAudit
  <2> QED
    BY <2>1, <2>2, FrameOfPass DEF GateTypeOK
<1>3. contractPassed' \in BOOLEAN /\ checkedNote' \in BOOLEAN
  <2>1. Trusted \in BOOLEAN
    BY DEF Trusted
  <2>2. CASE HostRunEnds
    BY <2>1, <2>2 DEF HostRunEnds, GateTypeOK
  <2>3. CASE ContractPasses \/ ContractCouldNotRun \/ ContractFails
    BY <2>1, <2>3 DEF ContractPasses, ContractCouldNotRun, ContractFails, GateTypeOK
  <2>4. CASE UNCHANGED checks
    BY <2>4 DEF checks, GateTypeOK
  <2> QED
    BY <2>2, <2>3, <2>4, FrameOfPass
<1>4. couldNotRun' \in BOOLEAN
  BY FrameOfPass DEF ContractCouldNotRun, GateTypeOK
<1>5. pagesBroken' \in BOOLEAN
  BY Frame DEF AsksPages, AsksAgain, Goes, ending, GateTypeOK
<1>6. uncertain' \in BOOLEAN /\ invalidated' \in BOOLEAN /\ aborted' \in BOOLEAN
  BY FrameOfEnd DEF GateTypeOK
<1> QED
  BY <1>1, <1>2, <1>3, <1>4, <1>5, <1>6

(* The turn stays what it is, in one of the stages.                        *)
LEMMA StageTyped ==
    ASSUME GateTypeOK, [GateNext]_gateVars
    PROVE  turn' \in Turn /\ stage' \in Stage
<1>1. stage' \in Stage \cup {stage}
  BY DEF GateNext, Works, Gate, gateVars, Edit, RunsCheck, CheckEnds, Delegate,
         OutsideChanges, Aborts, BecomesUncertain, Goes, Leaves, AsksAgain, NotVerified,
         Cancelled, HostStopped, EntersGate, NoContract, ReusesRun, HostRuns, HostRunEnds,
         ContractPasses, ContractCouldNotRun, ContractFails, OpensApp, AppWorks, AppFails,
         HasEvidence, NeedsEvidence, MemoryUnapplied, Audits, RunsIndependentAgain,
         Audited, AsksPages, StopHookBlocks, Decides, Finishes, Stage
<1> QED
  BY <1>1, Frame DEF GateTypeOK

(* GateTypeOK is kept, with two facts it does not state.                   *)
LEMMA TypeStep ==
    ASSUME GateTypeOK, LatestTyped, RunByStage, [GateNext]_gateVars
    PROVE  GateTypeOK' /\ LatestTyped'
<1>1. \A flag \in {independentPending', unverified', contractPassed', couldNotRun',
                   checkedNote', pagesBroken', uncertain', invalidated', aborted'} :
        flag \in BOOLEAN
  BY FlagsTyped
<1>2. GateTypeOK'
  BY <1>1, WorkspaceTyped, ReceiptsTyped, RequestsTyped, EndTyped, StageTyped DEF GateTypeOK
<1> QED
  BY <1>2, ReceiptsTyped

-----------------------------------------------------------------------------
(* The content.                                                            *)

(* A receipt of before is one of an earlier content, or of the same.       *)
LEMMA FilesGrow ==
    ASSUME GateTypeOK, [GateNext]_gateVars
    PROVE  /\ files \in Nat /\ files' \in Nat /\ files' >= files
           /\ files' = files \/ observed' = {}
           /\ files' # files => stage' = stage
           /\ Edit \/ (Delegate /\ ChildEdits) \/ OutsideChanges \/ files' = files
<1>1. edits \in Nat /\ outside \in Nat
  BY GateAssumption DEF GateAssumption, GateTypeOK
<1>2. CASE Edit
  BY <1>1, <1>2, SumGrows DEF Edit, files
<1>3. CASE Delegate
  <2>1. /\ edits' \in Nat /\ outside' \in Nat /\ edits' >= edits /\ outside' >= outside
        /\ edits' = edits \/ (observed' = {} /\ ChildEdits)
        /\ outside' = outside /\ stage' = stage
    BY <1>1, <1>3 DEF Delegate
  <2>2. files \in Nat /\ files' \in Nat /\ files' >= files
    BY <1>1, <2>1, SumGrows DEF files
  <2> QED
    BY <1>3, <2>1, <2>2 DEF files
<1>4. CASE OutsideChanges
  BY <1>1, <1>4, SumGrows DEF OutsideChanges, files
<1>5. CASE UNCHANGED workspace
  BY <1>1, <1>5, SumGrows DEF workspace, files
<1> QED
  BY <1>2, <1>3, <1>4, <1>5, Frame

(* StampsAreOld is kept: what is stamped is the content now, or one        *)
(* before.                                                                 *)
LEMMA OldStampsStep == ASSUME GateInv, [GateNext]_gateVars PROVE StampsAreOld'
<1>1. files \in Nat /\ files' \in Nat /\ files' >= files /\ endState <= files
      /\ endState \in Nat
  BY WorkspaceTyped, GateAssumption, SumGrows DEF GateAssumption, GateInv, GateTypeOK, files
<1>2. Stamp(files).state = files /\ Stamp(endState).state = endState
  BY DEF Stamp
<1>3. latest' # None => latest'.at.state <= files'
  <2>1. CASE CheckEnds
    <3>1. latest' = latest \/ latest'.at = Stamp(files)
      BY <2>1 DEF CheckEnds, Receipt
    <3> QED
      BY <3>1, <1>1, <1>2 DEF GateInv, GateTypeOK, StampsAreOld, Pass
  <2>2. CASE HostRunEnds
    BY <2>2, <1>1, <1>2 DEF HostRunEnds, Receipt
  <2>3. CASE UNCHANGED latest
    BY <2>3, <1>1 DEF GateInv, GateTypeOK, StampsAreOld, Pass
  <2> QED
    BY <2>1, <2>2, <2>3, Frame
<1>4. lastPassingCheck' # None => lastPassingCheck'.state <= files'
  <2>1. CASE CheckEnds
    BY <2>1, <1>1, <1>2 DEF CheckEnds, GateInv, GateTypeOK, StampsAreOld, Pass
  <2>2. CASE Delegate
    BY <2>2, <1>1 DEF Delegate, Stamp
  <2>3. CASE UNCHANGED lastPassingCheck
    BY <2>3, <1>1 DEF GateInv, GateTypeOK, StampsAreOld, Pass
  <2> QED
    BY <2>1, <2>2, <2>3, Frame
<1>5. independentPass' # None => independentPass'.state <= files'
  <2>1. independentPass' = independentPass \/ independentPass' = Stamp(files)
    BY Frame DEF Audits, RunsIndependentAgain
  <2> QED
    BY <2>1, <1>1, <1>2 DEF GateInv, GateTypeOK, StampsAreOld, Pass
<1>6. lastSmoke' # None => lastSmoke'.at.state <= files'
  <2>1. lastSmoke' = lastSmoke \/ lastSmoke'.at = Stamp(endState)
    BY Frame DEF OpensApp
  <2> QED
    BY <2>1, <1>1, <1>2 DEF GateInv, GateTypeOK, StampsAreOld, Pass
<1>7. candidate' # None => candidate' <= files'
  <2>1. candidate' \in {candidate, files, None}
    BY Frame DEF Decides
  <2> QED
    BY <2>1, <1>1 DEF GateInv, GateTypeOK, StampsAreOld
<1> QED
  BY <1>3, <1>4, <1>5, <1>6, <1>7 DEF StampsAreOld

-----------------------------------------------------------------------------
(* What is known of the gate's state in each stage.                        *)

(* The contract applies or not to what the gate read and to the turn.      *)
LEMMA AppliesFromReading ==
    ASSUME UNCHANGED <<endState, unverified, events, turn>>
    PROVE  /\ Mutated' = Mutated /\ DocumentsOnly' = DocumentsOnly
           /\ ContractApplies' = ContractApplies
  BY DEF Mutated, DocumentsOnly, ContractApplies

(* RunByStage is kept.                                                     *)
LEMMA RunByStageStep == ASSUME GateInv, [GateNext]_gateVars PROVE RunByStage'
<1>1. stage' = "working" /\ run' # None => run'.by \in {"project", "command"}
  <2> SUFFICES ASSUME stage' = "working", run' # None
               PROVE  run'.by \in {"project", "command"}
    OBVIOUS
  <2>1. CASE stage # "working"
    BY <2>1, Returns DEF GateInv, RunByStage
  <2>2. CASE stage = "working"
    <3>1. CASE RunsCheck
      BY <3>1 DEF RunsCheck
    <3>2. CASE CheckEnds \/ Cancelled \/ HostRunEnds
      BY <3>2 DEF CheckEnds, Cancelled, HostRunEnds
    <3>3. CASE HostRuns
      BY <3>3, <2>2 DEF HostRuns
    <3>4. CASE UNCHANGED run
      BY <3>4, <2>2 DEF GateInv, RunByStage
    <3> QED
      BY <3>1, <3>2, <3>3, <3>4, Frame
  <2> QED
    BY <2>1, <2>2
<1>2. stage' = "contract" /\ run' # None => ContractApplies'
  <2> SUFFICES ASSUME stage' = "contract", run' # None PROVE ContractApplies'
    OBVIOUS
  <2>1. CASE stage = "working"
    BY <2>1, LeavesWork
  <2>2. CASE stage = "contract"
    <3>1. ContractApplies' = ContractApplies
      BY <2>2, GateReads, AppliesFromReading, Frame DEF InGate
    <3>2. CASE HostRuns
      BY <3>1, <3>2 DEF HostRuns
    <3>3. CASE RunsCheck \/ CheckEnds \/ Cancelled \/ HostRunEnds
      BY <3>3, <2>2 DEF RunsCheck, CheckEnds, Cancelled, HostRunEnds, Working
    <3>4. CASE UNCHANGED run
      BY <3>1, <3>4, <2>2 DEF GateInv, RunByStage
    <3> QED
      BY <3>2, <3>3, <3>4, Frame
  <2> QED
    BY <2>1, <2>2, EntersContract
<1>3. stage' \notin {"working", "contract"} => run' = None
  BY RunsOutsideWork DEF GateInv, RunByStage
<1> QED
  BY <1>1, <1>2, <1>3 DEF RunByStage

(* ReadAfterReceipts is kept: in the gate only the page is stamped, with   *)
(* what the gate read.                                                     *)
LEMMA ReadStep == ASSUME GateInv, [GateNext]_gateVars PROVE ReadAfterReceipts'
<1> SUFFICES ASSUME InGate'
             PROVE  /\ lastPassingCheck' # None => lastPassingCheck'.state <= endState'
                    /\ lastSmoke' # None => lastSmoke'.at.state <= endState'
  BY DEF ReadAfterReceipts
<1>1. CASE EntersGate /\ endState' = files
  BY <1>1 DEF EntersGate, receipts, smokes, GateInv, StampsAreOld
<1>2. CASE InGate /\ UNCHANGED endState
  <2>1. UNCHANGED lastPassingCheck
    BY <1>2, Frame DEF InGate, CheckEnds, Delegate, Working
  <2>2. lastSmoke' = lastSmoke \/ lastSmoke'.at = Stamp(endState)
    BY Frame DEF OpensApp
  <2>3. endState \in Nat
    BY GateAssumption, SumGrows DEF GateAssumption, GateInv, GateTypeOK, files
  <2> QED
    BY <1>2, <2>1, <2>2, <2>3 DEF GateInv, ReadAfterReceipts, Stamp
<1> QED
  BY <1>1, <1>2, GateReads

(* ContractIsTrusted is kept.                                              *)
LEMMA TrustStep == ASSUME GateInv, [GateNext]_gateVars PROVE ContractIsTrusted'
<1>1. Trusted' = Trusted
  BY Frame DEF Trusted
<1>2. CASE HostRunEnds
  BY <1>1, <1>2 DEF HostRunEnds, GateInv, ContractIsTrusted
<1>3. CASE ContractPasses \/ ContractCouldNotRun \/ ContractFails
  BY <1>1, <1>3 DEF ContractPasses, ContractCouldNotRun, ContractFails, GateInv,
                    ContractIsTrusted
<1>4. CASE UNCHANGED checks
  BY <1>1, <1>4 DEF checks, GateInv, ContractIsTrusted
<1> QED
  BY <1>2, <1>3, <1>4, FrameOfPass

(* DocumentsStop is kept.                                                  *)
LEMMA DocumentsStep == ASSUME GateInv, [GateNext]_gateVars PROVE DocumentsStop'
<1> SUFFICES ASSUME stage' \in {"audit", "pages", "hook"} PROVE ~DocumentsOnly'
  BY DEF DocumentsStop
<1>1. stage # "working" /\ UNCHANGED <<endState, unverified, events>>
  BY GateReads, EntersAudit DEF InGate, HasEvidence
<1>2. DocumentsOnly' = DocumentsOnly
  BY <1>1, AppliesFromReading, Frame
<1>3. HasEvidence => ~DocumentsOnly
  BY DEF HasEvidence, Unbacked, NoContractEvidence, ContractApplies, DocumentsOnly
<1> QED
  BY <1>2, <1>3, EntersAudit DEF GateInv, DocumentsStop

(* ChecksFollowChanges is kept: what was changed once stays changed.       *)
LEMMA ChangesStep == ASSUME GateInv, [GateNext]_gateVars PROVE ChecksFollowChanges'
<1>1. files \in Nat /\ events \in Nat /\ endState \in 0 .. files
  BY FilesGrow, GateAssumption DEF GateAssumption, GateInv, GateTypeOK
<1>2. events > 0 \/ files # 0 => events' > 0 \/ files' # 0
  BY <1>1, WorkspaceTyped, FilesGrow DEF GateInv
<1>3. Mutated => events > 0 \/ files # 0
  BY <1>1 DEF Mutated
<1>4. ASSUME InGate', InGate => Mutated, events > 0 \/ files # 0 PROVE Mutated'
  <2>1. CASE endState' = files /\ UNCHANGED workspace
    BY <2>1, <1>4 DEF Mutated, workspace
  <2>2. CASE InGate /\ UNCHANGED <<endState, events>>
    BY <2>2, <1>4 DEF Mutated
  <2> QED
    BY <2>1, <2>2, <1>4, GateReads
<1>5. HostRunEnds => Mutated
  BY DEF HostRunEnds, GateInv, RunByStage, ContractApplies
<1>6. stage' = "checked" => Mutated'
  <2> SUFFICES ASSUME stage' = "checked" PROVE Mutated'
    OBVIOUS
  <2>1. Mutated
    BY <1>5, EntersChecked DEF ReusesRun, ContractApplies, GateInv, ChecksFollowChanges
  <2> QED
    BY <2>1, <1>3, <1>4 DEF InGate
<1>7. CASE HostChecked
  BY <1>2, <1>4, <1>6, <1>7 DEF GateInv, ChecksFollowChanges
<1>8. CASE ~HostChecked /\ HostChecked'
  <2>1. \/ HostRunEnds \/ ContractPasses \/ Audits
    <3>1. ~RunsIndependentAgain
      BY <1>8 DEF HostChecked, RunsIndependentAgain
    <3>2. ~(ContractCouldNotRun \/ ContractFails)
      <4> SUFFICES ASSUME ContractCouldNotRun \/ ContractFails PROVE FALSE
        OBVIOUS
      <4>1. contractPassed' = FALSE /\ checkedNote' \in {checkedNote, FALSE} /\ UNCHANGED audits
        BY DEF ContractCouldNotRun, ContractFails
      <4> QED
        BY <4>1, <1>8 DEF HostChecked, audits
    <3> QED
      BY <1>8, <3>1, <3>2, Frame, FrameOfPass DEF HostChecked, checks
  <2>2. Mutated
    BY <2>1, <1>5 DEF ContractPasses, Audits, GateInv, ChecksFollowChanges
  <2> QED
    BY <2>2, <1>2, <1>3, <1>4, <1>6 DEF ChecksFollowChanges
<1> QED
  BY <1>6, <1>7, <1>8 DEF ChecksFollowChanges

-----------------------------------------------------------------------------
(* What was seen.                                                          *)

(* While the content stays, what was seen on it stays.                     *)
LEMMA ObservedStays ==
    ASSUME GateTypeOK, [GateNext]_gateVars, ~ChildEdits, files' = files
    PROVE  observed \subseteq observed'
<1>1. edits \in Nat /\ outside \in Nat /\ edits + 1 + outside # edits + outside
      /\ edits + (outside + 1) # edits + outside
  BY GateAssumption DEF GateAssumption, GateTypeOK
<1>2. ~Edit /\ ~OutsideChanges
  BY <1>1 DEF Edit, OutsideChanges, files
<1>3. Delegate => observed' = observed \cup {"command"}
  BY DEF Delegate
<1> QED
  BY <1>2, <1>3, FrameOfTurn DEF CheckEnds, HostRunEnds, OpensApp, Audits,
                                 RunsIndependentAgain

(* What a receipt says.                                                    *)
LEMMA StableReceipt ==
    ASSUME NEW outcome, NEW before
    PROVE  /\ Receipt(outcome, before).outcome = outcome
           /\ Receipt(outcome, before).stable <=> before = files
  BY DEF Receipt

(* What SeenIsObserved says of each receipt is kept.                       *)
LEMMA SeenStep == ASSUME GateInv, [GateNext]_gateVars PROVE SeenIsObserved'
<1> SUFFICES ASSUME ~ChildEdits
             PROVE  /\ latest' # None /\ latest'.outcome = "passed" /\ latest'.stable
                         /\ latest'.at.state = files' /\ Trusted' => "project" \in observed'
                    /\ lastPassingCheck' # None /\ lastPassingCheck'.state = files' =>
                         "project" \in observed' \/ "command" \in observed'
                    /\ independentPass' # None /\ independentPass'.state = files' =>
                         "independent" \in observed'
                    /\ lastSmoke' # None /\ lastSmoke'.seen = "passed"
                         /\ lastSmoke'.at.state = files' => "page" \in observed'
  BY DEF SeenIsObserved
<1>1. files \in Nat /\ files' \in Nat /\ files' >= files
  BY FilesGrow DEF GateInv
<1>2. CASE files' # files
  <2>1. Edit \/ OutsideChanges
    BY <1>2, FilesGrow DEF GateInv
  <2>2. UNCHANGED <<latest, lastPassingCheck, independentPass, lastSmoke>>
    BY <2>1 DEF Edit, OutsideChanges, audits, smokes
  <2>3. ASSUME NEW n \in Nat, n <= files PROVE n # files'
    BY <1>1, <1>2, <2>3
  <2>4. /\ latest # None => latest.at.state \in Nat
        /\ lastPassingCheck # None => lastPassingCheck.state \in Nat
        /\ independentPass # None => independentPass.state \in Nat
        /\ lastSmoke # None => lastSmoke.at.state \in Nat
    BY DEF GateInv, GateTypeOK, Pass
  <2> QED
    BY <2>2, <2>3, <2>4 DEF GateInv, StampsAreOld
<1>3. CASE files' = files
  <2>1. observed \subseteq observed' /\ Trusted' = Trusted
    BY <1>3, ObservedStays, Frame DEF GateInv, Trusted
  <2>2. latest' # None /\ latest'.outcome = "passed" /\ latest'.stable
          /\ latest'.at.state = files' /\ Trusted' => "project" \in observed'
    <3>1. CASE CheckEnds
      <4>1. CASE latest' = latest
        BY <1>3, <2>1, <4>1 DEF GateInv, SeenIsObserved
      <4>2. ASSUME run.by = "project", latest'.outcome = "passed", latest'.stable, Trusted
            PROVE  "project" \in observed'
        <5>1. PICK passed \in BOOLEAN :
                /\ latest' = Receipt(IF passed THEN "passed" ELSE "failed", run.before)
                /\ passed /\ Counts => observed' = observed \cup {run.by}
          BY <3>1, <4>2 DEF CheckEnds
        <5>2. passed /\ run.before = files
          BY <5>1, <4>2, StableReceipt
        <5> QED
          BY <5>1, <5>2, <4>2 DEF Counts
      <4> QED
        BY <2>1, <3>1, <4>1, <4>2 DEF CheckEnds
    <3>2. CASE HostRunEnds
      <4>1. PICK outcome \in {"passed", "failed", "unrunnable"} :
              /\ latest' = Receipt(outcome, run.before)
              /\ outcome = "passed" /\ run.before = files /\ Trusted =>
                   observed' = observed \cup {"project"}
        BY <3>2 DEF HostRunEnds
      <4> QED
        BY <2>1, <4>1, StableReceipt
    <3>3. CASE UNCHANGED latest
      BY <1>3, <2>1, <3>3 DEF GateInv, SeenIsObserved
    <3> QED
      BY <3>1, <3>2, <3>3, Frame
  <2>3. lastPassingCheck' # None /\ lastPassingCheck'.state = files' =>
          "project" \in observed' \/ "command" \in observed'
    <3>1. CASE CheckEnds
      <4>1. CASE lastPassingCheck' = lastPassingCheck
        BY <1>3, <2>1, <4>1 DEF GateInv, SeenIsObserved
      <4>2. CASE observed' = observed \cup {run.by}
        BY <3>1, <4>2 DEF CheckEnds, Working, GateInv, RunByStage
      <4> QED
        BY <3>1, <4>1, <4>2 DEF CheckEnds
    <3>2. CASE Delegate
      BY <3>2 DEF Delegate
    <3>3. CASE UNCHANGED lastPassingCheck
      BY <1>3, <2>1, <3>3 DEF GateInv, SeenIsObserved
    <3> QED
      BY <3>1, <3>2, <3>3, Frame
  <2>4. independentPass' # None /\ independentPass'.state = files' =>
          "independent" \in observed'
    <3>1. independentPass' = independentPass \/ "independent" \in observed'
      BY Frame DEF Audits, RunsIndependentAgain
    <3> QED
      BY <1>3, <2>1, <3>1 DEF GateInv, SeenIsObserved
  <2>5. lastSmoke' # None /\ lastSmoke'.seen = "passed" /\ lastSmoke'.at.state = files' =>
          "page" \in observed'
    <3>1. lastSmoke' = lastSmoke \/ lastSmoke'.seen # "passed" \/ "page" \in observed'
      BY Frame DEF OpensApp
    <3> QED
      BY <1>3, <2>1, <3>1 DEF GateInv, SeenIsObserved
  <2> QED
    BY <2>2, <2>3, <2>4, <2>5
<1> QED
  BY <1>2, <1>3

-----------------------------------------------------------------------------
(* The verdict.                                                            *)

(* VerdictsByStage is kept.                                                *)
LEMMA VerdictsStep == ASSUME GateInv, [GateNext]_gateVars PROVE VerdictsByStage'
<1>1. ASSUME stage' \notin {"hook", "learning", "over"} PROVE verdicts' = 0 /\ ~pagesBroken'
  <2>1. stage \notin {"hook", "learning", "over"} /\ verdicts' = verdicts
        /\ pagesBroken' = pagesBroken
    BY <1>1, VerdictSteps
  <2>2. verdicts = 0 /\ ~pagesBroken
    BY <2>1 DEF GateInv, VerdictsByStage
  <2>3. ~pagesBroken'
    BY ONLY <2>1, <2>2
  <2> QED
    BY <2>1, <2>2, <2>3
<1>2. ASSUME stage' = "hook", verdicts' # 0 PROVE pagesBroken'
  <2>1. CASE stage = "pages"
    <3>1. verdicts = 0
      BY <2>1 DEF GateInv, VerdictsByStage
    <3>2. pagesBroken' = TRUE
      BY <1>2, <3>1, VerdictSteps
    <3> QED
      BY <3>2
  <2>2. CASE stage = "hook"
    <3>1. verdicts' = verdicts /\ pagesBroken' = pagesBroken
      BY <1>2, <2>2, VerdictSteps
    <3>2. pagesBroken
      BY <1>2, <2>2, <3>1 DEF GateInv, VerdictsByStage
    <3> QED
      BY ONLY <3>1, <3>2
  <2> QED
    BY <1>2, <2>1, <2>2, VerdictSteps
<1> QED
  BY <1>1, <1>2 DEF VerdictsByStage

(* OverIsCertain is kept: the last step looks at every doubt.              *)
LEMMA CertainStep == ASSUME GateInv, [GateNext]_gateVars PROVE OverIsCertain'
<1> SUFFICES ASSUME stage' = "over", status' = "verified"
             PROVE  ~uncertain' /\ ~invalidated' /\ ~aborted'
  BY DEF OverIsCertain, Over
<1>1. CASE Finishes
  BY <1>1 DEF Finishes, doubts
<1>2. CASE stage = "over"
  BY <1>2, LateSteps DEF GateInv, OverIsCertain, Over, doubts
<1> QED
  BY <1>1, <1>2, LateSteps

(* At the end of the gate every receipt the verdict may rest on, and every *)
(* pass that its summary names, was seen on the content that is there.     *)
LEMMA VerifiedMeansSeen ==
    ASSUME GateInv, stage = "hook", Verified, ~ChildEdits
    PROVE  /\ observed # {}
           /\ turn.contract = "project" /\ ~turn.documents /\ files # 0 =>
                "project" \in observed
           /\ HostPasses \subseteq observed
<1>1. files \in Nat /\ endState \in Nat /\ events \in Nat
  BY GateAssumption, SumGrows DEF GateAssumption, GateInv, GateTypeOK, files
<1>2. FreshContract => "project" \in observed /\ Mutated
  BY DEF FreshContract, Fresh, Matches, GateInv, SeenIsObserved, ContractIsTrusted,
         ChecksFollowChanges, HostChecked, InGate
<1>3. FreshCommand => "project" \in observed \/ "command" \in observed
  BY DEF FreshCommand, Matches, GateInv, SeenIsObserved
<1>4. FreshSmoke => "page" \in observed
  BY DEF FreshSmoke, Matches, GateInv, SeenIsObserved
<1>5. FreshIndependent => "independent" \in observed
  BY DEF FreshIndependent, Matches, GateInv, SeenIsObserved
<1>6. observed # {}
  BY <1>2, <1>3, <1>4, <1>5 DEF Verified
<1>7. ASSUME files # 0 PROVE Mutated
  <2>1. FreshCommand \/ FreshSmoke => endState # 0
    <3>1. FreshCommand => lastPassingCheck.state = files /\ lastPassingCheck.state <= endState
      BY DEF FreshCommand, Matches, GateInv, ReadAfterReceipts, InGate
    <3>2. FreshSmoke => lastSmoke.at.state = files /\ lastSmoke.at.state <= endState
      BY DEF FreshSmoke, Matches, GateInv, ReadAfterReceipts, InGate
    <3> QED
      BY <3>1, <3>2, <1>1, <1>7
  <2>2. FreshIndependent => Mutated
    BY DEF FreshIndependent, Matches, GateInv, ChecksFollowChanges, HostChecked, InGate
  <2> QED
    BY <2>1, <2>2, <1>2 DEF Verified, Mutated
<1>8. ASSUME turn.contract = "project", Mutated, ~DocumentsOnly PROVE FreshContract
  BY <1>8 DEF Verified, ContractApplies
<1>9. ~DocumentsOnly
  BY DEF GateInv, DocumentsStop
<1>10. checkedNote => "project" \in observed
  BY <1>2, <1>8, <1>9 DEF GateInv, ContractIsTrusted, Trusted, ChecksFollowChanges,
                          HostChecked, InGate
<1>11. lastSmoke # None /\ lastSmoke.seen = "passed" => "page" \in observed
  BY <1>4 DEF Verified
<1>12. Matches(independentPass, endState) => "independent" \in observed
  BY <1>5 DEF Verified, Matches
<1>13. HostPasses \subseteq observed
  BY <1>10, <1>11, <1>12 DEF HostPasses
<1> QED
  BY <1>2, <1>6, <1>7, <1>8, <1>9, <1>13

(* DecidedIsObserved is kept, whatever changes after the verdict.          *)
LEMMA DecidedStep == ASSUME GateInv, [GateNext]_gateVars PROVE DecidedIsObserved'
<1> SUFFICES ASSUME status' = "verified"
             PROVE  /\ stage' \in {"learning", "over"} /\ verdicts' = 0
                    /\ ~ChildEdits /\ candidate' = files' => SeenEnough'
                    /\ stage' = "over" => candidate' = files'
  BY DEF DecidedIsObserved
<1>1. turn' = turn
  BY Frame
<1>2. CASE Decides
  <2>1. Verified /\ stage = "hook" /\ stage' = "learning"
    BY <1>2 DEF Decides, Leaves
  <2>2. verdicts' = 0
    <3>1. verdicts = 0
      BY <2>1 DEF Verified, GateInv, VerdictsByStage
    <3> QED
      BY <1>2, <2>1, <3>1 DEF Decides
  <2>3. files' = files /\ observed' = observed /\ summary' \in {HostPasses, {}}
    BY <1>2 DEF Decides, workspace, receipts, files
  <2>4. ~ChildEdits => SeenEnough'
    BY <1>1, <2>1, <2>3, VerifiedMeansSeen DEF SeenEnough
  <2> QED
    BY <2>1, <2>2, <2>4
<1>3. CASE Finishes
  <2>1. /\ stage = "learning" /\ stage' = "over" /\ status = "verified" /\ candidate = files
        /\ UNCHANGED <<candidate, summary, verdicts, observed>> /\ files' = files
    BY <1>3 DEF Finishes, workspace, receipts, files
  <2> QED
    BY <1>1, <2>1 DEF GateInv, DecidedIsObserved, SeenEnough
<1>4. CASE status' = status /\ ~Finishes
  <2>1. stage \in {"learning", "over"} /\ verdicts = 0 /\ candidate # None
    BY <1>4 DEF GateInv, DecidedIsObserved, GateTypeOK
  <2>2. UNCHANGED <<stage, verdicts, candidate, summary>>
    BY <1>4, <2>1, LateSteps
  <2>3. stage = "over" => files' = files
    BY LateSteps DEF files
  <2>4. ASSUME ~ChildEdits, candidate' = files' PROVE SeenEnough'
    <3>1. files' = files
      BY <2>1, <2>2, <2>4, FilesGrow DEF GateInv, GateTypeOK, StampsAreOld
    <3>2. SeenEnough /\ observed \subseteq observed'
      BY <1>4, <2>2, <2>4, <3>1, ObservedStays DEF GateInv, DecidedIsObserved
    <3> QED
      BY <1>1, <2>2, <3>1, <3>2 DEF SeenEnough
  <2> QED
    BY <1>4, <2>1, <2>2, <2>3, <2>4 DEF GateInv, DecidedIsObserved
<1> QED
  BY <1>2, <1>3, <1>4, FrameOfStatus

-----------------------------------------------------------------------------
(* The invariant, and what it gives.                                       *)

(* A turn starts in the invariant.                                         *)
LEMMA GateInvInit == ASSUME GateInit PROVE GateInv
<1>1. GateTypeOK /\ LatestTyped
  <2>1. files = 0
    BY DEF GateInit, files
  <2>2. /\ turn \in Turn /\ stage \in Stage /\ endState \in 0 .. files
        /\ events \in 0 .. edits /\ edits \in 0 .. MaxEdits /\ outside \in 0 .. MaxOutside
    BY <2>1, GateAssumption DEF GateAssumption, GateInit, Stage
  <2>3. /\ run = None /\ latest = None /\ lastPassingCheck = None /\ independentPass = None
        /\ lastSmoke = None /\ requirementAudit = None /\ candidate = None
        /\ result = None /\ nudged = {} /\ summary = {} /\ observed = {}
    BY DEF GateInit
  <2>4. /\ evidence \in 0 .. 2 /\ verificationRetries \in 0 .. MAX_VERIFICATION_RETRIES
        /\ smokeRepairs \in 0 .. SMOKE_REPAIRS
        /\ status \in Status /\ status # "verified" /\ verdicts \in Nat
    BY GateAssumption DEF GateAssumption, GateInit, Status
  <2>5. \A flag \in {independentPending, unverified, contractPassed, couldNotRun, checkedNote,
                     pagesBroken, uncertain, invalidated, aborted} : flag \in BOOLEAN
    BY DEF GateInit
  <2> QED
    BY <2>2, <2>3, <2>4, <2>5 DEF GateTypeOK, LatestTyped
<1> QED
  BY <1>1 DEF GateInit, GateInv, StampsAreOld, ReadAfterReceipts, ChecksFollowChanges,
     HostChecked, ContractIsTrusted, DocumentsStop, RunByStage, SeenIsObserved, InGate,
     DecidedIsObserved, VerdictsByStage, OverIsCertain, Over

(* Every step of the turn, and of anyone else, keeps it.                   *)
LEMMA GateInvStep == ASSUME GateInv, [GateNext]_gateVars PROVE GateInv'
  BY TypeStep, OldStampsStep, ReadStep, ChangesStep, TrustStep, DocumentsStep,
     RunByStageStep, SeenStep, DecidedStep, VerdictsStep, CertainStep DEF GateInv

(* The invariant of the gate: what every part of it, and every change that *)
(* others make behind it, leaves true.                                     *)
THEOREM GateKeepsInv == GateSpec => []GateInv
  BY GateInvInit, GateInvStep, PTL DEF GateSpec

(* The requests that the host may still make of the model stay bounded,    *)
(* and only a turn that was verified has a candidate.                      *)
THEOREM GateTypeCorrect == GateSpec => []GateTypeOK
<1>1. GateInv => GateTypeOK
  BY DEF GateInv
<1> QED
  BY <1>1, GateKeepsInv, PTL

(* A turn ends as verified only with the content on which its checks were  *)
(* seen to pass, the project's own check included when it changed the      *)
(* project, unless a sub-agent edits behind its own check.                 *)
THEOREM VerifiedWasObserved == ~ChildEdits => (GateSpec => []VerifiedIsObserved)
<1> SUFFICES ASSUME ~ChildEdits PROVE GateSpec => []VerifiedIsObserved
  OBVIOUS
<1>1. GateInv => VerifiedIsObserved
  BY DEF GateInv, DecidedIsObserved, SeenEnough, VerifiedIsObserved, Over
<1> QED
  BY <1>1, GateKeepsInv, PTL

(* No verdict against a turn, no operation of unknown outcome, no check    *)
(* that was tampered with and no cancellation is overtaken by its success. *)
THEOREM SuccessIsUndoubted == GateSpec => []NoDoubtfulSuccess
<1>1. GateInv => NoDoubtfulSuccess
  BY DEF GateInv, DecidedIsObserved, OverIsCertain, NoDoubtfulSuccess, Over
<1> QED
  BY <1>1, GateKeepsInv, PTL
===============================================================================
