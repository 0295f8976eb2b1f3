# ShelraCode: specifications and proofs

TLA+ specifications of the parts of ShelraCode whose correctness depends on the
order in which things happen, with TLC runs that check them on small instances
and TLAPS proofs of the results that matter most. Every definition is taken from
the code under `src/`; `PROJECT.json` maps each one to its lines.

    tlc -workers 2 -config MCSharedFiles.cfg MCSharedFiles    # one run
    tlapm SharedFiles_proofs.tla                              # one module's proofs

Paths below are relative to `src/src/` unless they start with `docs/`.

## 1. The system

ShelraCode is a coding agent in a terminal. A session runs turns; a turn asks
models, through one router over many providers, for steps; a step calls tools
that change files, run commands and start sub-agents or background processes.
When the model says it is done, a gate decides what the turn is reported as.
Several sessions may be open on one project, and share its files but no memory.

### Inventory

| Component | State it keeps | Operations | Interacts with | Hard behaviour | What makes it correct |
|---|---|---|---|---|---|
| Tool operation journal (`agent/tool-operations.ts`, `storage/tool-operations.ts`) | pending operations, their outcome, aliases of call ids, barriers; one SQLite row per operation | wrap (refuse, replay, start), the tool's return, acknowledge, beginRound, recover, construction | the turn loop calls it; tools run inside it; the store survives the process | parallel tools, tools that return after their round or turn is over, failing writes, a crash between intention and outcome, reused call ids | an effect is not applied twice unless the model was told how the first attempt ended; an uncertain effect is never retried by the host |
| Turn loop (`agent/agent.ts`) | phase, messages of the round, counters of interruptions, models and keys given up, overflow level | stream a step, finish it, finish or interrupt the round, retry, switch, cancel, pause, end | journal, router, database, sub-agents (same code) | a fault at every await; the unit of acknowledgement (step) differs from the unit of persistence (round) | what is released is told and stays told; no step waits for ever; interruptions end, after every attempt |
| Completion gate (`agent/agent.ts`, `agent/evidence-core.ts`, `agent/verification-evidence.ts`, `contract/contract.ts`) | evidence of checks with the workspace they ran on, contract, verdicts, requests left | observe a check, run the contract's, open pages, ask for work or a summary, independent check, hooks, finish | turn loop, workspace, sub-agents, sessions that edit the same files | the workspace changes during any await; later stages overwrite verdicts of earlier ones | verified means: seen to pass on the code the turn leaves |
| Session transcript (`agent/agent.ts`, `storage/transcript.ts`, `storage/transcript-view.ts`, `agent/compaction.ts`) | messages, their places in the table, the rows, the last compaction | push, save, verdict, notice, compact, trim, discard, reopen | turn loop, database, hooks | two lists and a table changed at different moments, a hook awaited in the middle of a compaction | lists stay aligned; a reopened session sees what the open one saw |
| Free routing (`providers/routing-provider.ts`, `routing/health.ts`, `routing/free-router.ts`, `routing/eligibility.ts`) | cooldowns and failure records of routes, upstreams and providers, key in use, quarantine, mode | plan, run, fail over, report, rotate a key, switch mode | every model call of the process goes through one instance | concurrent calls report to shared state in any order | free work is never paid for; waits are respected; all keys are used |
| Model catalogue (`routing/catalog-service.ts`, `routing/runtime.ts`) | models and status per provider, snapshot, pass in flight | refresh, forced refresh, read the cache, timer, publish | router, UI, the user's keys | overlapping refreshes, keys that change during a pass | a forced refresh is not answered by an older pass; no models of a provider without key |
| Background delegations (`agent/delegations.ts`, `index.ts`) | one JSON record and one output file per delegation | start, complete, fail, list, read, consume notices | launcher, detached process, timers of every open terminal | three or more processes write one file without a lock; torn reads; a process that dies | a finished delegation has its output; its notice arrives |
| Autonomy kernel (`autonomy/kernel.ts`, `autonomy/runtime.ts`, `contract/evaluate.ts`, `contract/types.ts`, `exec/process.ts`, `exec/static-server.ts`) | contract, plan, tasks, workspace, application, handles of processes, reports, limits | interpret, plan, execute, apply, start, self-check, judge a criterion, repair, stop, stop all | models, workspace, processes | partial change sets, commands that change what was judged, a limit or a cancellation between two steps, an application that dies, a stop that fails | it ends within its limits; success only when verified; nothing left running that was not killed |
| Memory lock (`memory/lock.ts`) | lock file, reaper file, tickets | withMemoryLock | memory store, trust records, extension records, in every process | exclusive creation, recovery from dead owners, bounded wait | mutual exclusion, order, every wait ends, leftovers are recovered |
| Memory store (`memory/store.ts`, `memory/reflection.ts`, `memory/gate.ts`) | observations, claims, episodes, index | record, confirm, merge, retire, retrieve | lock, turn loop | partial writes of body, index and history | a claim's status follows its evidence |
| Schedules and daemon (`daemon/scheduler.ts`, `tools/schedule.ts`) | pid file, one record per schedule | start, tick, fire, mark, stop; create, enable, disable, remove | detached runs, tools of every session | two daemons, records read and written back later, restarts | a schedule runs on the days it names, once |
| Agent kernel and plans (`agent/kernel.ts`, `plans/state.ts`, `agent/claim-check.ts`) | phase of a task, requirements | transition, extract | turn loop | phases guard nothing | presentation |
| Shell and background processes (`tools/bash.ts`, `exec/shell.ts`) | registry of up to eight processes | run, start, read, stop | tools | check before an await, registration after it | the limit holds; stop kills the tree |
| Providers and streams (`providers/*.ts`) | none across calls | translate messages and events, watchdogs | router | silent streams | an idle stream ends |
| Sessions and database (`storage/*.ts`) | SQLite tables | atomic statements | everything | busy timeout | transactions are whole |
| Hooks, MCP, language servers (`hooks/*.ts`, `mcp/*.ts`, `lsp/*.ts`) | caches of clients | start, call, close | tools | close races start | one client per key |
| File tools and checkpoints (`tools/*.ts`) | files, checkpoints | read, write, edit, restore | tools | partial writes | an edit applies to what was read |
| Verification recipes, start-up, runtimes, ledger, extensions, context, research, Telegram, account, wallet, UI, benchmarks | mostly configuration and I/O | | | Telegram and the terminal share one promise chain of turns | |

`PROJECT.json` lists all components with their status, and the hazards at the
lines where they bite, each with the properties that cover it or the reason why
none does.

## 2. The modules

| Module | Code modelled | Role |
|---|---|---|
| `EffectClaims` | | what the journal promises, without rounds, ids, storage or processes |
| `ToolOperationJournal` | `agent/tool-operations.ts`, `storage/tool-operations.ts` | the journal and its store; implements `EffectClaims` |
| `AgentTurn` | `agent/agent.ts` (the loop of `processMessage`) | the rounds of a turn and what joins the transcript, composed with the journal (EXTENDS); implements the journal's specification |
| `Interruptions` | `agent/agent.ts` (`recoverFromInterruption`, fallback models and providers, sub-agents) | what failing rounds lead to: retry, switch, pause |
| `CompletionGate` | `agent/agent.ts` (`finishHostTurnResult` and the gate before it), `agent/evidence-core.ts`, `agent/verification-evidence.ts`, `contract/contract.ts` | what a turn is reported as |
| `SessionTranscript` | `agent/agent.ts`, `storage/transcript*.ts`, `agent/compaction.ts` | messages in memory and in the table |
| `FreeRouting` | `providers/routing-provider.ts`, `routing/health.ts`, `routing/free-router.ts` | concurrent calls over shared health records, keys and quarantine |
| `Catalog` | `routing/catalog-service.ts`, `routing/runtime.ts` | passes over the providers, forced and not |
| `Delegations` | `agent/delegations.ts`, `index.ts` 1593-1651 | launcher, detached process and consumers over one record |
| `Objective` | | what a run of the autonomy kernel promises |
| `AutonomyKernel` | `autonomy/kernel.ts`, `autonomy/runtime.ts`, `contract/evaluate.ts`, `contract/types.ts`, `exec/process.ts`, `exec/static-server.ts` | the run; implements `Objective` |
| `MemoryLock` | `memory/lock.ts` | processes over the lock, reaper and ticket files |
| `Schedules` | `daemon/scheduler.ts`, `tools/schedule.ts` | daemons and tools over a schedule's record and the pid file |
| `..._proofs` (eight) | | the theorems of the module they are named after; `Background_proofs` has those of `Delegations` and `Catalog`, `TurnEnd_proofs` those of `Interruptions` and `SessionTranscript`, `SharedFiles_proofs` those of `MemoryLock` and `Schedules` |
| `MCTurnEnd`, `MCBackground`, `MCSharedFiles` | | modules that share no state, explored one at a time in one run; properties that state fairness assumptions of their own |
| other `MC...` | | constants that a .cfg cannot write, and symmetry |

How state and actions correspond to the code:

- **ToolOperationJournal.** `rows` is the table; everything else but `running`
  and `strays` is the journal's memory and dies with it. One call of a wrapped
  `execute` up to its `await` is one action, as JavaScript does not interleave it:
  it acknowledges what the conversation shows (`Acknowledge`, any subset of whose
  UPDATEs may fail) and then refuses, replays (`Replay`) or inserts and starts
  (`Start`). `Return` is the code after the await. A tool that outlives its
  journal is a stray, whose return reaches only the store. `NewTurn` and `Crash`
  construct a journal again: `Load` reads the rows, `LoadFails` is the
  constructor's catch. Fingerprints and ids are model values; "confirmed" and
  "refused" are one outcome, "settled", as nothing but text tells them apart.
- **AgentTurn.** `history` is the transcript, `completed` and `returned` the
  results of the round's finished steps and of the running step, `waiting` the
  calls the SDK awaits. A result is a call id with the operation it reports. Each
  way a round can end in `processMessage` is an action; a `Scenario` says which of
  them happen and whether the provider reuses ids. The conversation that the
  journal's actions take as a parameter is the one the turn would show it.
- **Interruptions.** One loop of rounds, of the turn ("main") or of a sub-agent,
  which has no gate and other limits. A round ends well, empty, or fails in one of
  the ways `recoverFromInterruption` tells apart; what follows (resend, switch of
  model, of provider or of key, shorter request, pause) is one action, in the
  order of the code's early returns. The counters carry the code's names.
- **CompletionGate.** A content of the workspace is the number of changes that led
  to it, by the turn (`edits`, of which the host sees those with an `event`) and by
  anyone else (`outside`). A check may pass or fail at any time; its receipt holds
  the stamp the code gives it. `observed` is the history of the sources that were
  really seen to pass on the content of now, with which the properties compare what
  the receipts say. The gate advances from `stage` to `stage` in the order of the
  code, and anything may change wherever it awaits. `Turn` says what the gate meets:
  a contract of the project's checks or of the turn's own, documents, pages, a
  request with several requirements, and who may ask for more work.
- **SessionTranscript.** `messages` and `messageSeqs` are the two lists, `rows` the
  table; a message is who wrote it, for which turn, and a number that stands for the
  object's identity, which is what `lastIndexOf` compares. `raced` and `dropped`
  remember what a notice got between, and what left memory but not the table. What
  waits for its place is numbered by `Rank` and `Nth`, the order in which
  `pendingIndexes` collects it.
- **FreeRouting.** A call is "choosing" or "running"; what happens between two
  awaits is one action. Cooldowns are the time left; `Tick` passes time.
  `asked` and `refused` are history variables of what providers asked for and
  which keys they refused. Background calls (titles, recaps) ask for the virtual
  free model; a switch of mode waits for the turn's calls, as the UI does.
- **Catalog.** A pass is the set of providers it has still to ask and those being
  asked; callers that force wait for the pass in flight and ask anew after it.
  `crossed` remembers that the cache was read while a pass ran.
- **Delegations.** A write truncates a file and then fills it; `Torn` is what a
  reader finds in between, and `Fill` may leave the tail of a longer text behind.
  `overtaken` and `lost` remember which delegations were excused, and why.
- **AutonomyKernel.** The workspace is `good`, the set of criteria its files
  satisfy; a change set makes it any other, and may fail half done. `at` is where the
  loop is inside `ensureAppRunning` and around the two cleanups. The contract is
  judged as `evaluateAcceptance` does it: criterion by criterion (`CheckFile`,
  `RunCommand`, `Ask`), then one load of the page for each viewport (`ObservePage`),
  with `checked` and `passed` as the results so far. The contract's commands run
  before (`RunDeclaredSelfChecks`) and in between, and each may change the files;
  `spoilt` remembers what had passed and was undone by a later command of the same
  verification. `running` are the processes there are, `handles` those that
  `ProcessManager` knows, `appProcessId` the one the kernel knows, `servers` the static
  servers that listen. A kill may be to no effect and does not say so; `unkilled`
  remembers it. Models, judge and processes answer anything the schemas let through.
  `Objective` is the run seen from outside: work changes, is tried, is proven, ends.
- **MemoryLock.** Each call to the file system is an action. `lock` has who
  created the file and whether its text is there. `old` stands for "its mtime is
  thirty seconds ago"; `busy` remembers which processes are between two calls they
  began before the last write to the lock. A process runs from one call to the
  next at once, so `old` becomes true (`Ages`) only when `busy` is empty; with
  `Pauses` a process may be suspended in between and it becomes true at any time.
  Tickets are stamps in any order, as the wall clock that names them may go back.
- **Schedules.** One recurring schedule whose expression names weekdays, so that
  a day stands for the minute in which it is due. `procs` says where each daemon
  and tool is between two awaits, and holds what it has read; a write truncates and
  then fills. A pid that is written by nobody alive is removed an await after it
  was read, whoever's it is by then. `forgotten` and `crowded` remember the days whose
  mark was lost and those on which more than one daemon listened; `alone` are the
  processes that saw no daemon since one last wrote its pid, from which `together` and
  `disowned` tell how two came to listen.

## 3. The runs

Passing runs end without error and violate each of their properties when the
mutant of `PROJECT.json` replaces the definition it names.

| Run | Instance | What it shows |
|---|---|---|
| `journal` | 3 executions, limit 2, symmetry: of at most 2 fingerprints under 2 ids, or each of its own fingerprint and id | `SingleClaim`, `NoAckWhileExecuting`, `RecoverableStore`, `ReceiptsAgree`, `QuarantineIsForever` and the refinement of `EffectClaims`, under any provider and any turn loop: every failing write, late return, reused id and crash. |
| `turn` | 1 fingerprint, 3 ids; 3 executions with connection faults, 2 with all faults and reused ids | `ReleasedIsTold` and `RepeatsKnowingly` (connection faults): a turn keeps the outcome of what it released, and the model repeats an effect only when it knows how each earlier attempt ended. `WaitsForARunningTool`: no step hangs. `ImplementsJournal`: the turn is an environment the journal allows. |
| `turn_context` | as `turn`, with the context limit | finding 1 |
| `turn_end` | the gate with four kinds of turn, one request per kind, two edits and one from outside; rounds with 2 models, two interruptions without progress and three in all; the transcript with four messages, three turns, two compactions | `VerifiedIsObserved`, `NoDoubtfulSuccess`; `NeverGoesBack`, `PausesExhausted`; `AlignedWithStore`, `ResumeSeesTheSame`; and `TurnEnds`, a liveness property of gate and rounds. |
| `turn_end_delegated` | the same with sub-agents that edit after their check | finding 3 |
| `turn_end_pages` | the same with a turn about pages | finding 4 |
| `transcript_stored` | five messages, two turns, two compactions | finding 5 |
| `routing` | 2 providers (one a gateway with an upstream), 3 routes, a turn's call and a background call, one key each; rate limits (two ticks) and passing faults (one) | `FreeRunsFree`, `OnlyFreeCallsCondemn`, `PatientPlans`. |
| `routing_keys` | the same with two keys and refused keys | finding 2 |
| `background` | 1 delegation, 2 terminals, 2 consumers, 2 faults; 2 providers asked one at a time, 2 callers, 1 change of keys; 2 writers, 2 stamps | `OutcomeIsReadable`, `EventuallyAnnounced`; `ForcedAsksAnew`, `SnapshotIsCurrent`, `CatalogSettles`; `WritersGetThrough`: what nobody waits for gets done. |
| `shared_files` | 3 processes, 3 stamps, 2 faults, symmetry; 2 daemons, a session's tools, 2 days, five starts and calls, three expressions | `MutualExclusion` and `NoOvertaking` with deaths and failed writes at any call; `RunsOnceAsNamed`: which days a schedule runs on, what alone makes it run again, and how alone two daemons come to listen. |
| `autonomy` | contracts of a file and a command, of a route, of two criteria of a page; 2 processes, 1 task, 2 attempts, 2 repairs, failures of two wordings, limit of identical ones 1 | `VerdictIsEarned`: success means that all that was required has passed, and still holds unless a later command of the same verification undid it. `NothingLeftRunning`: what the kernel lost sight of is stopped too. `ImplementsObjective`, which includes that the run ends. |

**Why the bounds are enough.** The journal's properties relate two executions of
one fingerprint and one bystander, hence three operations of two fingerprints;
two ids for them force reuse. The limit needs operations that no claim keeps
apart: three fingerprints, the third of which meets a limit of 2. The turn's
properties relate two executions of one effect and the results that report them.
A gate that asks once per kind passes every stage twice, the second time without
a request left; two edits let evidence be stale by one and by two, and one
change from outside may fall into any await. Two models and one switch make
"given up" and "next" differ; the totals are reached before and after it. Four
messages let a compaction cut before, at and after the turn's own, and three
turns make trimming remove one. Routing needs two calls in flight, a provider
that shares its failures (upstream) and one that does not, and a last resort. A
delegation is independent of others but for the loop over files. The catalogue
needs a provider that loses and one that gains a key, and a second caller that
joins. The kernel needs a command beside a file that it may undo, an application
that is replaced by another (two processes) and failures that alternate. The
lock's hazard needs three parties: an owner, a contender that inspects its lock,
and one that acquires in between. A schedule needs a daemon that is replaced on
the day it ran and a tool that holds an older record; five begun daemons and
calls allow create, start, edit, remove and start again. For the modules of
section 4 the proofs do without the bounds. Bounds in specifications:
`MaxFaults`, `MaxFailures` (failures in a row that are told apart; the cooldown
is at its cap by then, an assumption TLC checks), `MaxEdits`, `MaxOutside`,
`MaxMessages`, `MaxTurns`, `MaxCompactions`, `MaxChanges`, `MaxBegun`, `LastDay`
and the finite sets of ids and stamps.

`MCSharedFiles` also compares `Matches`, the code's reading of a weekday field,
with `Named`, the days the field names, on every part that validation lets
through: `Misread` is exactly the parts that are taken for a day they do not name,
ranges that end in 7 with a step that misses it, such as `2-7/2`, read as if it named
Sunday. Other ranges that end in 7 lose days (`0-7` is read as Sunday alone, `1-7/2`
leaves Sunday out), of which `RunsAsNamed` does not speak.

**Deadlock** is checked in the runs of the journal, the turn and the router, which
never stop. Elsewhere (`CHECK_DEADLOCK FALSE`) a turn, a run or a delegation ends,
all processes may have died, or a bound is reached.

### Fairness

- `Interruptions`: weak fairness of the loop's next round: a silent stream is
  ended by the idle watchdog of `providers/stream.ts`, so a round always ends.
- `CompletionGate`: weak fairness of the gate and of the end of a check (it has a
  timeout), strong fairness of the end of a round: a round has a bounded number of
  steps, and what happens during a step postpones its end but does not prevent it.
- `AutonomyKernel`: weak fairness of the run (straight-line code with timeouts).
- `Delegations`: weak fairness of each step of the launcher, of the detached
  process and of the consumers. The first two are straight-line code in living
  processes; the third is a timer that fires every two seconds for as long as a
  terminal is open (`ui/app.tsx` 3167-3190). Deaths and failures are not fair.
- `Catalog`: weak fairness of a pass, of the reading of the cache, of the
  continuation of forced calls and of the timer.
- `MemoryLock`: weak fairness of what a process does after it has asked (a loop
  without an await, woken by a timeout of 5 ms) and of the aging of a lock (the
  clock). Asking is not fair, nor is the passing of a deadline, so that a lock
  left behind is reclaimed by a writer that waits for as long as it takes;
  that every writer returns assumes that deadlines pass.
- The journal, the turn's rounds over it, the transcript, the router and the
  schedules have only safety properties.

### Findings

1. `turn_context` (`agent/agent.ts` 6552): the branches that meet the context
   limit retry with a smaller request without saving the round, although its
   finished steps have had their receipts released: the retried model does not
   know what they did.
2. `routing_keys` (`providers/routing-provider.ts` 462): two calls refused with
   the same key advance the key twice; the provider is cooled down although its
   next key was never tried.
3. `turn_end_delegated` (`agent/agent.ts` 4744): a sub-agent's check is stamped
   with the workspace at the time its task returns; an edit it made after the
   check is vouched for by a check that never saw it.
4. `turn_end_pages` (`agent/agent.ts` 6488): the verdict on a page that does not
   answer is overwritten when the turn changed nothing and had no contract.
5. `transcript_stored` (`agent/agent.ts` 3459): what is still to be stored is
   found through the turn's own message; when compaction or trimming removes it in
   the middle of the turn, what the host pushed before is never stored.

`PROJECT.json` quotes the comment or document each of them contradicts.

### Known exposures

Behaviour of the code that the models show and that the properties of passing runs
therefore exclude, by an assumption or a history variable named here. No document
promises otherwise, or the case is one the authors chose.

- *Turn*: a crash, a cancellation or a key rejected for good between a step's
  acknowledgement and the saving of its round (`agent/agent.ts` 4957) loses what the
  step told, so `ReleasedIsTold` speaks of scenarios without them (`Saved`). A hook that blocks a
  prompt or a skill that fails (3753, 3793) ends a turn before its message is
  pushed, and `recordVerdict` then rewrites the stored reply of the turn before
  (`VerdictJoinsItsTurn`, stated in `SessionTranscript`, not checked).
- *Interruptions*: a good round does not reset the counter of interruptions
  without progress unless a step finished (5099), and the pause comes on the ninth
  where `docs/architecture/14-AGENT-HARNESS-RECONSTRUCTION.md` §26 speaks of eight.
- *Gate*: a failing check on the final code does not prevent "verified" when
  another check passed on it and there is no contract.
- *Routing*: the kind of the last failure decides whether a cooldown may be probed
  (`routing/health.ts` 150, 188), although the cooldown may stem from an earlier
  rate limit (`ProbesOnlyPassingFaults`, stated, not checked).
- *Catalogue*: a forced refresh that arrives during a forced pass shares it
  (`routing/catalog-service.ts` 201-206); a cache read during a pass may publish
  older models (`crossed`).
- *Delegations*: any terminal of the project consumes the notice promised to the
  session that started the delegation (`agent/delegations.ts` 174 against 116;
  `LauncherIsTold`, stated, not checked); a process that ends before its
  launcher's second write (110) is put back to running (`overtaken`); a killed
  process leaves its record running (`lost`).
- *Kernel*: criteria are judged one after another (`contract/evaluate.ts` 178-333), so
  that a command of the contract (267) may undo what an earlier criterion has passed
  on, and the run still ends as `verified_success` (`spoilt`). A process on which a
  kill has no effect is left running, and nobody is told (`autonomy/kernel.ts` 1019,
  `exec/shell.ts` 311-336; `unkilled`). An application that was spawned before a
  repair may be judged after it
  (733-738); a process that is ready without a URL is started twice; a contract whose
  only criterion of a page is `no_external_requests` starts no application and cannot
  pass (724-730 against `contract/evaluate.ts` 121); the judge's
  cost is not in the ledger; a supplied contract without a required criterion
  succeeds at once; a repair of commands only ends the run.
- *Lock*: a session suspended for thirty seconds between creating the lock and
  filling it loses the lock and does not notice (`memory/lock.ts` 62;
  `Pauses = TRUE`). A reaper left by a dead process is not recovered, as
  `docs/audits/2026-10-system-audit/ARCHITECTURE.md` line 114 says (`Orphaned`).
- *Schedules*: `touchLastRunAt` and the tools write back what they read earlier, so
  that a removed schedule comes back, a disabled one is enabled again, or the mark
  of the day is lost and a restarted daemon runs it once more (`forgotten`); so is
  the mark when the daemon ends between the start of the run and its record
  (`daemon/scheduler.ts` 83-92). Two daemons that start together both find nobody
  and both run (`together`). A tool or a daemon that has read the pid of a dead process
  removes the file after an await, when it may name a daemon that has started since
  (`tools/schedule.ts` 303-306), and a daemon that exits removes the pid of its
  successor (`disowned`); nobody finds that daemon any more, and the next one runs
  beside it, every day, for as long as both live (`crowded`). A timer of sixty seconds
  that drifts may skip a minute. A weekday range that ends on Sunday written as 7 is
  read as another when it begins with 0 or has a step (`tools/schedule.ts` 515-583).
- *Transcript*: a notice that arrives while a PreCompact hook is awaited shifts the two
  lists against each other (`agent/agent.ts` 3344; `raced`).

## 4. The proofs

The theorems hold for every value of the constants that meets the assumptions
named in the modules. They are in eight modules, several of which speak of more than one component, and use only those assumptions
and the library's facts on finite sets. One assumption is arithmetic, not code:
`PowersAreNatural` (a power of two is a natural number), because the provers do not
know exponentiation. Each rests on an inductive invariant: none
of the properties below is inductive alone. TLC checked every invariant on the
instances of the runs before it was proved.

| Module | Theorems | Invariant |
|---|---|---|
| `ToolOperationJournal_proofs` | `TypeCorrect`, `AtMostOneClaim`, `RunningIsPending`, `MemoryMatchesStore`, `StoreCanBeLoaded`, `QuarantineHolds`, `KeepsItsClaims` | `IInv` |
| `AgentTurn_proofs` | `TurnTypeCorrect`, `UsesTheJournal`, `ToolsAreAwaited`; without context limits `AcknowledgedIsTold`, `RepeatsAreKnowing` | `TurnInv`, `KeptInv` |
| `TurnEnd_proofs` | `RoundsTypeCorrect`, `GivenUpForGood`, `PausesAreEarned`; `TranscriptTyped`, `TranscriptAlignedWithStore`, `TranscriptKeepsItsOrder`, `TranscriptResumes` | `RoundInv`; `TranscriptTypes`, `Bounded`, `Aligned`, `Shown` |
| `CompletionGate_proofs` | `GateTypeCorrect`, `VerifiedWasObserved`, `SuccessIsUndoubted` | `GateInv` |
| `AutonomyKernel_proofs` | `KernelTypeCorrect`, `SuccessIsEarned`, `NothingOutlivesTheRun`, `RunsAreObjectives` | `KernelInv` |
| `Background_proofs` | `DelegationTypeCorrect`, `EndsAreReadable`; `ForcedRefreshAsks`, `CatalogIsCurrent` | `DelegationInv`; `CatalogInv` |
| `FreeRouting_proofs` | `RoutingTypeCorrect`, `FreeModeIsFree`, `CondemnedForFreeCalls`, `PlansArePatient` | `RoutingInv` |
| `SharedFiles_proofs` | `LockTypeCorrect`, `MemoryIsExclusive`, `NobodyIsOvertaken`; `SchedulesTyped`, `SchedulesRunOnce`, `OneDaemonListens`, `SchedulesRunAsNamed`; `FilesTyped` | `LockInv`, `QueueInv`; `ScheduleInv` |

**The journal.** `IInv` is `TypeOK`, `ReceiptsAgree`, `SingleClaim`,
`BarriersHold`, `ExecutingIsStarted` and `StraysAreBarred`. `SingleClaim` holds
because a start looks at memory, so memory must agree with the store
(`ReceiptsAgree`) and a barrier must name a pending operation of its own fingerprint
(`BarriersHold`). A running tool's receipt is not released because it says "started"
(`ExecutingIsStarted`), or, in a journal that was constructed later, because it is
uncertain and barred (`StraysAreBarred`). `StoreCanBeLoaded` needs a further invariant
on cardinalities. There may be infinitely many operations: that those in the store
are finitely many is part of the invariant (`BoundedStore`). `KeepsItsClaims` is the
refinement of `EffectClaims`: `StoreSteps` reduces every action to receipts that are
released and at most one execution that begins, `HolderAfter` follows the holder of
each fingerprint through such a step, and `BarsHold` the barred ones. No step maps to
more than one abstract step, also when a start first acknowledges other receipts.

**The turn.** `UsesTheJournal` shows that every step of a turn is a step of the
journal's specification or leaves its variables alone, so that the journal's
theorems are theorems about turns and `IInv` can be taken for granted in the turn's
own invariant, which adds the turn's types, that what runs has a name the SDK knows,
and that what the SDK waits for runs (`RunningIsNamed`, `WaitingRuns`). The two
theorems about what the model is told assume `NoContextLimits`, which finding 1
shows to be needed, and speak of scenarios in which every failed round is saved and
ids are not reused (`Saved`; see "Known exposures"). Their invariant says that there
each call id stands for one operation (`OneCallEach`), results name the
operation that produced them (`ResultsAttributed`), a finished step is saved before
its receipts are released (`StepsSaved`), and a released outcome is told
(`AckedIsTold`).

**Interruptions.** `AbandonedAreTried`: a model that was moved away from is among
the tried ones, so it is not chosen again; `CountsIdleRounds`: the counter of
interruptions without progress is the number of rounds that made none, so a pause
comes after all of them. The bounds of the counters follow for any limits.

**The transcript.** Any number of turns, messages and compactions. The argument has
three layers, each an invariant that rests on the one before. `TranscriptTypes` and
`Bounded` hold whatever happens: even when a notice comes while a compaction waits
for its PreCompact hook, and the two lists are then cut at different places, no place
points past the table. `Aligned` adds, as long as that has not happened, that each
message with a place is the row it names, that a message without one is in no row, and
that each row is a message of its own; while a compaction is under way the lists it
has prepared obey the same (`Agrees`, `Stores`). It needs `NamedByFirst` (only the
first message can be a summary), because what waits for its place must be stored under
a name of its own. `Shown` adds, as long as no notice was stored ahead of what waited,
that places ascend (`Ascends`), that every row from the first kept one on is in the list
or was dropped from memory (`Shows`), and that behind a message of the turn that
waits all wait (`NoneBehind`): this is why what is appended later comes after all that
is stored. Three forms of change carry all steps: lists that grow at the end and have
places filled in (`Grows`), lists from which messages are taken (`Within`, `Taken`), and
a verdict that rewrites one reply in memory and table (`Rewritten`). The lemmas about
them speak of any lists and are applied to the session's and to the prepared ones.
`TranscriptKeepsItsOrder` says more than any run checks: memory and table have the
messages in the same order.

**The gate.** `GateInv` follows a receipt from the check to the verdict: a stamp is
never newer than the workspace (`StampsAreOld`), what the gate has read is not older
than the receipts it judges (`ReadAfterReceipts`), a receipt that matches the
present content was observed on it (`SeenIsObserved`), a decision names only what
was observed (`DecidedIsObserved`), and what was decided before an await is compared
again when the turn finishes (`OverIsCertain`, `VerdictsByStage`). `VerifiedWasObserved`
assumes that no sub-agent edits behind its own check (`~ChildEdits`), which finding 3
shows to be needed.

**The kernel.** `CompleteIsVerified` (a complete run has passed what is required)
and `DiskIsAsSeen` (what passed on the files is still so, or was undone by a command of
the same verification) give `SuccessIsEarned`; the second holds through every
interleaving of criteria and commands because a result is taken from the files as they
are, and every later command accounts for all that passed before it. `DerivedRequires`
says that a derived contract requires something, so that an empty report is not a
success. `NothingOutlivesTheRun` rests on `NoneIsLost`: a process that runs has a handle
or was killed, also when the kernel itself knows only a later one (a process that was
ready without a URL), and on `ServerIsKnown`, as a static server has no handle and no
one but the kernel would stop it. `RunsAreObjectives` proves
that the initial states and every step map to `Objective`: the refinement without its
liveness, which is TLC's.

**Delegations.** Any number of delegations, sessions and consumers. What a
consumer is about to write is what it has read (`HoldsWhatItRead`), the output is
saved before the end is recorded (`SavedBeforeRecorded`), and nobody turns an end
into another one (`EndIsFinal`, `ReadersAgree`).

**The catalogue.** A forced call is answered by a pass that has still to ask every
provider the call is about (`WaitsForItsPass`); a call that had to wait for another
pass begins a forced one, or meets one that a fellow waiter began at the same moment
and that has asked nobody yet (`AgainMeetsAFreshPass`), which is why the callers that
are left over must run before any other event. What the catalogue does not show yet
is what the pass under way or the start's reading will publish (`ChangesAreKept`),
and a pass compares with what is still there (`PassKnowsStates`), unless the cache
was read meanwhile.

**Routing.** Background calls never name a route (`BackgroundIsAuto`), so a running
call is on a free route whenever the mode is Free, although the mode may change under
it (`RunningOnFree`). Records wait at least for what failures asked for, and time takes
from both alike (`WaitsCoverAsked`).

**The lock.** `HolderHasFile` (whoever is past the creation of the lock has its
file) gives the exclusion. What could break it is a contender that removes a file,
so the invariant follows what a contender knows from call to call: it is the only
one that holds the reaper; what it judged to be abandoned belongs to a dead process,
or is a lock without text that is old, and then nobody is in the middle of filling
it (`OldIsQuiet`); and comparing the text once more carries this over to the file it
is about to remove (`RemovalHolds`). `MemoryIsExclusive` assumes `~Pauses`.
`NobodyIsOvertaken` rests on the fact that those ahead of a process hold earlier
tickets, so that the first has nobody ahead.

**The schedules.** Any number of daemons, tools, days and parts. A process that
writes holds a record, and a daemon's is marked with the day it ran (`PlaceInv`); the
record, if it can be read, says what the last mark said (`MarkInv`); it ran on days
that have begun and were due (`RanInv`). On a day that is not crowded one daemon at
most listens (`OneListens`), so two that run it run it for different days (`RunApart`);
such a day, once run, is marked, about to be, or has lost its mark (`TodayIsMarked`),
and so a daemon about to run it for the second time does it for a lost mark
(`AgainIfExcused`): the tick reads the record, not what ran, and only these together
tie the one to the other. `OneDaemonListens` has an invariant of its own (`PidInv`): the
pid names whoever listens, and nobody listens while those who saw no daemon are still
about to act, until two started together or one was disowned. Neither needs an
assumption on the expression. `SchedulesRunAsNamed` adds the days that are named and
assumes that no part is one of `Misread`, which the run's expressions meet and the code
does not enforce (see "Known exposures"); `MatchesNamed` proves that all other parts are
never taken for a day they do not name.
`FilesTyped` joins lock and schedules, which share no variable.

**Only model-checked.** Liveness (`TurnEnds`, `EventuallyAnnounced`,
`WritersGetThrough`, `CatalogSettles`, the end of `ImplementsObjective`): temporal
properties under fairness, and ENABLED, are out of the prover's reach. Every safety
property of a passing run is stated by a theorem, under the assumptions named here.
No module declares a RECURSIVE operator.

## 5. What the models leave out

- *Journal*: a journal without a store, and the `observe` callback.
- *Turn*: prompt assembly, tool sets, agent slots, titles, the text of messages.
- *Gate*: scoped reruns and the text of claims; one check stands for those of a
  contract; a change never brings an earlier content back.
- *Transcript*: rows of tool calls and results, the text of summaries, a failing
  INSERT.
- *Routing*: scores and context relaxation (a plan may choose any candidate of the
  best group), the eviction of records past 512, an unconfigured provider, the
  awaits on the catalogue.
- *Catalogue*: the ages of answers (any time), writing the cache, an aborted pass
  (no caller gives a signal).
- *Delegations*: `generateUniqueId`'s draw; `list` and `read` change nothing.
- *Interruptions*: the installed local model may be offered again
  (`startup/routed-session.ts` 162), where the sources of a chain are offered once; it
  is offered when a key is rejected and has none itself, so that it is adopted at most
  once for each provider with a key, which `MaxFallbacks` stands for.
- *Kernel*: the journal of events and the ledger, whose budget is a flag that may
  be raised at any time; what an application serves (it answers anything while it
  lives, and does not write files); a consumer that abandons the run's events; two
  criteria with one id; children that outlive a process which ended by itself. `runObjective` is not called by `index.ts` today
  (`providers/architecture.test.ts` 55-57).
- *Lock*: a nested call of the same process, Windows' EPERM, a pid that is given
  to a new process.
- *Schedules*: one-time schedules, several schedules in one tick, the other fields
  of an expression, logs, a pid that is given to a new process, and a pid file read while it is written
  (it is then removed, as a stale one is).

**Not modelled.** The components marked `not_modelled` in `PROJECT.json`, each with
its reason. Most of the repository's lines are of four kinds in which a model would
have nothing to tell apart: the terminal interface, the adapters that translate one
message format into another, text (prompts, patterns over requests and files,
scores), and tooling for benchmarks and websites. The parts with control of their own
that are left are small: the registry of background processes, the states of memory
claims, the caches of clients.

## 6. The plan

In this order:

1. **Done**: journal, turn, interruptions, gate, transcript, router, catalogue,
   delegations, kernel, lock, schedules; proofs about each of them.
2. **Theorems** that join components: that the journal's receipts, the turn's
   transcript and the session's table tell the same end of an operation.
3. **Background processes**: `tools/bash.ts`, the limit of eight that parallel
   starts can pass, stop and exit in any order.
4. **Memory claims**: `memory/store.ts`, status against evidence when body, index
   and history are written one after the other.
5. **Transcript with its rows of tool calls**, so that the repair of unanswered
   calls on reopening can be stated.

Runs stay few: one per question, and modules without common state share a run.
