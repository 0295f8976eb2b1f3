----------------------------- MODULE Delegations -----------------------------
(***************************************************************************)
(* Background delegations: src/agent/delegations.ts, the detached process  *)
(* that runs one (`runBackgroundDelegation`, src/index.ts) and the         *)
(* sessions that announce it (`consumeBackgroundNotifications`,            *)
(* src/agent/agent.ts).                                                    *)
(*                                                                         *)
(* The processes share one JSON record per delegation and no lock.  A      *)
(* record is read whole, changed in memory and written back whole; a write *)
(* truncates the file before it fills it, so a reader may find nothing it  *)
(* can parse, and a slow writer may put back what another has replaced.    *)
(***************************************************************************)
EXTENDS Naturals

CONSTANTS
    Job,           \* delegations, by id
    Session,       \* terminals open on the project
    Launcher,      \* the session that starts each delegation
    Consumer,      \* calls of consumeNotifications that may be under way
    SessionOf,     \* the session of each
    MaxFaults,     \* bound: processes that die and writes that fail
    NoJob, NoFile, Torn

Status == {"running", "complete", "error"}
Record == [status : Status, notified : BOOLEAN]

ASSUME PlacesAssumption ==
    /\ Launcher \in [Job -> Session] /\ SessionOf \in [Consumer -> Session]
    /\ NoJob \notin Job /\ {NoFile, Torn} \cap Record = {}
    /\ MaxFaults \in Nat

VARIABLES
    file,       \* the record of each delegation
    output,     \* its saved output
    start,      \* how far its launcher is
    child,      \* how far its process is
    outcome,    \* what its process is about to record
    caught,     \* delegations whose process is in its last catch
    consumers,
    told,       \* delegations announced in the conversation of each session
    faults,
    overtaken,  \* history: delegations whose process did not wait for the launcher
    lost        \* history: delegations hit by a fault

delegationVars == <<file, output, start, child, outcome, caught, consumers, told, faults, overtaken, lost>>

Running      == [status |-> "running", notified |-> FALSE]
IdleConsumer == [stage |-> "idle", todo |-> {}, job |-> NoJob, status |-> "running", found |-> {}]

Readable(j)  == file[j] \notin {NoFile, Torn}
Truncate(j)  == file' = [file EXCEPT ![j] = Torn]

(* Filling a file that another writer has filled since it was truncated    *)
(* may leave the end of the longer text behind.                            *)
Fill(j, r) ==
    \/ file' = [file EXCEPT ![j] = r]
    \/ file[j] # Torn /\ Truncate(j)

-----------------------------------------------------------------------------
(* The launcher: DelegationManager.start.                                  *)

StartGoes(j, stage) ==
    /\ start' = [start EXCEPT ![j] = stage]
    /\ UNCHANGED <<output, outcome, caught, consumers, told, faults, overtaken, lost>>

StartRecords(j) ==
    /\ \/ start[j] = "idle" /\ Truncate(j) /\ StartGoes(j, "recording")
       \/ start[j] = "recording" /\ Fill(j, Running) /\ StartGoes(j, "recorded")
    /\ UNCHANGED child

Spawns(j) ==
    /\ start[j] = "recorded"
    /\ StartGoes(j, "spawned")
    /\ child' = [child EXCEPT ![j] = "booting"]
    /\ UNCHANGED file

(* The record is written again, with the pid of the process, and the model *)
(* is answered "You will be notified when it completes."                   *)
RecordsPid(j) ==
    /\ \/ start[j] = "spawned" /\ Truncate(j) /\ StartGoes(j, "rerecording")
       \/ start[j] = "rerecording" /\ Fill(j, Running) /\ StartGoes(j, "started")
    /\ UNCHANGED child

LauncherStep(j) == StartRecords(j) \/ Spawns(j) \/ RecordsPid(j)

-----------------------------------------------------------------------------
(* The process of a delegation: runBackgroundDelegation.                   *)

ChildGoes(j, stage) ==
    /\ child' = [child EXCEPT ![j] = stage]
    /\ overtaken' = IF start[j] \in {"spawned", "rerecording"} THEN overtaken \cup {j} ELSE overtaken
    /\ UNCHANGED <<start, consumers, told>>

(* Faulty: what throws is caught and not recorded.                         *)
ThrowsSilently(j) ==
    /\ caught' = caught \cup {j}
    /\ ChildGoes(j, "exited")
    /\ UNCHANGED <<file, output, outcome>>

(* Faulty: the record is closed without setting its status.                *)
ThrowsUnstated(j) ==
    /\ caught' = caught \cup {j}
    /\ ChildGoes(j, IF j \in caught THEN "exited" ELSE "closing")
    /\ UNCHANGED <<file, output, outcome>>

(* Whatever throws is recorded with failDelegation; the process exits when *)
(* that throws too.                                                        *)
Throws(j) ==
    /\ caught' = caught \cup {j}
    /\ outcome' = [outcome EXCEPT ![j] = "error"]
    /\ ChildGoes(j, IF j \in caught THEN "exited" ELSE "closing")
    /\ UNCHANGED <<file, output>>

Boots(j) ==
    /\ child[j] = "booting"
    /\ IF Readable(j)
       THEN ChildGoes(j, "working") /\ UNCHANGED <<file, output, outcome, caught>>
       ELSE Throws(j)

(* The task succeeds, or reports that it failed, or throws.                *)
Works(j) ==
    /\ child[j] = "working"
    /\ \/ /\ \E result \in {"complete", "error"} : outcome' = [outcome EXCEPT ![j] = result]
          /\ ChildGoes(j, "closing")
          /\ UNCHANGED <<file, output, caught>>
       \/ Throws(j)

(* completeDelegation and failDelegation: the record is loaded,            *)
Closes(j) ==
    /\ child[j] = "closing"
    /\ IF Readable(j)
       THEN ChildGoes(j, "loaded") /\ UNCHANGED <<file, output, outcome, caught>>
       ELSE Throws(j)

(* Faulty: an output that exists is kept.                                  *)
SavesOnce(j) ==
    /\ child[j] = "loaded"
    /\ output' = [output EXCEPT ![j] = IF @ = "none" THEN outcome[j] ELSE @]
    /\ ChildGoes(j, "saved")
    /\ UNCHANGED <<file, outcome, caught>>

(* the output is saved, and then the record is written.                    *)
Saves(j) ==
    /\ child[j] = "loaded"
    /\ output' = [output EXCEPT ![j] = outcome[j]]
    /\ ChildGoes(j, "saved")
    /\ UNCHANGED <<file, outcome, caught>>

RecordsOutcome(j) ==
    /\ \/ child[j] = "saved" /\ Truncate(j) /\ ChildGoes(j, "recording")
       \/ /\ child[j] = "recording"
          /\ Fill(j, [status |-> outcome[j], notified |-> FALSE])
          /\ ChildGoes(j, "exited")
    /\ UNCHANGED <<output, outcome, caught>>

ChildStep(j) == Boots(j) \/ Works(j) \/ Closes(j) \/ Saves(j) \/ RecordsOutcome(j)

-----------------------------------------------------------------------------
(* Sessions: consumeNotifications, called by a terminal every two seconds  *)
(* and at the start of a turn.                                             *)

ConsumerGoes(k, c) ==
    /\ consumers' = [consumers EXCEPT ![k] = c]
    /\ UNCHANGED <<output, start, child, outcome, caught, faults, overtaken, lost>>

Lists(k) ==
    /\ consumers[k].stage = "idle"
    /\ ConsumerGoes(k, [IdleConsumer EXCEPT !.stage = "scanning",
                                            !.todo = {j \in Job : file[j] # NoFile}])
    /\ UNCHANGED <<file, told>>

Reads(k) ==
    /\ consumers[k].stage = "scanning"
    /\ \E j \in consumers[k].todo :
        LET passed == [consumers[k] EXCEPT !.todo = @ \ {j}] IN
        IF Readable(j) /\ file[j].status # "running" /\ ~file[j].notified
        THEN ConsumerGoes(k, [passed EXCEPT !.stage = "read", !.job = j, !.status = file[j].status])
        ELSE ConsumerGoes(k, passed)
    /\ UNCHANGED <<file, told>>

(* notifiedAt is written before the notice is given to anyone.             *)
Marks(k) ==
    LET c == consumers[k]
        j == c.job IN
    /\ \/ c.stage = "read" /\ Truncate(j) /\ ConsumerGoes(k, [c EXCEPT !.stage = "marking"])
       \/ /\ c.stage = "marking"
          /\ Fill(j, [status |-> c.status, notified |-> TRUE])
          /\ ConsumerGoes(k, [c EXCEPT !.stage = "scanning", !.job = NoJob, !.found = @ \cup {j}])
    /\ UNCHANGED told

Announces(k) ==
    /\ consumers[k].stage = "scanning" /\ consumers[k].todo = {}
    /\ told' = [told EXCEPT ![SessionOf[k]] = @ \cup consumers[k].found]
    /\ ConsumerGoes(k, IdleConsumer)
    /\ UNCHANGED file

ConsumerStep(k) == Lists(k) \/ Reads(k) \/ Marks(k) \/ Announces(k)

-----------------------------------------------------------------------------
(* Faults.                                                                 *)

Fault == faults < MaxFaults /\ faults' = faults + 1

(* The process of a delegation is killed, or the machine restarts.         *)
ChildDies(j) ==
    /\ Fault
    /\ child[j] \notin {"none", "exited", "dead"}
    /\ child' = [child EXCEPT ![j] = "dead"]
    /\ lost' = lost \cup {j}
    /\ UNCHANGED <<file, output, start, outcome, caught, consumers, told, overtaken>>

(* The disk refuses a write of completeDelegation or failDelegation.       *)
WriteFails(j) ==
    /\ Fault
    /\ child[j] \in {"loaded", "saved", "recording"}
    /\ Throws(j)
    /\ lost' = lost \cup {j}

(* A terminal is closed while it starts delegations or announces them.     *)
Held(k) == consumers[k].found \cup ({consumers[k].job} \ {NoJob})

SessionDies(s) ==
    LET mine    == {k \in Consumer : SessionOf[k] = s}
        halfway == {j \in Job : Launcher[j] = s /\ start[j] \notin {"idle", "started"}} IN
    /\ Fault
    /\ consumers' = [k \in Consumer |-> IF k \in mine THEN IdleConsumer ELSE consumers[k]]
    /\ start' = [j \in Job |-> IF j \in halfway THEN "dead" ELSE start[j]]
    /\ lost' = lost \cup halfway \cup UNION {Held(k) : k \in mine}
    /\ UNCHANGED <<file, output, child, outcome, caught, told, overtaken>>

-----------------------------------------------------------------------------

DelegationInit ==
    /\ file = [j \in Job |-> NoFile]
    /\ output = [j \in Job |-> "none"]
    /\ start = [j \in Job |-> "idle"]
    /\ child = [j \in Job |-> "none"]
    /\ outcome = [j \in Job |-> "none"]
    /\ caught = {}
    /\ consumers = [k \in Consumer |-> IdleConsumer]
    /\ told = [s \in Session |-> {}]
    /\ faults = 0
    /\ overtaken = {}
    /\ lost = {}

DelegationNext ==
    \/ \E j \in Job :
        \/ LauncherStep(j)
        \/ ChildStep(j) /\ UNCHANGED <<faults, lost>>
        \/ ChildDies(j)
        \/ WriteFails(j)
    \/ \E k \in Consumer : ConsumerStep(k)
    \/ \E s \in Session : SessionDies(s)

(* Every process that lives goes on; the timer of a terminal keeps firing. *)
Fairness ==
    /\ \A j \in Job : WF_delegationVars(LauncherStep(j))
                      /\ WF_delegationVars(ChildStep(j) /\ UNCHANGED <<faults, lost>>)
    /\ \A k \in Consumer : WF_delegationVars(ConsumerStep(k))

DelegationSpec == DelegationInit /\ [][DelegationNext]_delegationVars /\ Fairness

-----------------------------------------------------------------------------
(* Properties.                                                             *)

DelegationTypeOK ==
    /\ file \in [Job -> Record \cup {NoFile, Torn}]
    /\ output \in [Job -> {"none", "complete", "error"}]
    /\ start \in [Job -> {"idle", "recording", "recorded", "spawned", "rerecording", "started", "dead"}]
    /\ child \in [Job -> {"none", "booting", "working", "closing", "loaded", "saved", "recording",
                          "exited", "dead"}]
    /\ outcome \in [Job -> {"none", "complete", "error"}]
    /\ consumers \in [Consumer -> [stage : {"idle", "scanning", "read", "marking"},
                                   todo : SUBSET Job, job : Job \cup {NoJob},
                                   status : Status, found : SUBSET Job]]
    /\ told \in [Session -> SUBSET Job]

Announced == UNION {told[s] : s \in Session}

(* delegation_read answers a finished delegation with its saved output:    *)
(* whichever process dies or write fails in between, a record that says    *)
(* how the task ended has that end on disk, never nothing and never what   *)
(* an earlier attempt to record it had saved.                              *)
OutcomeIsReadable ==
    \A j \in Job : Readable(j) /\ file[j].status # "running" => output[j] = file[j].status

(* Every delegation whose start was confirmed is announced to a session,   *)
(* except when a process dies or a write fails on its way, or when its     *)
(* process is so fast, or its launcher so slow, that it does not find the  *)
(* record with the pid: nothing else loses a notice, not the reads of half *)
(* written records, nor two sessions that mark the same record.            *)
EventuallyAnnounced ==
    \A j \in Job : start[j] = "started" ~> j \in Announced \cup overtaken \cup lost

(* What start promises the session it answers, "You will be notified when  *)
(* it completes": when the notice has been given, that session has it.     *)
(* In no run: the code does not keep it, as any session of the project may *)
(* take the notice that was promised to another (see README).              *)
LauncherIsTold ==
    \A j \in Job : start[j] = "started" /\ j \in Announced => j \in told[Launcher[j]]
=============================================================================
