--------------------------- MODULE Background_proofs ---------------------------
(***************************************************************************)
(* Theorems on what goes on beside the turn: background delegations, for   *)
(* any number of delegations, sessions, concurrent consumers and faults,   *)
(* and the passes of the catalogue, for any providers, callers and keys.   *)
(* The two share no state.                                                 *)
(***************************************************************************)
EXTENDS Delegations, Catalog, TLAPS

(***************************************************************************)
(* Delegations.                                                            *)
(***************************************************************************)

Ended(j) == Readable(j) /\ file[j].status # "running"

(* A consumer that marks a delegation holds one; a process that closes one *)
(* knows how it ended.                                                     *)
HoldsWhatItRead ==
    /\ \A k \in Consumer : consumers[k].stage \in {"read", "marking"} => consumers[k].job \in Job
    /\ \A j \in Job : child[j] \in {"closing", "loaded", "saved", "recording"} =>
                         outcome[j] # "none"

(* Once an end can be read, by anyone, the process has exited and nothing  *)
(* changes the output any more: it is written before the record, and no    *)
(* failure sends a process back that has written its record.               *)
SavedBeforeRecorded ==
    \A j \in Job : child[j] \in {"saved", "recording"} => output[j] = outcome[j]

EndIsFinal ==
    \A j \in Job : Ended(j) => child[j] = "exited" /\ output[j] = file[j].status

ReadersAgree ==
    \A k \in Consumer : consumers[k].stage \in {"read", "marking"} =>
        /\ child[consumers[k].job] = "exited"
        /\ output[consumers[k].job] = consumers[k].status

SpawnedOnce ==
    \A j \in Job : start[j] \in {"idle", "recording", "recorded"} => child[j] = "none"

DelegationInv ==
    /\ DelegationTypeOK /\ HoldsWhatItRead
    /\ SpawnedOnce /\ SavedBeforeRecorded /\ EndIsFinal /\ ReadersAgree

-----------------------------------------------------------------------------
(* Steps by the parts they touch.                                          *)

(* The steps of the launcher and of the process of one delegation, and of  *)
(* one consumer, and the deaths.                                           *)
LEMMA Steps ==
    ASSUME [DelegationNext]_delegationVars
    PROVE  \/ \E j \in Job : \/ StartRecords(j) \/ Spawns(j) \/ RecordsPid(j)
                             \/ Boots(j) \/ Works(j) \/ Closes(j) \/ Saves(j)
                             \/ RecordsOutcome(j) \/ ChildDies(j) \/ WriteFails(j)
           \/ \E k \in Consumer : Lists(k) \/ Reads(k) \/ Marks(k) \/ Announces(k)
           \/ \E s \in Session : SessionDies(s)
           \/ UNCHANGED delegationVars
  BY DEF DelegationNext, LauncherStep, ChildStep, ConsumerStep

(* A file that a writer truncates or fills holds a record or nothing.      *)
LEMMA Filled ==
    ASSUME DelegationTypeOK, NEW j \in Job, NEW r \in Record, Fill(j, r)
    PROVE  /\ file' \in [Job -> Record \cup {NoFile, Torn}]
           /\ file' = [file EXCEPT ![j] = r] \/ file' = [file EXCEPT ![j] = Torn]
  BY DEF Fill, Truncate, DelegationTypeOK

ConsumerState ==
    [stage : {"idle", "scanning", "read", "marking"}, todo : SUBSET Job,
     job : Job \cup {NoJob}, status : Status, found : SUBSET Job]

(* One consumer goes on.                                                   *)
LEMMA Moved ==
    ASSUME DelegationTypeOK, HoldsWhatItRead, NEW k \in Consumer, NEW c \in ConsumerState,
           c.stage \in {"read", "marking"} => c.job \in Job,
           consumers' = [consumers EXCEPT ![k] = c]
    PROVE  /\ consumers' \in [Consumer -> ConsumerState]
           /\ \A i \in Consumer : consumers'[i].stage \in {"read", "marking"} =>
                                    consumers'[i].job \in Job
  BY DEF DelegationTypeOK, HoldsWhatItRead, ConsumerState

(* Every step keeps the types.                                             *)
LEMMA TypeStep ==
    ASSUME DelegationTypeOK, HoldsWhatItRead, [DelegationNext]_delegationVars
    PROVE  DelegationTypeOK' /\ HoldsWhatItRead'
<1> USE PlacesAssumption DEF DelegationTypeOK, HoldsWhatItRead, Status
<1>0. Running \in Record
  BY DEF Running, Record
<1>1. ASSUME NEW j \in Job, StartRecords(j) \/ Spawns(j) \/ RecordsPid(j)
      PROVE  DelegationTypeOK' /\ HoldsWhatItRead'
  <2>1. file' \in [Job -> Record \cup {NoFile, Torn}]
    BY <1>0, <1>1, Filled DEF StartRecords, Spawns, RecordsPid, Truncate
  <2>2. /\ start' \in [Job -> {"idle", "recording", "recorded", "spawned", "rerecording", "started",
                               "dead"}]
        /\ child' = child \/ child' = [child EXCEPT ![j] = "booting"]
        /\ UNCHANGED <<output, outcome, consumers, told>>
    BY <1>1 DEF StartRecords, Spawns, RecordsPid, StartGoes
  <2> QED
    BY <2>1, <2>2
<1>2. ASSUME NEW j \in Job, Boots(j) \/ Works(j) \/ Closes(j) \/ Saves(j) \/ RecordsOutcome(j)
                            \/ ChildDies(j) \/ WriteFails(j)
      PROVE  DelegationTypeOK' /\ HoldsWhatItRead'
  <2>1. CASE Boots(j) \/ Works(j) \/ Closes(j) \/ Saves(j) \/ ChildDies(j) \/ WriteFails(j)
    <3>0. ASSUME Throws(j)
          PROVE  DelegationTypeOK' /\ HoldsWhatItRead'
      <4>1. PICK stage \in {"exited", "closing"} : ChildGoes(j, stage)
        BY <3>0 DEF Throws
      <4> QED
        BY <3>0, <4>1 DEF Throws, ChildGoes
    <3>1. CASE Boots(j)
      BY <3>0, <3>1 DEF Boots, ChildGoes
    <3>2. CASE Works(j)
      <4>1. CASE Throws(j)
        BY <3>0, <4>1
      <4>2. ASSUME NEW result \in {"complete", "error"}, outcome' = [outcome EXCEPT ![j] = result],
                   ChildGoes(j, "closing"), UNCHANGED <<file, output, caught>>
            PROVE  DelegationTypeOK' /\ HoldsWhatItRead'
        BY <4>2 DEF ChildGoes
      <4> QED
        BY <3>2, <4>1, <4>2 DEF Works
    <3>3. CASE Closes(j)
      BY <3>0, <3>3 DEF Closes, ChildGoes
    <3>4. CASE Saves(j)
      BY <3>4 DEF Saves, ChildGoes
    <3>5. CASE ChildDies(j)
      BY <3>5 DEF ChildDies
    <3>6. CASE WriteFails(j)
      BY <3>0, <3>6 DEF WriteFails, ChildGoes
    <3> QED
      BY <2>1, <3>1, <3>2, <3>3, <3>4, <3>5, <3>6
  <2>2. CASE RecordsOutcome(j)
    <3>1. child[j] = "recording" => [status |-> outcome[j], notified |-> FALSE] \in Record
      BY DEF Record
    <3>2. file' \in [Job -> Record \cup {NoFile, Torn}]
      BY <2>2, <3>1, Filled DEF RecordsOutcome, Truncate
    <3>3. PICK stage \in {"recording", "exited"} :
              ChildGoes(j, stage) /\ UNCHANGED <<output, outcome, caught>>
      BY <2>2 DEF RecordsOutcome
    <3>4. child' = [child EXCEPT ![j] = stage] /\ UNCHANGED <<start, consumers, told>>
      BY <3>3 DEF ChildGoes
    <3>5. child[j] \in {"saved", "recording"}
      BY <2>2 DEF RecordsOutcome
    <3> QED
      BY <3>2, <3>3, <3>4, <3>5
  <2> QED
    BY <1>2, <2>1, <2>2
<1>3. ASSUME NEW k \in Consumer, Lists(k) \/ Reads(k) \/ Marks(k) \/ Announces(k)
      PROVE  DelegationTypeOK' /\ HoldsWhatItRead'
  <2>1. CASE Lists(k)
    BY <2>1 DEF Lists, ConsumerGoes, IdleConsumer
  <2>2. CASE Reads(k)
    <3>1. PICK j \in consumers[k].todo :
            \/ Readable(j) /\ consumers' = [consumers EXCEPT ![k] =
                 [consumers[k] EXCEPT !.todo = @ \ {j}, !.stage = "read", !.job = j,
                                      !.status = file[j].status]]
            \/ consumers' = [consumers EXCEPT ![k] = [consumers[k] EXCEPT !.todo = @ \ {j}]]
      BY <2>2 DEF Reads, ConsumerGoes
    <3>2. j \in Job /\ (Readable(j) => file[j] \in Record)
      BY <3>1 DEF Readable
    <3>3. Readable(j) => file[j].status \in Status
      BY <3>2 DEF Record
    <3>4. PICK c \in ConsumerState : /\ consumers' = [consumers EXCEPT ![k] = c]
                                     /\ c.stage \in {"read", "marking"} => c.job \in Job
      <4> DEFINE passed == [consumers[k] EXCEPT !.todo = @ \ {j}]
                 found  == [passed EXCEPT !.stage = "read", !.job = j, !.status = file[j].status]
      <4>0. consumers[k] \in ConsumerState
        BY DEF ConsumerState
      <4>1. passed \in ConsumerState /\ passed.stage = consumers[k].stage
        BY <4>0 DEF ConsumerState
      <4>2. Readable(j) => found \in ConsumerState /\ found.job = j
        BY <4>0, <3>2, <3>3 DEF ConsumerState
      <4>3. \/ Readable(j) /\ consumers' = [consumers EXCEPT ![k] = found]
            \/ consumers' = [consumers EXCEPT ![k] = passed]
        BY <3>1
      <4>4. consumers[k].stage = "scanning"
        BY <2>2 DEF Reads
      <4> HIDE DEF passed, found
      <4> QED
        BY <4>1, <4>2, <4>3, <4>4, <3>2
    <3>5. UNCHANGED <<file, told, output, start, child, outcome>>
      BY <2>2 DEF Reads, ConsumerGoes
    <3> QED
      BY <3>4, <3>5, Moved DEF ConsumerState
  <2>3. CASE Marks(k)
    <3>1. consumers[k].job \in Job
      BY <2>3 DEF Marks
    <3>2. [status |-> consumers[k].status, notified |-> TRUE] \in Record
      BY DEF Record
    <3>3. file' \in [Job -> Record \cup {NoFile, Torn}]
      BY <2>3, <3>1, <3>2, Filled DEF Marks, Truncate
    <3>4. PICK c \in ConsumerState : /\ consumers' = [consumers EXCEPT ![k] = c]
                                     /\ c.stage \in {"read", "marking"} => c.job \in Job
      <4>1. consumers[k] \in ConsumerState
        BY DEF ConsumerState
      <4>2. /\ [consumers[k] EXCEPT !.stage = "marking"] \in ConsumerState
            /\ [consumers[k] EXCEPT !.stage = "scanning", !.job = NoJob,
                                    !.found = @ \cup {consumers[k].job}] \in ConsumerState
        BY <3>1, <4>1 DEF ConsumerState
      <4> QED
        BY <2>3, <3>1, <4>2 DEF Marks, ConsumerGoes, ConsumerState
    <3>5. UNCHANGED <<told, output, start, child, outcome>>
      BY <2>3 DEF Marks, ConsumerGoes
    <3> QED
      BY <3>3, <3>4, <3>5, Moved DEF ConsumerState
  <2>4. CASE Announces(k)
    BY <2>4 DEF Announces, ConsumerGoes, IdleConsumer
  <2> QED
    BY <1>3, <2>1, <2>2, <2>3, <2>4
<1>4. CASE \E s \in Session : SessionDies(s)
  BY <1>4 DEF SessionDies, IdleConsumer
<1>5. CASE UNCHANGED delegationVars
  BY <1>5 DEF delegationVars
<1> QED
  BY <1>1, <1>2, <1>3, <1>4, <1>5, Steps

-----------------------------------------------------------------------------
(* The end of a delegation.                                                *)

(* A record that a step leaves as it was, or whose end the process has     *)
(* saved, and a consumer that read such a record, are as they should be.   *)
LEMMA EndsKept ==
    ASSUME DelegationTypeOK, HoldsWhatItRead, EndIsFinal, ReadersAgree,
           \A j \in Job : child[j] = "exited" => child'[j] = "exited" /\ output'[j] = output[j],
           \A j \in Job : \/ file'[j] = file[j]
                          \/ Ended(j)' => child'[j] = "exited" /\ output'[j] = file'[j].status,
           \A k \in Consumer : consumers'[k].stage \in {"read", "marking"} =>
               LET j == consumers'[k].job IN
               \/ /\ consumers[k].stage \in {"read", "marking"}
                  /\ consumers'[k].job = consumers[k].job
                  /\ consumers'[k].status = consumers[k].status
               \/ j \in Job /\ Ended(j) /\ consumers'[k].status = file[j].status
    PROVE  EndIsFinal' /\ ReadersAgree'
<1>1. EndIsFinal'
  BY DEF EndIsFinal, Ended, Readable
<1>2. ReadersAgree'
  BY DEF EndIsFinal, ReadersAgree, HoldsWhatItRead
<1> QED
  BY <1>1, <1>2

(* The launcher and the faults write no end.                               *)
LEMMA LauncherKeepsEnds ==
    ASSUME DelegationInv, NEW j \in Job, StartRecords(j) \/ Spawns(j) \/ RecordsPid(j)
    PROVE  SpawnedOnce' /\ SavedBeforeRecorded' /\ EndIsFinal' /\ ReadersAgree'
<1> USE DEF DelegationInv, DelegationTypeOK
<1>1. /\ UNCHANGED <<output, outcome, consumers>>
      /\ child' = child \/ (child' = [child EXCEPT ![j] = "booting"] /\ start[j] = "recorded")
      /\ start'[j] \in {"idle", "recording", "recorded"} =>
           start[j] \in {"idle", "recording", "recorded"} /\ child' = child
      /\ start' = [start EXCEPT ![j] = start'[j]]
  BY DEF StartRecords, Spawns, RecordsPid, StartGoes
<1>2. \A i \in Job : file'[i] = file[i] \/ file'[i] \in {Torn, Running}
  BY DEF StartRecords, Spawns, RecordsPid, Fill, Truncate
<1>3. \A i \in Job : file'[i] = file[i] \/ ~Ended(i)'
  BY <1>2 DEF Ended, Readable, Running
<1>4. SpawnedOnce'
  BY <1>1 DEF SpawnedOnce
<1>5. SavedBeforeRecorded'
  BY <1>1 DEF SavedBeforeRecorded
<1>6. \A i \in Job : child[i] = "exited" => child'[i] = "exited"
  BY <1>1 DEF SpawnedOnce
<1>7. EndIsFinal' /\ ReadersAgree'
  BY <1>1, <1>3, <1>6, EndsKept
<1> QED
  BY <1>4, <1>5, <1>7

(* The process saves the end, then records it, and exits.                  *)
LEMMA ProcessKeepsEnds ==
    ASSUME DelegationInv, NEW j \in Job,
           Boots(j) \/ Works(j) \/ Closes(j) \/ Saves(j) \/ RecordsOutcome(j) \/ ChildDies(j)
             \/ WriteFails(j)
    PROVE  SpawnedOnce' /\ SavedBeforeRecorded' /\ EndIsFinal' /\ ReadersAgree'
<1> USE DEF DelegationInv, DelegationTypeOK
<1>1. /\ child[j] \notin {"none", "exited"} /\ UNCHANGED <<start, consumers>>
      /\ child' = [child EXCEPT ![j] = child'[j]]
  BY DEF Boots, Works, Closes, Saves, RecordsOutcome, ChildDies, WriteFails, Throws, ChildGoes
<1>2. /\ \A i \in Job : i # j => output'[i] = output[i] /\ outcome'[i] = outcome[i]
      /\ child'[j] \in {"saved", "recording"} => output'[j] = outcome'[j]
  BY DEF Boots, Works, Closes, Saves, RecordsOutcome, ChildDies, WriteFails, Throws, ChildGoes,
         SavedBeforeRecorded
<1>3. \A i \in Job : \/ file'[i] = file[i] \/ file'[i] = Torn
                      \/ /\ i = j /\ child'[j] = "exited" /\ output'[j] = output[j]
                         /\ file'[j] = [status |-> output[j], notified |-> FALSE]
  <2>1. CASE RecordsOutcome(j)
    <3>1. child[j] \in {"saved", "recording"} /\ output[j] = outcome[j] /\ output' = output
      BY <2>1 DEF RecordsOutcome, SavedBeforeRecorded
    <3>2. CASE child[j] = "saved"
      BY <2>1, <3>1, <3>2 DEF RecordsOutcome, Truncate
    <3>3. CASE child[j] = "recording"
      <4>1. child' = [child EXCEPT ![j] = "exited"]
            /\ Fill(j, [status |-> outcome[j], notified |-> FALSE])
        BY <2>1, <3>3 DEF RecordsOutcome, ChildGoes
      <4>2. child'[j] = "exited"
        BY <4>1
      <4>3. PICK r \in {[status |-> outcome[j], notified |-> FALSE], Torn} :
                file' = [file EXCEPT ![j] = r]
        BY <4>1 DEF Fill, Truncate
      <4>4. \A i \in Job : file'[i] = IF i = j THEN r ELSE file[i]
        BY <4>3
      <4> QED
        BY <3>1, <4>2, <4>3, <4>4
    <3> QED
      BY <3>1, <3>2, <3>3
  <2>2. CASE ~RecordsOutcome(j)
    <3>1. UNCHANGED file
      BY <2>2 DEF Boots, Works, Closes, Saves, ChildDies, WriteFails, Throws
    <3> QED
      BY <3>1
  <2> QED
    BY <2>1, <2>2
<1>4. SpawnedOnce' /\ SavedBeforeRecorded'
  BY <1>1, <1>2 DEF SpawnedOnce, SavedBeforeRecorded
<1>5. \A i \in Job : child[i] = "exited" => child'[i] = "exited" /\ output'[i] = output[i]
  BY <1>1, <1>2
<1>6. \A i \in Job : \/ file'[i] = file[i]
                     \/ Ended(i)' => child'[i] = "exited" /\ output'[i] = file'[i].status
  BY <1>3 DEF Ended, Readable
<1>7. EndIsFinal' /\ ReadersAgree'
  BY <1>1, <1>5, <1>6, EndsKept
<1> QED
  BY <1>4, <1>7

(* A consumer writes back the end that it read, which is the last.         *)
LEMMA ConsumerKeepsEnds ==
    ASSUME DelegationInv, NEW k \in Consumer, Lists(k) \/ Reads(k) \/ Marks(k) \/ Announces(k)
    PROVE  SpawnedOnce' /\ SavedBeforeRecorded' /\ EndIsFinal' /\ ReadersAgree'
<1> USE DEF DelegationInv, DelegationTypeOK
<1>1. UNCHANGED <<start, child, output, outcome>>
  BY DEF Lists, Reads, Marks, Announces, ConsumerGoes
<1>2. \A j \in Job : \/ file'[j] = file[j] \/ file'[j] = Torn
                     \/ /\ consumers[k].stage = "marking" /\ consumers[k].job = j
                        /\ file'[j] = [status |-> consumers[k].status, notified |-> TRUE]
  BY DEF Lists, Reads, Marks, Announces, Fill, Truncate, HoldsWhatItRead
<1>3. \A j \in Job : \/ file'[j] = file[j]
                     \/ Ended(j)' => child'[j] = "exited" /\ output'[j] = file'[j].status
  BY <1>1, <1>2 DEF Ended, Readable, ReadersAgree
<1>4. /\ \A i \in Consumer : i # k => consumers'[i] = consumers[i]
      /\ consumers'[k].stage \in {"read", "marking"} =>
           \/ /\ consumers[k].stage \in {"read", "marking"}
              /\ consumers'[k].job = consumers[k].job
              /\ consumers'[k].status = consumers[k].status
           \/ /\ consumers'[k].job \in Job /\ Ended(consumers'[k].job)
              /\ consumers'[k].status = file[consumers'[k].job].status
  <2>1. /\ DOMAIN consumers = Consumer /\ consumers[k] \in ConsumerState
        /\ \A j \in consumers[k].todo : j \in Job
    BY DEF ConsumerState
  <2> HIDE DEF DelegationInv, DelegationTypeOK
  <2>2. CASE Lists(k) \/ Announces(k)
    <3>1. CASE Lists(k)
      <4>1. PICK todo : consumers' = [consumers EXCEPT ![k] = [IdleConsumer EXCEPT
                                         !.stage = "scanning", !.todo = todo]]
        BY <3>1 DEF Lists, ConsumerGoes
      <4>2. consumers'[k].stage = "scanning"
        BY <2>1, <4>1 DEF IdleConsumer
      <4> QED
        BY <2>1, <4>1, <4>2
    <3>2. CASE Announces(k)
      <4>1. consumers' = [consumers EXCEPT ![k] = IdleConsumer]
        BY <3>2 DEF Announces, ConsumerGoes
      <4> QED
        BY <2>1, <4>1 DEF IdleConsumer
    <3> QED
      BY <2>2, <3>1, <3>2
  <2>3. CASE Reads(k)
    <3>1. PICK j \in consumers[k].todo :
            \/ Ended(j) /\ consumers' = [consumers EXCEPT ![k] =
                 [consumers[k] EXCEPT !.todo = @ \ {j}, !.stage = "read", !.job = j,
                                      !.status = file[j].status]]
            \/ consumers' = [consumers EXCEPT ![k] = [consumers[k] EXCEPT !.todo = @ \ {j}]]
      BY <2>3 DEF Reads, ConsumerGoes, Ended
    <3>2. CASE consumers' = [consumers EXCEPT ![k] = [consumers[k] EXCEPT !.todo = @ \ {j}]]
      <4>1. consumers[k].stage = "scanning"
        BY <2>3 DEF Reads
      <4> QED
        BY <2>1, <3>2, <4>1 DEF ConsumerState
    <3>3. CASE Ended(j) /\ consumers' = [consumers EXCEPT ![k] =
                 [consumers[k] EXCEPT !.todo = @ \ {j}, !.stage = "read", !.job = j,
                                      !.status = file[j].status]]
      <4>1. consumers'[k].job = j /\ consumers'[k].status = file[j].status /\ j \in Job
        BY <2>1, <3>3 DEF ConsumerState
      <4>2. Ended(consumers'[k].job)
        BY <3>3, <4>1
      <4>3. \A i \in Consumer : i # k => consumers'[i] = consumers[i]
        BY <2>1, <3>3
      <4>4. DOMAIN consumers' = Consumer
        BY <2>1, <3>3
      <4> QED
        BY <4>1, <4>2, <4>3, <4>4
    <3> QED
      BY <3>1, <3>2, <3>3, SMTT(20)
  <2>4. CASE Marks(k)
    <3>1. \/ /\ consumers[k].stage = "read"
             /\ consumers' = [consumers EXCEPT ![k] = [consumers[k] EXCEPT !.stage = "marking"]]
          \/ consumers' = [consumers EXCEPT ![k] =
                 [consumers[k] EXCEPT !.stage = "scanning", !.job = NoJob,
                                      !.found = @ \cup {consumers[k].job}]]
      BY <2>4 DEF Marks, ConsumerGoes
    <3> QED
      BY <2>1, <3>1 DEF ConsumerState
  <2> QED
    BY <2>2, <2>3, <2>4
<1>5. SpawnedOnce' /\ SavedBeforeRecorded'
  BY <1>1 DEF SpawnedOnce, SavedBeforeRecorded
<1>6. EndIsFinal' /\ ReadersAgree'
  BY <1>1, <1>3, <1>4, EndsKept
<1> QED
  BY <1>5, <1>6

(* A terminal that closes leaves what it was about to write unwritten.     *)
LEMMA DeathKeepsEnds ==
    ASSUME DelegationInv, NEW s \in Session, SessionDies(s)
    PROVE  SpawnedOnce' /\ SavedBeforeRecorded' /\ EndIsFinal' /\ ReadersAgree'
<1> USE DEF DelegationInv, DelegationTypeOK
<1>1. /\ UNCHANGED <<file, child, output, outcome>>
      /\ \A j \in Job : start'[j] \in {start[j], "dead"}
      /\ \A k \in Consumer : consumers'[k] \in {consumers[k], IdleConsumer}
  BY DEF SessionDies
<1>2. SpawnedOnce' /\ SavedBeforeRecorded'
  BY <1>1 DEF SpawnedOnce, SavedBeforeRecorded
<1>3. EndIsFinal' /\ ReadersAgree'
  BY <1>1, EndsKept DEF IdleConsumer
<1> QED
  BY <1>2, <1>3

-----------------------------------------------------------------------------

(* Nothing is recorded at the start.                                       *)
LEMMA DelegationInvInit == ASSUME DelegationInit PROVE DelegationInv
  BY PlacesAssumption DEF PlacesAssumption, DelegationInit, DelegationInv, DelegationTypeOK,
     HoldsWhatItRead, SpawnedOnce, SavedBeforeRecorded, EndIsFinal, ReadersAgree, Ended,
     Readable, IdleConsumer, Status

(* The inductive step: one process acts, the others keep what they hold.   *)
LEMMA DelegationInvStep ==
    ASSUME DelegationInv, [DelegationNext]_delegationVars
    PROVE  DelegationInv'
<1>1. DelegationTypeOK' /\ HoldsWhatItRead'
  BY TypeStep DEF DelegationInv
<1>2. CASE UNCHANGED delegationVars
  BY <1>2 DEF delegationVars, DelegationInv, DelegationTypeOK, HoldsWhatItRead, SpawnedOnce,
     SavedBeforeRecorded, EndIsFinal, ReadersAgree, Ended, Readable
<1> QED
  BY <1>1, <1>2, Steps, LauncherKeepsEnds, ProcessKeepsEnds, ConsumerKeepsEnds, DeathKeepsEnds
  DEF DelegationInv

(* Whatever the processes do to each other's files, the invariant holds.   *)
THEOREM DelegationsKeepInv == DelegationSpec => []DelegationInv
  BY DelegationInvInit, DelegationInvStep, PTL DEF DelegationSpec

(* Records, outputs and what the processes hold keep their types.          *)
THEOREM DelegationTypeCorrect == DelegationSpec => []DelegationTypeOK
<1>1. DelegationInv => DelegationTypeOK
  BY DEF DelegationInv
<1> QED
  BY <1>1, DelegationsKeepInv, PTL

(* A record that says how its task ended has that end on disk, for any     *)
(* number of sessions that mark it and of faults.                          *)
THEOREM EndsAreReadable == DelegationSpec => []OutcomeIsReadable
<1>1. DelegationInv => OutcomeIsReadable
  BY DEF DelegationInv, EndIsFinal, Ended, OutcomeIsReadable
<1> QED
  BY <1>1, DelegationsKeepInv, PTL

(***************************************************************************)
(* The catalogue.                                                          *)
(***************************************************************************)

(* What is known, the pass under way, the calls and the start's reading    *)
(* keep their types.                                                       *)
CatalogTypes ==
    /\ configured \subseteq Provider
    /\ states \in [Provider -> Answer]
    /\ inflight \in Pass \cup {NoPass}
    /\ callers \in [Caller -> Call]
    /\ loader \in [todo : SUBSET Provider, changed : BOOLEAN]

(* A pass holds what it read of the providers it is asking.                *)
PassKnowsStates ==
    inflight # NoPass /\ ~crossed =>
        \A p \in inflight.asked : inflight.before[p] = states[p]

(* What the catalogue does not show yet, somebody will publish.            *)
ChangesAreKept ==
    ~crossed => \/ snapshot = Shown(states)
                \/ inflight # NoPass /\ inflight.changed
                \/ loader.changed /\ loader.todo # {}

(* A forced call waits for a pass that has yet to ask every provider the   *)
(* call is about; one that was queued finds such a pass, or begins it.     *)
WaitsForItsPass ==
    \A c \in Caller :
        /\ callers[c].open \subseteq configured
        /\ callers[c].stage \in {"queued", "again"} => callers[c].forced
        /\ callers[c].stage = "waiting" /\ callers[c].forced /\ ~callers[c].shared =>
               /\ inflight # NoPass /\ inflight.forced
               /\ callers[c].open \subseteq inflight.queue

AgainMeetsAFreshPass ==
    ~Settled => inflight = NoPass \/ (inflight.forced /\ inflight.queue = configured)

CatalogInv ==
    /\ CatalogTypes /\ PassKnowsStates /\ ChangesAreKept
    /\ WaitsForItsPass /\ AgainMeetsAFreshPass /\ ForcedAsksAnew

-----------------------------------------------------------------------------
(* A pass begins: it is to ask what is due, all of it when it is forced,   *)
(* and remembers that something left the catalogue.                        *)
LEMMA PassBegins ==
    ASSUME CatalogInv, inflight = NoPass, NEW forced \in BOOLEAN, Begins(forced),
           UNCHANGED <<configured, snapshot, loader, crossed>>
    PROVE  /\ inflight' \in Pass /\ inflight' # NoPass
           /\ inflight'.asked = {} /\ inflight'.forced = forced
           /\ inflight'.queue \subseteq Provider
           /\ forced => inflight'.queue = configured
           /\ states' \in [Provider -> Answer]
           /\ PassKnowsStates' /\ ChangesAreKept'
  <1> DEFINE unknown == {p \in configured : Remaining[p] = "none"}
  <1>1. PICK due \in SUBSET configured :
            /\ forced => due = configured
            /\ states' = [p \in Provider |-> IF p \in unknown THEN "loading" ELSE Remaining[p]]
            /\ inflight' = [forced |-> forced, queue |-> due, asked |-> {},
                            before |-> [p \in Provider |-> "none"],
                            changed |-> Shown(Remaining) # Shown(states)]
    BY DEF Begins
  <1>2. configured \subseteq Provider /\ states \in [Provider -> Answer]
    BY DEF CatalogInv, CatalogTypes
  <1>3. Remaining \in [Provider -> Answer]
    BY <1>2 DEF Remaining, Answer
  <1>4. states' \in [Provider -> Answer]
    BY <1>1, <1>3 DEF Answer
  <1>5. inflight' \in Pass /\ inflight' # NoPass
    <2>1. PICK ch \in BOOLEAN : ch = (Shown(Remaining) # Shown(states))
      OBVIOUS
    <2>2. PICK before \in [Provider -> Answer] : before = [p \in Provider |-> "none"]
      BY DEF Answer
    <2>3. inflight'= [forced |-> forced, queue |-> due, asked |-> {},
                      before |-> before, changed |-> ch]
      BY <1>1, <2>1, <2>2
    <2>4. due \in SUBSET Provider
      BY <1>2
    <2> QED
      BY <2>3, <2>4, NoPassAssumption DEF Pass, NoPassAssumption
  <1>6. Shown(states') = Shown(Remaining)
    BY <1>1, <1>3 DEF Shown, Known
  <1>7. PassKnowsStates'
    BY <1>1 DEF PassKnowsStates
  <1>8. ChangesAreKept'
    <2>1. inflight'.changed = (Shown(Remaining) # Shown(states))
      BY <1>1
    <2> QED
      BY <1>5, <1>6, <2>1 DEF CatalogInv, ChangesAreKept
  <1> QED
    BY <1>1, <1>2, <1>4, <1>5, <1>7, <1>8

-----------------------------------------------------------------------------
(* Calls.                                                                  *)

(* A call begins a pass, shares the one under way or waits for it to end.  *)
LEMMA CallKeepsInv ==
    ASSUME CatalogInv, NEW c \in Caller, NEW call \in Call, Refresh(c, call),
           UNCHANGED <<configured, changes, snapshot, loader, crossed>>,
           call.open \subseteq configured,
           \/ Settled /\ call.stage = "idle" /\ ~call.shared
           \/ callers[c].stage = "again" /\ call = callers[c]
    PROVE  CatalogInv'
  <1>1. /\ callers \in [Caller -> Call] /\ configured \subseteq Provider
        /\ inflight \in Pass \cup {NoPass}
        /\ states \in [Provider -> Answer]
        /\ loader \in [todo : SUBSET Provider, changed : BOOLEAN]
    BY DEF CatalogInv, CatalogTypes
  <1>2. CASE inflight = NoPass
    <2>1. Begins(call.forced) /\ callers' = [callers EXCEPT ![c] = [call EXCEPT !.stage = "waiting"]]
      BY <1>2 DEF Refresh
    <2>2. call.forced \in BOOLEAN
      BY DEF Call
    <2>3. /\ inflight' \in Pass /\ inflight' # NoPass
          /\ inflight'.forced = call.forced
          /\ call.forced => inflight'.queue = configured
          /\ states' \in [Provider -> Answer]
          /\ PassKnowsStates' /\ ChangesAreKept'
      BY <1>2, <2>1, <2>2, PassBegins
    <2> DEFINE new == [call EXCEPT !.stage = "waiting"]
    <2>4. new \in Call /\ new.stage = "waiting" /\ new.forced = call.forced /\ new.open = call.open
      BY DEF Call
    <2>5. callers' \in [Caller -> Call] /\ \A d \in Caller : callers'[d] = IF d = c THEN new ELSE callers[d]
      BY <1>1, <2>1, <2>4
    <2> HIDE DEF new
    <2>6. CatalogTypes'
      BY <1>1, <2>3, <2>5 DEF CatalogTypes
    <2>7. WaitsForItsPass'
      BY <1>2, <2>3, <2>4, <2>5 DEF CatalogInv, WaitsForItsPass
    <2>8. ForcedAsksAnew'
      BY <2>4, <2>5 DEF CatalogInv, ForcedAsksAnew
    <2>9. AgainMeetsAFreshPass'
      <3>1. ~Settled => call.forced
        BY DEF CatalogInv, WaitsForItsPass, Settled
      <3>2. ~Settled' => ~Settled
        BY <2>4, <2>5 DEF Settled
      <3> QED
        BY <2>3, <3>1, <3>2 DEF AgainMeetsAFreshPass
    <2> QED
      BY <2>3, <2>6, <2>7, <2>8, <2>9 DEF CatalogInv
  <1>3. CASE inflight # NoPass
    <2>1. UNCHANGED <<states, inflight>> /\ inflight \in Pass
          /\ inflight.forced \in BOOLEAN /\ call.forced \in BOOLEAN
      BY <1>1, <1>3 DEF Refresh, Pass, Call
    <2>2. callers[c].stage = "again" => inflight.forced /\ inflight.queue = configured
      BY <1>3 DEF CatalogInv, AgainMeetsAFreshPass, Settled
    <2>3. PICK new \in Call :
              /\ callers' = [callers EXCEPT ![c] = new]
              /\ new.forced = call.forced /\ new.open = call.open
              /\ \/ new.stage = "queued" /\ call.forced
                 \/ /\ new.stage = "waiting"
                    /\ call.forced /\ ~new.shared =>
                           inflight.forced /\ inflight.queue = configured
      <3>1. CASE MustWait(call.forced)
        <4> DEFINE new == [call EXCEPT !.stage = "queued"]
        <4>1. callers' = [callers EXCEPT ![c] = new]
          BY <1>3, <3>1 DEF Refresh
        <4>2. new \in Call /\ new.stage = "queued" /\ new.forced = call.forced /\ new.open = call.open
          BY DEF Call
        <4> QED
          BY <3>1, <4>1, <4>2 DEF MustWait
      <3>2. CASE ~MustWait(call.forced)
        <4>1. PICK sh \in BOOLEAN : sh = (call.stage = "idle" /\ call.forced /\ inflight.forced)
          OBVIOUS
        <4> DEFINE new == [call EXCEPT !.stage = "waiting", !.shared = sh]
        <4>2. callers' = [callers EXCEPT ![c] = new]
          BY <1>3, <3>2, <4>1 DEF Refresh
        <4>3. /\ new \in Call /\ new.stage = "waiting" /\ new.forced = call.forced
              /\ new.open = call.open /\ new.shared = sh
          BY DEF Call
        <4>4. call.forced => inflight.forced
          BY <3>2 DEF MustWait
        <4>5. call.forced /\ ~sh => call.stage # "idle"
          BY <4>1, <4>4
        <4> QED
          BY <2>2, <4>2, <4>3, <4>4, <4>5
      <3> QED
        BY <3>1, <3>2
    <2>4. callers' \in [Caller -> Call] /\ \A d \in Caller : callers'[d] = IF d = c THEN new ELSE callers[d]
      BY <1>1, <2>3
    <2>5. CatalogTypes' /\ PassKnowsStates' /\ ChangesAreKept'
      BY <1>1, <2>1, <2>4 DEF CatalogInv, CatalogTypes, PassKnowsStates, ChangesAreKept, Shown
    <2>6. WaitsForItsPass'
      BY <1>3, <2>1, <2>3, <2>4 DEF CatalogInv, WaitsForItsPass
    <2>7. ForcedAsksAnew'
      BY <2>3, <2>4 DEF CatalogInv, ForcedAsksAnew
    <2>8. AgainMeetsAFreshPass'
      BY <2>1, <2>3, <2>4 DEF CatalogInv, AgainMeetsAFreshPass, Settled
    <2> QED
      BY <2>5, <2>6, <2>7, <2>8 DEF CatalogInv
  <1> QED
    BY <1>2, <1>3

(* The end of a pass publishes what changed, answers those that waited for *)
(* it and lets the others call again.                                      *)
LEMMA EndKeepsInv ==
    ASSUME CatalogInv, PassEnds
    PROVE  CatalogInv'
  <1>1. /\ callers \in [Caller -> Call] /\ inflight # NoPass /\ inflight.queue = {}
        /\ inflight' = NoPass /\ UNCHANGED <<configured, changes, states, loader, crossed>>
        /\ snapshot' = Published
    BY DEF CatalogInv, CatalogTypes, PassEnds
  <1>2. ASSUME NEW c \in Caller
        PROVE  /\ callers'[c] \in Call /\ callers'[c].stage # "waiting"
               /\ callers'[c].forced = callers[c].forced /\ callers'[c].open = callers[c].open
               /\ callers'[c].shared = callers[c].shared
               /\ callers'[c].stage \in {"queued", "again"} => callers[c].stage \in {"queued", "again"}
               /\ callers'[c].stage = "answered" => callers[c].stage \in {"waiting", "answered"}
    BY <1>1 DEF PassEnds, Call
  <1>3. CatalogTypes'
    BY <1>1, <1>2 DEF CatalogInv, CatalogTypes, PassEnds
  <1>4. PassKnowsStates' /\ AgainMeetsAFreshPass'
    BY <1>1 DEF PassKnowsStates, AgainMeetsAFreshPass
  <1>5. ChangesAreKept'
    BY <1>1 DEF CatalogInv, ChangesAreKept, Published, Shown
  <1>6. WaitsForItsPass'
    BY <1>1, <1>2 DEF CatalogInv, WaitsForItsPass
  <1>7. ForcedAsksAnew'
    BY <1>1, <1>2 DEF CatalogInv, WaitsForItsPass, ForcedAsksAnew
  <1> QED
    BY <1>3, <1>4, <1>5, <1>6, <1>7 DEF CatalogInv

(* A provider that is asked is not asked for again by any call.            *)
LEMMA AskedSinceKeeps ==
    ASSUME CatalogInv, NEW p \in Provider, callers' = AskedSince(p)
    PROVE  /\ callers' \in [Caller -> Call]
           /\ \A c \in Caller :
                  /\ callers'[c].open = callers[c].open \ {p}
                  /\ callers'[c].stage = callers[c].stage
                  /\ callers'[c].forced = callers[c].forced
                  /\ callers'[c].shared = callers[c].shared
           /\ ForcedAsksAnew' /\ Settled' = Settled
  <1>1. callers \in [Caller -> Call]
    BY DEF CatalogInv, CatalogTypes
  <1>2. ASSUME NEW c \in Caller
        PROVE  /\ callers'[c] \in Call
               /\ callers'[c].open = callers[c].open \ {p}
               /\ callers'[c].stage = callers[c].stage
               /\ callers'[c].forced = callers[c].forced
               /\ callers'[c].shared = callers[c].shared
    BY <1>1 DEF AskedSince, Call
  <1>3. callers' \in [Caller -> Call]
    BY <1>2 DEF AskedSince
  <1>4. ForcedAsksAnew'
    BY <1>2 DEF CatalogInv, ForcedAsksAnew
  <1>5. Settled' = Settled
    BY <1>2 DEF Settled
  <1> QED
    BY <1>2, <1>3, <1>4, <1>5

(* The pass asks a provider and remembers what it read of it.              *)
LEMMA AskKeepsInv ==
    ASSUME CatalogInv, NEW p \in Provider, AsksProvider(p)
    PROVE  CatalogInv'
  <1>1. /\ inflight \in Pass /\ inflight # NoPass /\ p \in inflight.queue /\ Settled
        /\ callers' = AskedSince(p)
        /\ inflight' = [inflight EXCEPT !.queue = @ \ {p}, !.asked = @ \cup {p}, !.before[p] = states[p]]
        /\ UNCHANGED <<configured, changes, states, snapshot, loader, crossed>>
        /\ states \in [Provider -> Answer]
    BY DEF AsksProvider, CatalogInv, CatalogTypes
  <1>2. /\ inflight' \in Pass /\ inflight' # NoPass
        /\ inflight'.forced = inflight.forced /\ inflight'.changed = inflight.changed
        /\ inflight'.queue = inflight.queue \ {p} /\ inflight'.asked = inflight.asked \cup {p}
        /\ inflight'.before = [inflight.before EXCEPT ![p] = states[p]]
        /\ inflight.before \in [Provider -> Answer] /\ inflight.asked \subseteq Provider
    <2>1. PICK before \in [Provider -> Answer] : before = [inflight.before EXCEPT ![p] = states[p]]
      BY <1>1 DEF Pass
    <2>2. inflight' = [forced |-> inflight.forced, queue |-> inflight.queue \ {p},
                       asked |-> inflight.asked \cup {p}, before |-> before,
                       changed |-> inflight.changed]
      BY <1>1, <2>1 DEF Pass
    <2>3. inflight' \in Pass
      BY <1>1, <2>2 DEF Pass
    <2> QED
      BY <1>1, <2>1, <2>2, <2>3, NoPassAssumption DEF Pass, NoPassAssumption
  <1>3. CatalogTypes'
    BY <1>1, <1>2, AskedSinceKeeps DEF CatalogInv, CatalogTypes
  <1>4. PassKnowsStates'
    BY <1>1, <1>2 DEF CatalogInv, PassKnowsStates
  <1>5. ChangesAreKept'
    BY <1>1, <1>2 DEF CatalogInv, ChangesAreKept, Shown
  <1>6. WaitsForItsPass'
    <2>1. /\ inflight'.forced = inflight.forced /\ inflight' # NoPass
          /\ inflight'.queue = inflight.queue \ {p} /\ configured' = configured
      BY <1>1, <1>2
    <2>2. \A c \in Caller : /\ callers'[c].open = callers[c].open \ {p}
                            /\ callers'[c].stage = callers[c].stage
                            /\ callers'[c].forced = callers[c].forced
                            /\ callers'[c].shared = callers[c].shared
      BY <1>1, AskedSinceKeeps
    <2> QED
      BY <2>1, <2>2 DEF CatalogInv, WaitsForItsPass
  <1>7. AgainMeetsAFreshPass'
    BY <1>1, AskedSinceKeeps DEF AgainMeetsAFreshPass
  <1> QED
    BY <1>1, <1>3, <1>4, <1>5, <1>6, <1>7, AskedSinceKeeps DEF CatalogInv

(* An answer changes the state from what the pass has read of it, and the  *)
(* pass remembers when that is a change.                                   *)
LEMMA AnswerKeepsInv ==
    ASSUME CatalogInv, NEW p \in Provider, ProviderAnswers(p)
    PROVE  CatalogInv'
  <1> DEFINE before == inflight.before[p]
             failed == IF Known(before) THEN "stale" ELSE "unavailable"
  <1>1. /\ inflight \in Pass /\ inflight # NoPass /\ p \in inflight.asked /\ Settled
        /\ UNCHANGED <<configured, changes, snapshot, callers, loader, crossed>>
        /\ states \in [Provider -> Answer]
        /\ callers \in [Caller -> Call]
    <2>1. /\ inflight # NoPass /\ p \in inflight.asked /\ Settled
          /\ UNCHANGED <<configured, changes, snapshot, callers, loader, crossed>>
      BY DEF ProviderAnswers
    <2>2. /\ inflight \in Pass \cup {NoPass} /\ states \in [Provider -> Answer]
          /\ callers \in [Caller -> Call]
      BY SMTT(20) DEF CatalogInv, CatalogTypes
    <2> QED
      BY <2>1, <2>2
  <1>2. PICK answer \in {"ready", failed}, ch \in BOOLEAN :
            /\ states' = [states EXCEPT ![p] = answer]
            /\ inflight' = [inflight EXCEPT !.asked = @ \ {p}, !.before[p] = "none", !.changed = ch]
            /\ inflight.changed => ch
            /\ ch \/ answer = before
    <2>1. CASE /\ states' = [states EXCEPT ![p] = "ready"]
               /\ inflight' = [inflight EXCEPT !.asked = @ \ {p}, !.before[p] = "none", !.changed = TRUE]
      BY <2>1
    <2>2. CASE /\ states' = [states EXCEPT ![p] = failed]
               /\ inflight' = [inflight EXCEPT !.asked = @ \ {p}, !.before[p] = "none",
                                               !.changed = @ \/ failed # before]
      <3>1. PICK ch \in BOOLEAN : ch = (inflight.changed \/ failed # before)
        OBVIOUS
      <3> QED
        BY <2>2, <3>1
    <2> QED
      BY <2>1, <2>2 DEF ProviderAnswers
  <1>3. /\ inflight' \in Pass /\ inflight' # NoPass
        /\ inflight'.forced = inflight.forced /\ inflight'.changed = ch
        /\ inflight'.queue = inflight.queue /\ inflight'.asked = inflight.asked \ {p}
        /\ inflight'.before = [inflight.before EXCEPT ![p] = "none"]
        /\ inflight.before \in [Provider -> Answer] /\ inflight.asked \subseteq Provider
    <2>1. PICK now \in [Provider -> Answer] : now = [inflight.before EXCEPT ![p] = "none"]
      BY <1>1 DEF Pass, Answer
    <2>2. inflight' = [forced |-> inflight.forced, queue |-> inflight.queue,
                       asked |-> inflight.asked \ {p}, before |-> now, changed |-> ch]
      BY <1>1, <1>2, <2>1 DEF Pass
    <2>3. inflight' \in Pass
      BY <1>1, <2>2 DEF Pass
    <2> QED
      BY <1>1, <2>1, <2>2, <2>3, NoPassAssumption DEF Pass, NoPassAssumption
  <1>4. answer \in Answer /\ states' \in [Provider -> Answer]
    BY <1>1, <1>2 DEF Answer
  <1>5. CatalogTypes'
    BY <1>1, <1>3, <1>4 DEF CatalogInv, CatalogTypes
  <1>6. PassKnowsStates'
    BY <1>1, <1>2, <1>3 DEF CatalogInv, PassKnowsStates
  <1>7. ChangesAreKept'
    <2>1. ~crossed /\ ~ch => states' = states
      BY <1>1, <1>2 DEF CatalogInv, PassKnowsStates
    <2> QED
      BY <1>1, <1>2, <1>3, <2>1 DEF CatalogInv, ChangesAreKept, Shown
  <1>8. WaitsForItsPass' /\ AgainMeetsAFreshPass' /\ ForcedAsksAnew'
    BY <1>1, <1>3 DEF CatalogInv, WaitsForItsPass, AgainMeetsAFreshPass, ForcedAsksAnew, Settled
  <1> QED
    BY <1>5, <1>6, <1>7, <1>8 DEF CatalogInv

(* The start publishes what it read when the last file is done.            *)
LEMMA ReadingKeepsInv ==
    ASSUME CatalogInv, NEW p \in Provider, CacheRead(p)
    PROVE  CatalogInv'
  <1>1. /\ UNCHANGED <<configured, changes, inflight, callers>>
        /\ loader \in [todo : SUBSET Provider, changed : BOOLEAN] /\ p \in loader.todo
        /\ states \in [Provider -> Answer]
        /\ snapshot' = IF loader'.todo = {} /\ loader'.changed THEN Shown(states') ELSE snapshot
    BY DEF CacheRead, CatalogInv, CatalogTypes
  <1>2. \/ /\ states' = [states EXCEPT ![p] = "stale"] /\ loader'.changed
           /\ loader' \in [todo : SUBSET Provider, changed : BOOLEAN]
           /\ crossed' = (crossed \/ inflight # NoPass)
        \/ /\ states' = states /\ crossed' = crossed /\ loader'.changed = loader.changed
           /\ loader' \in [todo : SUBSET Provider, changed : BOOLEAN]
    <2>1. CASE /\ states' = [states EXCEPT ![p] = "stale"]
               /\ loader' = [todo |-> loader.todo \ {p}, changed |-> TRUE]
               /\ crossed' = (crossed \/ inflight # NoPass)
      <3>1. loader' \in [todo : SUBSET Provider, changed : BOOLEAN] /\ loader'.changed
        BY <1>1, <2>1
      <3> QED
        BY <2>1, <3>1
    <2>2. CASE loader' = [loader EXCEPT !.todo = @ \ {p}] /\ UNCHANGED <<states, crossed>>
      <3>1. loader' \in [todo : SUBSET Provider, changed : BOOLEAN]
            /\ loader'.changed = loader.changed
        BY <1>1, <2>2
      <3> QED
        BY <2>2, <3>1
    <2> QED
      BY <2>1, <2>2 DEF CacheRead
  <1>3. states' \in [Provider -> Answer]
    BY <1>1, <1>2 DEF Answer
  <1>4. CatalogTypes'
    BY <1>1, <1>2, <1>3 DEF CatalogInv, CatalogTypes
  <1>5. PassKnowsStates'
    BY <1>1, <1>2 DEF CatalogInv, PassKnowsStates
  <1>6. ChangesAreKept'
    BY <1>1, <1>2 DEF CatalogInv, ChangesAreKept, Shown
  <1>7. WaitsForItsPass' /\ AgainMeetsAFreshPass' /\ ForcedAsksAnew'
    BY <1>1 DEF CatalogInv, WaitsForItsPass, AgainMeetsAFreshPass, ForcedAsksAnew, Settled
  <1> QED
    BY <1>4, <1>5, <1>6, <1>7 DEF CatalogInv

(* A key that is added or removed is no longer what a call was about.      *)
LEMMA KeysKeepInv ==
    ASSUME CatalogInv, NEW p \in Provider, KeyChanges(p)
    PROVE  CatalogInv'
  <1>1. /\ Settled /\ callers' = AskedSince(p)
        /\ UNCHANGED <<states, snapshot, inflight, loader, crossed>>
        /\ configured \ {p} \subseteq configured'
        /\ configured' \subseteq Provider
    BY DEF KeyChanges, CatalogInv, CatalogTypes
  <1>2. CatalogTypes'
    BY <1>1, AskedSinceKeeps DEF CatalogInv, CatalogTypes
  <1>3. PassKnowsStates' /\ ChangesAreKept'
    BY <1>1 DEF CatalogInv, PassKnowsStates, ChangesAreKept, Shown
  <1>4. WaitsForItsPass'
    <2>1. \A c \in Caller : /\ callers'[c].open = callers[c].open \ {p}
                            /\ callers'[c].stage = callers[c].stage
                            /\ callers'[c].forced = callers[c].forced
                            /\ callers'[c].shared = callers[c].shared
      BY <1>1, AskedSinceKeeps
    <2> QED
      BY <1>1, <2>1 DEF CatalogInv, WaitsForItsPass
  <1>5. AgainMeetsAFreshPass' /\ ForcedAsksAnew'
    BY <1>1, AskedSinceKeeps DEF AgainMeetsAFreshPass
  <1> QED
    BY <1>2, <1>3, <1>4, <1>5 DEF CatalogInv

(* The timer begins a pass that nobody waits for.                          *)
LEMMA TimerKeepsInv ==
    ASSUME CatalogInv, Timer
    PROVE  CatalogInv'
  <1>1. /\ Settled /\ inflight = NoPass /\ Begins(FALSE)
        /\ UNCHANGED <<configured, changes, snapshot, callers, loader, crossed>>
    BY DEF Timer
  <1>2. /\ inflight' \in Pass /\ states' \in [Provider -> Answer]
        /\ PassKnowsStates' /\ ChangesAreKept'
    BY <1>1, PassBegins
  <1>3. CatalogTypes'
    BY <1>1, <1>2 DEF CatalogInv, CatalogTypes
  <1>4. WaitsForItsPass' /\ AgainMeetsAFreshPass' /\ ForcedAsksAnew'
    BY <1>1 DEF CatalogInv, WaitsForItsPass, AgainMeetsAFreshPass, ForcedAsksAnew, Settled
  <1> QED
    BY <1>2, <1>3, <1>4 DEF CatalogInv

(* Every step of the catalogue keeps the invariant.                        *)
LEMMA CatalogStep ==
    ASSUME CatalogInv, [CatalogNext]_catalogVars
    PROVE  CatalogInv'
  <1>1. ASSUME NEW c \in Caller, Asks(c)
        PROVE  CatalogInv'
    <2>1. PICK forced \in BOOLEAN :
              Refresh(c, [NoCall EXCEPT !.forced = forced,
                                        !.open = IF forced THEN configured ELSE {}])
      BY <1>1 DEF Asks
    <2>2. PICK call \in Call : /\ Refresh(c, call) /\ call.open \subseteq configured
                              /\ call.stage = "idle" /\ call.shared = FALSE
      <3> DEFINE call == [NoCall EXCEPT !.forced = forced,
                                        !.open = IF forced THEN configured ELSE {}]
      <3>1. configured \subseteq Provider
        BY DEF CatalogInv, CatalogTypes
      <3>2. /\ call \in Call /\ call.open \subseteq configured
            /\ call.stage = "idle" /\ call.shared = FALSE
        BY <3>1 DEF NoCall, Call
      <3> QED
        BY <2>1, <3>2
    <2> QED
      BY <1>1, <2>2, CallKeepsInv DEF Asks
  <1>2. ASSUME NEW c \in Caller, AsksAgain(c)
        PROVE  CatalogInv'
    <2>1. callers[c] \in Call /\ callers[c].open \subseteq configured
      BY DEF CatalogInv, CatalogTypes, WaitsForItsPass
    <2> QED
      BY <1>2, <2>1, CallKeepsInv DEF AsksAgain
  <1>3. CASE UNCHANGED catalogVars
    BY <1>3 DEF catalogVars, CatalogInv, CatalogTypes, PassKnowsStates, ChangesAreKept, Shown,
                WaitsForItsPass, AgainMeetsAFreshPass, ForcedAsksAnew, Settled
  <1> QED
    BY <1>1, <1>2, <1>3, TimerKeepsInv, EndKeepsInv, AskKeepsInv, AnswerKeepsInv,
       ReadingKeepsInv, KeysKeepInv DEF CatalogNext

(* The start.                                                              *)
LEMMA CatalogStarts == ASSUME CatalogInit PROVE CatalogInv
  <1>1. configured \subseteq Provider
    BY CatalogAssumption DEF CatalogAssumption, CatalogInit
  <1>2. CatalogTypes
    BY <1>1 DEF CatalogInit, CatalogTypes, Answer, NoCall, Call
  <1>3. snapshot = Shown(states)
    BY DEF CatalogInit, Shown, Known
  <1>4. PassKnowsStates /\ ChangesAreKept
    BY <1>3 DEF CatalogInit, PassKnowsStates, ChangesAreKept
  <1>5. WaitsForItsPass /\ AgainMeetsAFreshPass /\ ForcedAsksAnew
    BY DEF CatalogInit, NoCall, WaitsForItsPass, AgainMeetsAFreshPass, ForcedAsksAnew
  <1> QED
    BY <1>2, <1>4, <1>5 DEF CatalogInv

-----------------------------------------------------------------------------
(* Theorems.                                                               *)

(* The invariant holds for any providers, callers, keys and time limits.   *)
THEOREM CatalogKeepsInv == CatalogSpec => []CatalogInv
  BY CatalogStarts, CatalogStep, PTL DEF CatalogSpec

(* A forced refresh is answered when every provider that had a key has     *)
(* been asked since, through however many passes it waited.                *)
THEOREM ForcedRefreshAsks == CatalogSpec => []ForcedAsksAnew
  <1>1. CatalogInv => ForcedAsksAnew
    BY DEF CatalogInv
  <1> QED
    BY <1>1, CatalogKeepsInv, PTL

(* No change of what is known is left unpublished between passes.          *)
THEOREM CatalogIsCurrent == CatalogSpec => []SnapshotIsCurrent
  <1>1. CatalogInv => SnapshotIsCurrent
    BY DEF CatalogInv, ChangesAreKept, SnapshotIsCurrent
  <1> QED
    BY <1>1, CatalogKeepsInv, PTL
================================================================================
