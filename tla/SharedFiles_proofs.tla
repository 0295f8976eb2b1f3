-------------------------- MODULE SharedFiles_proofs --------------------------
(***************************************************************************)
(* Theorems about the files that processes of several sessions share, for  *)
(* any number of processes, daemons and sessions.  Of the memory lock: the *)
(* types and the order of the queue hold in any case, mutual exclusion     *)
(* when no process is suspended for thirty seconds.  Of the schedules: the *)
(* types, that nothing is run twice on a day unless its mark was lost or   *)
(* more than one daemon listened, what it takes for more than one to       *)
(* listen, and that it is run only on days that are named.                 *)
(***************************************************************************)
EXTENDS MCSharedFiles, TLAPS

-----------------------------------------------------------------------------
(* The memory lock.                                                        *)

(* The initial state is typed.                                             *)
LEMMA TypeInit == Init => LockTypeOK
    BY LockAssumption DEF Init, LockTypeOK, Stage, Short, Reaping

(* Every step keeps the types, one case per action or per kind of action.  *)
LEMMA TypeStep ==
    ASSUME LockTypeOK, [Next]_vars
    PROVE  LockTypeOK'
    <1> USE LockAssumption
    <1>1. ASSUME NEW p \in Proc, Asks(p)
          PROVE  LockTypeOK'
        BY <1>1 DEF LockTypeOK, Asks, Goes, Stage, Short, Reaping, Waiting
    <1>2. ASSUME NEW p \in Proc, TakesTurn(p)
          PROVE  LockTypeOK'
        BY <1>2 DEF LockTypeOK, TakesTurn, Goes, Stage, Short, Reaping, Waiting, Swept
    <1>3. ASSUME NEW p \in Proc, Waits(p) \/ Works(p) \/ Rereads(p) \/ Judges(p) \/ Compares(p)
          PROVE  LockTypeOK'
        BY <1>3 DEF LockTypeOK, Waits, Works, Rereads, Judges, Compares, Goes, GoesOn,
                    Stage, Short, Reaping
    <1>4. ASSUME NEW p \in Proc, Leaves(p)
          PROVE  LockTypeOK'
        BY <1>4 DEF LockTypeOK, Leaves, Goes, Stage, Short, Reaping
    <1>5. ASSUME NEW p \in Proc, Opens(p)
          PROVE  LockTypeOK'
        BY <1>5 DEF LockTypeOK, Opens, GoesWriting, Stage, Short, Reaping, File
    <1>6. ASSUME NEW p \in Proc, Writes(p)
          PROVE  LockTypeOK'
        <2>1. /\ stage' = [stage EXCEPT ![p] = "working"]
              /\ lock' \in {lock, [by |-> p, text |-> TRUE]}
              /\ old' \in {old, FALSE}
              /\ busy' \subseteq alive
            BY <1>6 DEF LockTypeOK, Writes, Goes, GoesWriting
        <2>2. [by |-> p, text |-> TRUE] \in File
            BY DEF File
        <2>3. lock' \in File \cup {NoFile}
            BY <2>1, <2>2 DEF LockTypeOK
        <2> QED
            BY <1>6, <2>1, <2>3 DEF LockTypeOK, Writes, Stage
    <1>7. ASSUME NEW p \in Proc, Unlinks(p) \/ Removes(p)
          PROVE  LockTypeOK'
        BY <1>7 DEF LockTypeOK, Unlinks, Removes, Goes, Stage, Short, Reaping
    <1>8. ASSUME NEW p \in Proc, Contends(p) \/ Drops(p)
          PROVE  LockTypeOK'
        BY <1>8 DEF LockTypeOK, Contends, Drops, Goes, Stage, Short, Reaping
    <1>9. ASSUME NEW p \in Proc, Reads(p)
          PROVE  LockTypeOK'
        BY <1>9 DEF LockTypeOK, Reads, Goes, Contents, File, Stage, Short, Reaping
    <1>10. ASSUME NEW p \in Proc, Expires(p)
           PROVE  LockTypeOK'
        BY <1>10 DEF LockTypeOK, Expires, Waiting
    <1>11. ASSUME NEW p \in Proc, WriteFails(p)
           PROVE  LockTypeOK'
        BY <1>11 DEF LockTypeOK, WriteFails, Goes, Stage, Short, Reaping
    <1>12. ASSUME NEW p \in Proc, Dies(p)
           PROVE  LockTypeOK'
        BY <1>12 DEF LockTypeOK, Dies, Goes, Stage, Short, Reaping
    <1>13. CASE Ages
        BY <1>13 DEF LockTypeOK, Ages
    <1>14. CASE UNCHANGED vars
        BY <1>14 DEF LockTypeOK, vars
    <1> QED
        BY <1>1, <1>2, <1>3, <1>4, <1>5, <1>6, <1>7, <1>8, <1>9, <1>10, <1>11, <1>12,
           <1>13, <1>14 DEF Next, Step

(* Types hold, and a process has a ticket exactly while it is in           *)
(* withMemoryLock.                                                         *)
THEOREM LockTypeCorrect == Spec => []LockTypeOK
    <1>1. LockTypeOK /\ [Next]_vars => LockTypeOK'
        BY TypeStep
    <1> QED
        BY TypeInit, <1>1, PTL DEF Spec

-----------------------------------------------------------------------------
(* Mutual exclusion.                                                       *)

Holding == {"working", "releasing", "unlinking"}

(* Who is in the operation, or on its way into it or out of it, has the    *)
(* lock file.                                                              *)
HolderHasFile ==
    \A p \in Proc :
        /\ stage[p] = "opened" => lock = [by |-> p, text |-> FALSE]
        /\ stage[p] \in Holding => lock = [by |-> p, text |-> TRUE]

(* Who inspects the lock has the reaper.                                   *)
OneReaper == \A p \in Proc : stage[p] \in Reaping => reaper = p

(* The timing of the code: an old lock is older than whatever any process  *)
(* is in the middle of, and a process that opened the lock is in the       *)
(* middle of filling it.                                                   *)
OldIsQuiet ==
    /\ old => busy = {}
    /\ \A p \in Proc : stage[p] = "opened" => p \in busy

(* What a process that inspects the lock knows of it: when it read no      *)
(* owner, nothing was written to the lock since unless it is that slow;    *)
ReadingHolds ==
    \A p \in Proc :
        stage[p] = "judging" /\ seen[p] = Empty /\ p \notin busy =>
            lock = NoFile \/ ~lock.text

(* when it judged the lock abandoned, the owner is dead or the lock is     *)
(* still there, old and without an owner;                                  *)
JudgmentHolds ==
    \A p \in Proc :
        stage[p] = "comparing" =>
            IF seen[p] = Empty THEN lock # NoFile /\ ~lock.text /\ old
            ELSE seen[p] \notin alive

(* and what it is about to remove is held by nobody.                       *)
RemovalHolds ==
    \A p \in Proc :
        stage[p] = "removing" =>
            /\ lock # NoFile
            /\ IF lock.text THEN lock.by \notin alive ELSE old

LockInv ==
    /\ LockTypeOK
    /\ HolderHasFile
    /\ OneReaper
    /\ OldIsQuiet
    /\ ReadingHolds
    /\ JudgmentHolds
    /\ RemovalHolds

(* Nobody has asked yet.                                                   *)
LEMMA LockInvInit == Init => LockInv
    BY TypeInit DEF Init, LockInv, HolderHasFile, OneReaper, OldIsQuiet, ReadingHolds,
       JudgmentHolds, RemovalHolds, Holding, Reaping

(* Every step keeps the invariant, one case per action.                    *)
LEMMA LockInvStep ==
    ASSUME ~Pauses, LockInv, [Next]_vars
    PROVE  LockInv'
    <1> USE LockAssumption
    <1> DEFINE Parts == HolderHasFile /\ OneReaper /\ OldIsQuiet /\ ReadingHolds
                        /\ JudgmentHolds /\ RemovalHolds
    <1>0. LockTypeOK /\ LockTypeOK' /\ Parts
        BY TypeStep DEF LockInv
    <1>a. \A q \in Proc, t \in BOOLEAN : [by |-> q, text |-> t] # NoFile
        BY DEF File
    <1>b. lock # NoFile /\ lock.text => Contents(lock) \in Proc /\ Contents(lock) # Empty
        BY <1>0 DEF LockTypeOK, File, Contents
    <1>1. ASSUME NEW p \in Proc, Asks(p) \/ TakesTurn(p) \/ Waits(p) \/ Leaves(p)
          PROVE  Parts'
        BY <1>0, <1>1 DEF LockTypeOK, Asks, TakesTurn, Waits, Leaves, Goes, GoesOn,
           HolderHasFile, OneReaper, OldIsQuiet, ReadingHolds, JudgmentHolds, RemovalHolds, Holding, Short, Reaping
    <1>2. ASSUME NEW p \in Proc, Opens(p)
          PROVE  Parts'
        <2>1. \A q \in Proc : stage[q] \notin Holding \cup {"opened"}
            BY <1>0, <1>2, <1>a DEF Opens, HolderHasFile
        <2>2. /\ lock' = [by |-> p, text |-> FALSE] /\ ~old'
              /\ stage' = [stage EXCEPT ![p] = "opened"]
              /\ busy' = {q \in alive : stage'[q] \in Short}
              /\ p \in alive /\ UNCHANGED <<reaper, seen, alive>>
            BY <1>0, <1>2 DEF LockTypeOK, Opens, GoesWriting
        <2>3. HolderHasFile' /\ OneReaper'
            BY <1>0, <2>1, <2>2 DEF LockTypeOK, HolderHasFile, OneReaper, Holding, Reaping
        <2>4. OldIsQuiet'
            BY <1>0, <2>1, <2>2 DEF LockTypeOK, OldIsQuiet, Short
        <2>5. \A q \in Proc : stage[q] \notin {"comparing", "removing"} \/ seen[q] # Empty
            BY <1>0, <1>2 DEF Opens, JudgmentHolds, RemovalHolds
        <2>6. ReadingHolds' /\ JudgmentHolds'
            BY <1>0, <1>2, <2>2, <2>5 DEF LockTypeOK, Opens, ReadingHolds, JudgmentHolds
        <2>7. RemovalHolds'
            BY <1>0, <1>2, <2>2 DEF LockTypeOK, Opens, RemovalHolds
        <2> QED
            BY <2>3, <2>4, <2>6, <2>7
    <1>3. ASSUME NEW p \in Proc, Writes(p)
          PROVE  Parts'
        BY <1>0, <1>3 DEF LockTypeOK, Writes, Goes, GoesWriting, HolderHasFile, OneReaper,
           OldIsQuiet, ReadingHolds, JudgmentHolds, RemovalHolds, Holding, Short, Reaping
    <1>4. ASSUME NEW p \in Proc, Works(p) \/ Rereads(p) \/ WriteFails(p)
          PROVE  Parts'
        BY <1>0, <1>4 DEF LockTypeOK, Works, Rereads, WriteFails, Goes, GoesOn,
           HolderHasFile, OneReaper, OldIsQuiet, ReadingHolds, JudgmentHolds, RemovalHolds, Holding, Short, Reaping
    <1>5. ASSUME NEW p \in Proc, Unlinks(p)
          PROVE  Parts'
        BY <1>0, <1>5 DEF LockTypeOK, Unlinks, Goes, HolderHasFile, OneReaper,
           OldIsQuiet, ReadingHolds, JudgmentHolds, RemovalHolds, Holding, Short, Reaping
    <1>6. ASSUME NEW p \in Proc, Contends(p)
          PROVE  Parts'
        BY <1>0, <1>6 DEF LockTypeOK, Contends, Goes, HolderHasFile, OneReaper,
           OldIsQuiet, ReadingHolds, JudgmentHolds, RemovalHolds, Holding, Short, Reaping
    <1>7. ASSUME NEW p \in Proc, Reads(p)
          PROVE  Parts'
        BY <1>0, <1>7, <1>b DEF LockTypeOK, Reads, Goes, HolderHasFile, OneReaper,
           OldIsQuiet, ReadingHolds, JudgmentHolds, RemovalHolds, Holding, Short, Reaping
    <1>8. ASSUME NEW p \in Proc, Judges(p)
          PROVE  Parts'
        BY <1>0, <1>8 DEF LockTypeOK, Judges, Goes, GoesOn, HolderHasFile, OneReaper,
           OldIsQuiet, ReadingHolds, JudgmentHolds, RemovalHolds, Holding, Short, Reaping
    <1>9. ASSUME NEW p \in Proc, Compares(p)
          PROVE  Parts'
        BY <1>0, <1>9 DEF LockTypeOK, Compares, Goes, GoesOn, Contents, HolderHasFile, OneReaper,
           OldIsQuiet, ReadingHolds, JudgmentHolds, RemovalHolds, Holding, Short, Reaping
    <1>10. ASSUME NEW p \in Proc, Removes(p)
           PROVE  Parts'
        BY <1>0, <1>10 DEF LockTypeOK, Removes, Goes, HolderHasFile, OneReaper,
           OldIsQuiet, ReadingHolds, JudgmentHolds, RemovalHolds, Holding, Short, Reaping
    <1>11. ASSUME NEW p \in Proc, Drops(p)
           PROVE  Parts'
        BY <1>0, <1>11 DEF LockTypeOK, Drops, Goes, HolderHasFile, OneReaper,
           OldIsQuiet, ReadingHolds, JudgmentHolds, RemovalHolds, Holding, Short, Reaping
    <1>12. ASSUME NEW p \in Proc, Expires(p)
           PROVE  Parts'
        BY <1>0, <1>12 DEF Expires, HolderHasFile, OneReaper,
           OldIsQuiet, ReadingHolds, JudgmentHolds, RemovalHolds
    <1>13. ASSUME NEW p \in Proc, Dies(p)
           PROVE  Parts'
        BY <1>0, <1>13 DEF LockTypeOK, Dies, Goes, HolderHasFile, OneReaper,
           OldIsQuiet, ReadingHolds, JudgmentHolds, RemovalHolds, Holding, Short, Reaping
    <1>14. ASSUME Ages
           PROVE  Parts'
        BY <1>0, <1>14 DEF LockTypeOK, Ages, HolderHasFile, OneReaper,
           OldIsQuiet, ReadingHolds, JudgmentHolds, RemovalHolds, Holding, Reaping
    <1>15. ASSUME UNCHANGED vars
           PROVE  Parts'
        BY <1>0, <1>15 DEF vars, HolderHasFile, OneReaper, OldIsQuiet, ReadingHolds,
           JudgmentHolds, RemovalHolds, Holding, Reaping
    <1>16. Parts'
        BY <1>1, <1>2, <1>3, <1>4, <1>5, <1>6, <1>7, <1>8, <1>9, <1>10, <1>11, <1>12, <1>13,
           <1>14, <1>15 DEF Next, Step
    <1> QED
        BY <1>0, <1>16 DEF LockInv

(* Two processes never run their operations at the same time, however many *)
(* they are and however many die or fail to write, as long as none is      *)
(* suspended for thirty seconds between two calls to the file system.      *)
THEOREM MemoryIsExclusive == ASSUME ~Pauses PROVE Spec => []MutualExclusion
    <1>1. LockInv /\ [Next]_vars => LockInv'
        BY LockInvStep
    <1>2. LockInv => MutualExclusion
        BY DEF LockInv, HolderHasFile, MutualExclusion, Holding
    <1> QED
        BY LockInvInit, <1>1, <1>2, PTL DEF Spec

-----------------------------------------------------------------------------
(* The order of the queue.                                                 *)

(* Those ahead of a process are waiting with earlier tickets, and there is *)
(* nobody ahead of the first.                                              *)
QueueInv ==
    /\ LockTypeOK
    /\ \A p \in Proc : \A q \in ahead[p] : q \in Waiting /\ ticket[q] < ticket[p]
    /\ \A p \in Proc : stage[p] \in {"idle", "first", "dead"} => ahead[p] = {}

(* Every step keeps the order of the queue.                                *)
LEMMA QueueStep ==
    ASSUME QueueInv, [Next]_vars
    PROVE  QueueInv'
    <1> USE LockAssumption
    <1>0. LockTypeOK /\ LockTypeOK'
        BY TypeStep DEF QueueInv
    <1>1. ASSUME NEW p \in Proc, Asks(p)
          PROVE  QueueInv'
        BY <1>0, <1>1 DEF LockTypeOK, QueueInv, Asks, Goes, Waiting
    <1>2. ASSUME NEW p \in Proc, TakesTurn(p)
          PROVE  QueueInv'
        <2>1. \A q \in alive : ticket'[q] = ticket[q]
            BY <1>0, <1>2 DEF LockTypeOK, TakesTurn, Swept
        <2>2. /\ UNCHANGED <<alive, ahead>> /\ Waiting' = Waiting
              /\ stage' \in {[stage EXCEPT ![p] = "first"], [stage EXCEPT ![p] = "blocked"]}
            BY <1>0, <1>2, <2>1, ZenonT(40) DEF LockTypeOK, TakesTurn, Goes, Waiting
        <2>3. ASSUME NEW q \in Proc, NEW r \in ahead[q]
              PROVE  ticket'[r] < ticket'[q]
            <3>1. q \in alive /\ r \in alive /\ ticket[r] < ticket[q]
                BY <1>0, <2>3 DEF LockTypeOK, QueueInv, Waiting
            <3> QED
                BY <3>1, <2>1
        <2>4. stage'[p] = "first" => ahead[p] = {}
            <3>1. SUFFICES ASSUME stage'[p] = "first", NEW r \in ahead[p]
                           PROVE  FALSE
                OBVIOUS
            <3>2. ticket[p] <= ticket[r] /\ ticket[r] < ticket[p]
                BY <1>0, <1>2, <3>1 DEF LockTypeOK, QueueInv, TakesTurn, Goes
            <3>3. ticket[p] \in Nat /\ ticket[r] \in Nat
                BY <1>0, <3>1 DEF LockTypeOK, QueueInv, Waiting
            <3> QED
                BY <3>2, <3>3
        <2> QED
            BY <1>0, <2>2, <2>3, <2>4 DEF LockTypeOK, QueueInv
    <1>3. ASSUME NEW p \in Proc, Leaves(p) \/ Dies(p)
          PROVE  QueueInv'
        BY <1>0, <1>3 DEF LockTypeOK, QueueInv, Leaves, Dies, Goes, Waiting
    <1>4. ASSUME NEW p \in Proc,
                 \/ Waits(p) \/ Opens(p) \/ Writes(p) \/ Works(p) \/ Rereads(p) \/ Unlinks(p)
                 \/ Contends(p) \/ Reads(p) \/ Judges(p) \/ Compares(p) \/ Removes(p)
                 \/ Drops(p) \/ WriteFails(p)
          PROVE  QueueInv'
        <2>1. /\ UNCHANGED <<alive, ticket, ahead>>
              /\ \E s \in Stage \ {"idle", "first", "dead"} : stage' = [stage EXCEPT ![p] = s]
            BY <1>4 DEF Waits, Opens, Writes, Works, Rereads, Unlinks, Contends, Reads, Judges,
               Compares, Removes, Drops, WriteFails, Goes, GoesOn, GoesWriting, Stage, Short, Reaping
        <2> QED
            BY <1>0, <2>1 DEF LockTypeOK, QueueInv, Waiting
    <1>5. CASE Ages \/ (\E p \in Proc : Expires(p)) \/ UNCHANGED vars
        BY <1>0, <1>5 DEF QueueInv, Ages, Expires, vars, Waiting
    <1> QED
        BY <1>1, <1>2, <1>3, <1>4, <1>5 DEF Next, Step

(* A writer never takes the lock ahead of one that was waiting with an     *)
(* earlier ticket when it asked and waits still.                           *)
THEOREM NobodyIsOvertaken == Spec => NoOvertaking
    <1>1. Init => QueueInv
        BY TypeInit DEF Init, QueueInv
    <1>2. QueueInv /\ [Next]_vars => QueueInv'
        BY QueueStep
    <1>3. QueueInv /\ [Next]_vars =>
              [\A p \in Proc : stage[p] # "opened" /\ stage'[p] = "opened" => ahead[p] = {}]_vars
        BY DEF QueueInv, LockTypeOK, Next, Step, Asks, TakesTurn, Waits, Leaves, Opens, Writes, Works,
           Rereads, Unlinks, Contends, Reads, Judges, Compares, Removes, Drops, Expires, WriteFails,
           Dies, Ages, Goes, GoesOn, GoesWriting, vars
    <1> QED
        BY <1>1, <1>2, <1>3, PTL DEF Spec, NoOvertaking

-----------------------------------------------------------------------------
(* Schedules.                                                              *)

Process == Daemon \cup Tool

(* From the tick that finds the schedule due until its mark is written.    *)
Unmarked == {"fired", "opening", "filling"}
Running  == Unmarked \cup {"firing"}

(* What a process holds while it writes, and what a daemon runs.           *)
PlaceInv ==
    /\ \A p \in Process : procs[p].stage \in {"opening", "filling"} => procs[p].held \in Stored
    /\ \A d \in Daemon :
        /\ procs[d].stage \in {"opening", "filling"} => procs[d].held.lastRun = procs[d].now
        /\ procs[d].now <= today
        /\ procs[d].stage \in Running => procs[d].now >= 1 /\ Due(procs[d].now)

(* It has run on days that are over or have begun, and that were due.      *)
RanInv == \A day \in ran : day \in 1 .. today /\ Due(day)

(* What the record says, if it can be read, is the last mark written.      *)
MarkInv ==
    /\ marked \in 0 .. LastDay
    /\ record \in Stored => record.lastRun = marked

(* On a day that is not crowded one daemon at most listens, and two that   *)
(* run it for the same day do so for a crowded one.                        *)
OneListens == \A d, e \in Daemon : Listening(d) /\ Listening(e) => d = e

RunApart ==
    \A d, e \in Daemon :
        procs[d].stage \in Running /\ procs[e].stage \in Running /\ procs[d].now = procs[e].now =>
            d = e \/ procs[d].now \in crowded

(* On the other days, one that is about to run it again is one whose mark  *)
(* was lost; and a day on which it has run is marked, is about to be, or   *)
(* has lost its mark.                                                      *)
Excused == forgotten \cup crowded

AgainIfExcused ==
    \A d \in Daemon :
        procs[d].stage = "firing" /\ procs[d].now \in ran => procs[d].now \in Excused

MarkUnderWay == \E d \in Daemon : procs[d].stage \in Unmarked /\ procs[d].now = today

TodayIsMarked == today \in ran \ Excused => marked = today \/ MarkUnderWay

OnceInv ==
    /\ today \notin crowded => OneListens
    /\ RunApart
    /\ AgainIfExcused
    /\ TodayIsMarked
    /\ twice \subseteq Excused

(* Unless two daemons started together or one was disowned: the pid names  *)
(* whoever listens, and nobody does while those who saw no daemon may act. *)
PidInv ==
    \/ together
    \/ disowned
    \/ /\ crowded = {}
       /\ \A d \in Daemon : Listening(d) => pidFile = d
       /\ alone # {} => \A d \in Daemon : ~Listening(d)

ScheduleInv == ScheduleTypeOK /\ PlaceInv /\ RanInv /\ MarkInv /\ OnceInv /\ PidInv

(* A step of one process, and what the others keep meanwhile.              *)
Moves(p, s, h, n) ==
    /\ procs' \in [Process -> Place]
    /\ procs'[p].stage = s /\ procs'[p].held = h
    /\ procs'[p].now = n
    /\ \A q \in Process \ {p} :
        /\ procs'[q].stage = procs[q].stage /\ procs'[q].held = procs[q].held
        /\ procs'[q].now = procs[q].now

(* The fields of a place.                                                  *)
LEMMA PlaceFields ==
    ASSUME procs \in [Process -> Place], NEW p \in Process
    PROVE  /\ procs[p].stage \in Stages /\ procs[p].held \in Stored \cup {NoSchedule}
           /\ procs[p].now \in 0 .. LastDay /\ procs[p].ticked \in 0 .. LastDay
           /\ procs[p].stopping \in BOOLEAN
    <1>1. procs[p] \in Place
        OBVIOUS
    <1> QED
        BY <1>1 DEF Place

(* The place of one process is replaced.                                   *)
LEMMA MoveTo ==
    ASSUME procs \in [Process -> Place], NEW p \in Process, NEW place \in Place,
           Becomes(p, place)
    PROVE  Moves(p, place.stage, place.held, place.now)
    <1>1. procs' = [procs EXCEPT ![p] = place]
        BY DEF Becomes
    <1>2. procs' \in [Process -> Place]
        BY <1>1
    <1>3. procs'[p] = place /\ \A q \in Process \ {p} : procs'[q] = procs[q]
        BY <1>1
    <1> QED
        BY <1>2, <1>3 DEF Moves

(* A process that goes to another stage, and one that comes to rest.       *)
LEMMA StageMove ==
    ASSUME procs \in [Process -> Place], NEW p \in Process, NEW s \in Stages,
           Becomes(p, [procs[p] EXCEPT !.stage = s])
    PROVE  Moves(p, s, procs[p].held, procs[p].now)
    <1> DEFINE place == [procs[p] EXCEPT !.stage = s]
    <1>1. procs[p] \in Place
        OBVIOUS
    <1>2. /\ place \in Place /\ place.stage = s /\ place.held = procs[p].held
          /\ place.now = procs[p].now
        BY <1>1 DEF Place
    <1>3. Becomes(p, place)
        OBVIOUS
    <1> HIDE DEF place
    <1>4. Moves(p, place.stage, place.held, place.now)
        BY <1>2, <1>3, MoveTo
    <1> QED
        BY <1>2, <1>4

LEMMA HeldMove ==
    ASSUME procs \in [Process -> Place], NEW p \in Process, NEW s \in Stages,
           NEW h \in Stored \cup {NoSchedule},
           Becomes(p, [procs[p] EXCEPT !.stage = s, !.held = h])
    PROVE  Moves(p, s, h, procs[p].now)
    <1> DEFINE place == [procs[p] EXCEPT !.stage = s, !.held = h]
    <1>1. procs[p] \in Place
        OBVIOUS
    <1>2. /\ place \in Place /\ place.stage = s /\ place.held = h
          /\ place.now = procs[p].now
        BY <1>1 DEF Place
    <1>3. Becomes(p, place)
        OBVIOUS
    <1> HIDE DEF place
    <1>4. Moves(p, place.stage, place.held, place.now)
        BY <1>2, <1>3, MoveTo
    <1> QED
        BY <1>2, <1>4

LEMMA RestMove ==
    ASSUME procs \in [Process -> Place], NEW p \in Process, Rests(p)
    PROVE  Moves(p, "idle", NoSchedule, procs[p].now)
    BY HeldMove DEF Rests, Stages

(* A daemon that ends, and one that starts.                                *)
LEMMA OffPlace ==
    ASSUME ScheduleAssumption
    PROVE  /\ Off \in Place /\ Off.stage = "off" /\ Off.held = NoSchedule /\ Off.now = 0
    <1>1. 0 \in 0 .. LastDay
        BY DEF ScheduleAssumption
    <1> QED
        BY <1>1 DEF Off, Place, Stages

LEMMA OffMove ==
    ASSUME procs \in [Process -> Place], ScheduleAssumption, NEW p \in Process, Becomes(p, Off)
    PROVE  Moves(p, "off", NoSchedule, 0)
    <1>1. Moves(p, Off.stage, Off.held, Off.now)
        BY OffPlace, MoveTo
    <1> QED
        BY <1>1, OffPlace

LEMMA StartMove ==
    ASSUME procs \in [Process -> Place], ScheduleAssumption, NEW d \in Daemon, Starts(d)
    PROVE  \E s \in {"starting", "checking"} : Moves(d, s, NoSchedule, 0)
    <1> DEFINE s == IF pidFile = NoDaemon THEN "starting" ELSE "checking"
               place == [Off EXCEPT !.stage = s]
    <1>1. Becomes(d, place)
        BY DEF Starts
    <1>2. s \in {"starting", "checking"} /\ s \in Stages
        BY DEF Stages
    <1>3. /\ place \in Place /\ place.stage = s /\ place.held = NoSchedule /\ place.now = 0
        <2>1. Off \in Place
            BY OffPlace
        <2> HIDE DEF s
        <2> QED
            BY <1>1, <1>2, <2>1, OffPlace DEF Place
    <1> HIDE DEF s, place
    <1>4. Moves(d, place.stage, place.held, place.now)
        BY <1>1, <1>3, MoveTo DEF Process
    <1> QED
        BY <1>2, <1>3, <1>4

(* A tick.                                                                 *)
LEMMA TickMove ==
    ASSUME procs \in [Process -> Place], NEW d \in Daemon, today \in 0 .. LastDay, Ticks(d)
    PROVE  \/ ShouldRunNow /\ Moves(d, "firing", procs[d].held, today)
           \/ Moves(d, "idle", procs[d].held, today)
    <1> DEFINE s == IF ShouldRunNow THEN "firing" ELSE "idle"
               place == [procs[d] EXCEPT !.ticked = today, !.now = today, !.stage = s]
    <1>1. procs[d] \in Place /\ d \in Process
        BY DEF Process
    <1>2. s \in Stages /\ ((s = "firing" /\ ShouldRunNow) \/ s = "idle")
        BY DEF Stages
    <1>3. Becomes(d, place)
        BY DEF Ticks
    <1>4. /\ place \in Place /\ place.stage = s /\ place.held = procs[d].held
          /\ place.now = today
        <2> HIDE DEF s
        <2> QED
            BY <1>1, <1>2 DEF Place
    <1> HIDE DEF place, s
    <1>5. Moves(d, place.stage, place.held, place.now)
        BY <1>1, <1>3, <1>4, MoveTo
    <1>6. Moves(d, s, procs[d].held, today)
        BY <1>4, <1>5
    <1> QED
        BY <1>2, <1>6

(* A signal changes nothing else.                                          *)
LEMMA SignalMove ==
    ASSUME procs \in [Process -> Place], NEW d \in Daemon, Interrupts(d)
    PROVE  Moves(d, procs[d].stage, procs[d].held, procs[d].now)
    <1> DEFINE place == [procs[d] EXCEPT !.stopping = TRUE]
    <1>1. procs[d] \in Place /\ d \in Process
        BY DEF Process
    <1>2. /\ place \in Place /\ place.stage = procs[d].stage /\ place.held = procs[d].held
          /\ place.now = procs[d].now
        BY <1>1 DEF Place
    <1>3. Becomes(d, place)
        BY DEF Interrupts
    <1> HIDE DEF place
    <1>4. Moves(d, place.stage, place.held, place.now)
        BY <1>1, <1>2, <1>3, MoveTo
    <1> QED
        BY <1>2, <1>4

LEMMA StopMove ==
    ASSUME procs \in [Process -> Place], ScheduleAssumption, NEW t \in Tool, AsksToStop(t)
    PROVE  Moves(t, "stopping", procs[t].held, procs[t].now)
    <1> DEFINE d == pidFile
    <1>1. d \in Daemon /\ d # t /\ t \in Process /\ d \in Process
        BY DEF AsksToStop, NamesNobody, Names, ScheduleAssumption, Process
    <1>2. /\ procs' = [procs EXCEPT ![t].stage = "stopping", ![d].stopping = TRUE]
          /\ procs[t] \in Place /\ procs[d] \in Place
        BY <1>1 DEF AsksToStop
    <1> HIDE DEF d
    <1>3. /\ procs'[t] = [procs[t] EXCEPT !.stage = "stopping"]
          /\ procs'[d] = [procs[d] EXCEPT !.stopping = TRUE]
          /\ \A q \in Process \ {t, d} : procs'[q] = procs[q]
          /\ procs' = [q \in Process |-> procs'[q]]
        <2> DEFINE pt == [procs[t] EXCEPT !.stage = "stopping"]
                   pd == [procs[d] EXCEPT !.stopping = TRUE]
        <2>1. procs' = [procs EXCEPT ![t] = pt, ![d] = pd]
            BY <1>1, <1>2
        <2> HIDE DEF pt, pd
        <2>2. procs'[t] = pt /\ procs'[d] = pd
            BY <1>1, <2>1
        <2>3. /\ \A q \in Process \ {t, d} : procs'[q] = procs[q]
              /\ procs' = [q \in Process |-> procs'[q]]
            BY <2>1
        <2> QED
            BY <2>2, <2>3 DEF pt, pd
    <1>4. procs'[t] \in Place /\ procs'[d] \in Place
        <2>1. \A place \in Place : [place EXCEPT !.stage = "stopping"] \in Place
            BY DEF Place, Stages
        <2>2. \A place \in Place : [place EXCEPT !.stopping = TRUE] \in Place
            BY DEF Place
        <2> QED
            BY <1>2, <1>3, <2>1, <2>2
    <1>5. procs' \in [Process -> Place]
        <2>1. \A q \in Process : procs'[q] \in Place
            BY <1>3, <1>4
        <2> QED
            BY <2>1, <1>3
    <1>6. /\ procs'[t].stage = "stopping" /\ procs'[t].held = procs[t].held
          /\ procs'[t].now = procs[t].now
        BY <1>2, <1>3 DEF Place
    <1>7. /\ procs'[d].stage = procs[d].stage /\ procs'[d].held = procs[d].held
          /\ procs'[d].now = procs[d].now
        BY <1>2, <1>3 DEF Place
    <1> QED
        BY <1>3, <1>5, <1>6, <1>7 DEF Moves

(* Who is filling the record after a step.                                 *)
LEMMA FillingAfter ==
    ASSUME NEW p \in Process, NEW s, NEW h, NEW n, Moves(p, s, h, n)
    PROVE  Filling' = IF s = "filling" THEN Filling \cup {p} ELSE Filling \ {p}
    BY DEF Moves, Filling, Process

(* The daemons' expression is not changed: what is due stays due.          *)
LEMMA DueAfter ==
    ASSUME expression' = expression, NEW day
    PROVE  Due(day)' = Due(day)
    BY DEF Due

(* PlaceInv after a step of one process.                                   *)
LEMMA PlaceAfter ==
    ASSUME ScheduleInv, NEW p \in Process, NEW s, NEW h, NEW n, Moves(p, s, h, n),
           expression' = expression, today' = today,
           s \in {"opening", "filling"} => h \in Stored,
           p \in Daemon =>
               /\ s \in {"opening", "filling"} => h.lastRun = n
               /\ n <= today
               /\ s \in Running => n >= 1 /\ Due(n)
    PROVE  PlaceInv'
    <1>1. PlaceInv
        BY DEF ScheduleInv
    <1>2. \A q \in Process : procs'[q].stage \in {"opening", "filling"} => procs'[q].held \in Stored
        BY <1>1 DEF PlaceInv, Moves
    <1>3. ASSUME NEW d \in Daemon
          PROVE  /\ procs'[d].stage \in {"opening", "filling"} => procs'[d].held.lastRun = procs'[d].now
                 /\ procs'[d].now <= today
                 /\ procs'[d].stage \in Running => procs'[d].now >= 1 /\ Due(procs'[d].now)
        <2>1. CASE d = p
            BY <2>1 DEF Moves
        <2>2. CASE d # p
            <3>1. /\ procs'[d].stage = procs[d].stage /\ procs'[d].held = procs[d].held
                  /\ procs'[d].now = procs[d].now
                BY <2>2 DEF Moves, Process
            <3> QED
                BY <1>1, <3>1 DEF PlaceInv
        <2> QED
            BY <2>1, <2>2
    <1>4. ASSUME NEW d \in Daemon PROVE Due(procs[d].now)' = Due(procs'[d].now)
        BY DEF Due
    <1> QED
        BY <1>2, <1>3, <1>4 DEF PlaceInv

(* Once a day, after a step in which nothing is run and no mark written.   *)
LEMMA OnceAfter ==
    ASSUME ScheduleInv, NEW p \in Process, NEW s, NEW h, NEW n, Moves(p, s, h, n),
           UNCHANGED <<today, ran, twice, marked, crowded>>, forgotten \subseteq forgotten',
           p \in Daemon =>
               /\ s \notin {"off", "checking", "starting"} => Listening(p)
               /\ s \in Running => procs[p].stage \in Running /\ n = procs[p].now
               /\ s = "firing" => procs[p].stage = "firing"
               /\ procs[p].stage \in Unmarked =>
                      \/ s \in Unmarked /\ n = procs[p].now
                      \/ procs[p].now \in forgotten'
    PROVE  OnceInv'
    <1>1. /\ today \notin crowded => OneListens
          /\ RunApart /\ AgainIfExcused /\ TodayIsMarked /\ twice \subseteq Excused
        BY DEF ScheduleInv, OnceInv
    <1>2. \A d \in Daemon : procs'[d].stage \notin {"off", "checking", "starting"} => Listening(d)
        BY DEF Moves, Process, Listening
    <1>3. (today \notin crowded => OneListens)'
        BY <1>1, <1>2 DEF OneListens, Listening
    <1>4. ASSUME NEW d \in Daemon, procs'[d].stage \in Running
          PROVE  procs[d].stage \in Running /\ procs'[d].now = procs[d].now
        BY <1>4 DEF Moves, Process
    <1>5. RunApart'
        BY <1>1, <1>4 DEF RunApart
    <1>6. AgainIfExcused'
        <2>1. \A d \in Daemon : procs'[d].stage = "firing" => procs[d].stage = "firing"
            BY DEF Moves, Process
        <2> QED
            BY <1>1, <1>4, <2>1 DEF AgainIfExcused, Running, Excused
    <1>7. TodayIsMarked'
        <2>1. SUFFICES ASSUME today \in ran \ Excused', marked # today
                       PROVE  MarkUnderWay'
            BY DEF TodayIsMarked
        <2>2. PICK d \in Daemon : procs[d].stage \in Unmarked /\ procs[d].now = today
            BY <1>1, <2>1 DEF TodayIsMarked, MarkUnderWay, Excused
        <2>3. procs'[d].stage \in Unmarked /\ procs'[d].now = today
            <3>1. CASE d = p
                BY <2>1, <2>2, <3>1 DEF Moves, Excused
            <3>2. CASE d # p
                BY <2>2, <3>2 DEF Moves, Process
            <3> QED
                BY <3>1, <3>2
        <2> QED
            BY <2>3 DEF MarkUnderWay
    <1> QED
        BY <1>1, <1>3, <1>5, <1>6, <1>7 DEF OnceInv, Excused

(* The pid after a step that does not touch it: only one that saw no       *)
(* daemon becomes one of those who did.                                    *)
LEMMA PidKept ==
    ASSUME ScheduleInv, NEW p \in Process, NEW s, NEW h, NEW n, Moves(p, s, h, n),
           p \in Daemon /\ s \notin {"off", "checking", "starting"} => Listening(p),
           UNCHANGED <<pidFile, together, disowned, crowded>>,
           alone' \subseteq alone \/ NamesNobody
    PROVE  PidInv'
    <1>1. SUFFICES ASSUME ~together, ~disowned
                   PROVE  PidInv'
        BY DEF PidInv
    <1>2. /\ crowded = {} /\ \A d \in Daemon : Listening(d) => pidFile = d
          /\ alone # {} => \A d \in Daemon : ~Listening(d)
        BY <1>1 DEF ScheduleInv, PidInv
    <1>3. \A d \in Daemon : Listening(d)' => Listening(d)
        BY DEF Moves, Process, Listening
    <1>4. alone' # {} => \A d \in Daemon : ~Listening(d)
        BY <1>2 DEF NamesNobody, Names
    <1> QED
        BY <1>2, <1>3, <1>4 DEF PidInv

(* The pid after it was removed: by one that saw no daemon, or by the      *)
(* daemon itself that it named.                                            *)
LEMMA PidRemoved ==
    ASSUME ScheduleInv, ScheduleAssumption, NEW p \in Process, NEW s, NEW h, NEW n,
           Moves(p, s, h, n), p \in Daemon => s \in {"off", "checking", "starting"},
           Unnames(p), alone' \subseteq alone, UNCHANGED <<together, crowded>>
    PROVE  PidInv' /\ disowned' \in BOOLEAN /\ pidFile' = NoDaemon
    <1>1. /\ pidFile' = NoDaemon
          /\ disowned' = (disowned \/ (p \notin alone /\ \E d \in Daemon \ {p} : Names(d)))
        BY DEF Unnames
    <1>2. disowned' \in BOOLEAN
        BY <1>1, Zenon
    <1>3. SUFFICES ASSUME ~together, ~disowned'
                   PROVE  PidInv'
        BY <1>1, <1>2 DEF PidInv
    <1>4. ~disowned /\ (p \in alone \/ ~ \E d \in Daemon \ {p} : Names(d))
        BY <1>1, <1>3
    <1>5. /\ crowded = {} /\ \A d \in Daemon : Listening(d) => pidFile = d
          /\ alone # {} => \A d \in Daemon : ~Listening(d)
        BY <1>3, <1>4 DEF ScheduleInv, PidInv
    <1>6. \A d \in Daemon \ {p} : ~Listening(d)
        BY <1>4, <1>5 DEF Names
    <1>7. \A d \in Daemon : ~Listening(d)'
        BY <1>6 DEF Moves, Process, Listening
    <1> QED
        BY <1>5, <1>7 DEF PidInv

(* A step that runs nothing, writes no mark and does not end a day.        *)
LEMMA QuietStep ==
    ASSUME ScheduleInv, NEW p \in Process, NEW s, NEW h, NEW n, Moves(p, s, h, n),
           UNCHANGED <<expression, today, ran, twice, marked, together, crowded>>, PidInv',
           record' \in {record, NoSchedule, HalfWritten},
           pidFile' \in Daemon \cup {NoDaemon}, unlinked' \subseteq Filling',
           alone' \subseteq Process, disowned' \in BOOLEAN,
           forgotten \subseteq forgotten', ScheduleAssumption,
           s \in {"opening", "filling"} => h \in Stored,
           p \in Daemon =>
               /\ s \in {"opening", "filling"} => h.lastRun = n
               /\ n <= today
               /\ s \in Running => n >= 1 /\ Due(n)
               /\ s \notin {"off", "checking", "starting"} => Listening(p)
               /\ s \in Running => procs[p].stage \in Running /\ n = procs[p].now
               /\ s = "firing" => procs[p].stage = "firing"
               /\ procs[p].stage \in Unmarked =>
                      \/ s \in Unmarked /\ n = procs[p].now
                      \/ procs[p].now \in forgotten'
    PROVE  ScheduleInv'
    <1>1. ScheduleTypeOK'
        BY DEF ScheduleInv, ScheduleTypeOK, Moves, Process
    <1>2. PlaceInv'
        BY PlaceAfter
    <1>3. RanInv'
        BY DueAfter DEF ScheduleInv, RanInv
    <1>4. MarkInv'
        BY DEF ScheduleInv, MarkInv, ScheduleAssumption
    <1>5. OnceInv'
        BY OnceAfter
    <1> QED
        BY <1>1, <1>2, <1>3, <1>4, <1>5 DEF ScheduleInv

(* The same of a step that leaves the pid and its history alone.           *)
LEMMA PidlessStep ==
    ASSUME ScheduleInv, ScheduleAssumption, NEW p \in Process, NEW s, NEW h, NEW n,
           Moves(p, s, h, n),
           UNCHANGED <<expression, today, ran, twice, marked, pidFile, daemonHistory>>,
           record' \in {record, NoSchedule, HalfWritten}, unlinked' \subseteq Filling',
           forgotten \subseteq forgotten',
           s \in {"opening", "filling"} => h \in Stored,
           p \in Daemon =>
               /\ s \in {"opening", "filling"} => h.lastRun = n
               /\ n <= today
               /\ s \in Running => n >= 1 /\ Due(n)
               /\ s \notin {"off", "checking", "starting"} => Listening(p)
               /\ s \in Running => procs[p].stage \in Running /\ n = procs[p].now
               /\ s = "firing" => procs[p].stage = "firing"
               /\ procs[p].stage \in Unmarked =>
                      \/ s \in Unmarked /\ n = procs[p].now
                      \/ procs[p].now \in forgotten'
    PROVE  ScheduleInv'
    <1>1. UNCHANGED <<alone, together, disowned, crowded>>
        BY DEF daemonHistory
    <1>2. PidInv'
        BY <1>1, PidKept
    <1>3. /\ pidFile' \in Daemon \cup {NoDaemon} /\ alone' \subseteq Process
          /\ disowned' \in BOOLEAN
        BY <1>1 DEF ScheduleInv, ScheduleTypeOK, Process
    <1> QED
        BY <1>1, <1>2, <1>3, QuietStep

(* What the cases of a step need of the invariant.                         *)
LEMMA PlaceFacts ==
    ASSUME ScheduleInv, ScheduleAssumption, NEW p \in Process
    PROVE  /\ procs \in [Process -> Place] /\ procs[p].stage \in Stages
           /\ procs[p].now \in 0 .. LastDay /\ today \in 1 .. LastDay /\ today \in 0 .. LastDay
           /\ procs[p].stage \in {"opening", "filling"} => procs[p].held \in Stored
           /\ p \in Daemon =>
                  /\ procs[p].stage \in {"opening", "filling"} =>
                         procs[p].held.lastRun = procs[p].now
                  /\ procs[p].now <= today
                  /\ procs[p].stage \in Running => procs[p].now >= 1 /\ Due(procs[p].now)
           /\ pidFile \in Daemon \cup {NoDaemon}
           /\ unlinked \subseteq Filling
           /\ NoDaemon \notin Daemon /\ Daemon \cap Tool = {}
           /\ alone \subseteq Process /\ together \in BOOLEAN /\ disowned \in BOOLEAN
    <1>1. procs \in [Process -> Place] /\ today \in 1 .. LastDay
        BY DEF ScheduleInv, ScheduleTypeOK, Process
    <1>2. procs[p].stage \in Stages /\ procs[p].now \in 0 .. LastDay
        BY <1>1, PlaceFields
    <1>3. today \in 0 .. LastDay
        BY <1>1 DEF ScheduleAssumption
    <1> QED
        BY <1>1, <1>2, <1>3 DEF ScheduleInv, ScheduleTypeOK, PlaceInv, ScheduleAssumption, Process

-----------------------------------------------------------------------------
(* One lemma per action.                                                   *)

LEMMA TruncatesStep ==
    ASSUME ScheduleInv, ScheduleAssumption, NEW p \in Process, Truncates(p)
    PROVE  ScheduleInv'
    <1>1. Moves(p, "filling", procs[p].held, procs[p].now)
        BY StageMove, PlaceFacts DEF Truncates, Stages
    <1>2. procs[p].stage = "opening"
        BY DEF Truncates
    <1>3. unlinked' \subseteq Filling'
        BY <1>1, FillingAfter, PlaceFacts DEF Truncates
    <1> QED
        BY <1>1, <1>2, <1>3, PlaceFacts, PidlessStep DEF Truncates, Unmarked, Running, Listening

LEMMA StartsStep ==
    ASSUME ScheduleInv, ScheduleAssumption, NEW d \in Daemon, Starts(d)
    PROVE  ScheduleInv'
    <1>1. d \in Process
        BY DEF Process
    <1>2. PICK s \in {"starting", "checking"} : Moves(d, s, NoSchedule, 0)
        BY <1>1, StartMove, PlaceFacts
    <1>3. procs[d].stage = "off" /\ NamesNobody /\ alone' = alone \cup {d}
        BY DEF Starts
    <1>4. /\ UNCHANGED <<expression, today, ran, twice, marked, together, crowded>>
          /\ UNCHANGED <<record, pidFile, unlinked, forgotten, disowned>>
        BY DEF Starts
    <1>5. unlinked' \subseteq Filling'
        BY <1>1, <1>2, <1>3, <1>4, FillingAfter, PlaceFacts DEF Filling
    <1>6. PidInv'
        BY <1>1, <1>2, <1>3, <1>4, PidKept
    <1>7. alone' \subseteq Process /\ disowned' \in BOOLEAN /\ 0 <= today
        BY <1>1, <1>3, <1>4, PlaceFacts DEF ScheduleAssumption
    <1> QED
        BY <1>1, <1>2, <1>3, <1>4, <1>5, <1>6, <1>7, PlaceFacts, QuietStep DEF Unmarked, Running

LEMMA ClearsOldStep ==
    ASSUME ScheduleInv, ScheduleAssumption, NEW d \in Daemon, ClearsOld(d)
    PROVE  ScheduleInv'
    <1>1. d \in Process /\ procs[d].stage = "checking"
        BY DEF Process, ClearsOld
    <1>2. Moves(d, "starting", procs[d].held, procs[d].now)
        BY <1>1, StageMove, PlaceFacts DEF ClearsOld, Stages
    <1>3. /\ UNCHANGED <<expression, today, ran, twice, marked, together, crowded>>
          /\ UNCHANGED <<record, unlinked, forgotten, alone>> /\ Unnames(d)
        BY DEF ClearsOld
    <1>4. unlinked' \subseteq Filling'
        BY <1>1, <1>2, <1>3, FillingAfter, PlaceFacts DEF Filling
    <1>5. PidInv' /\ disowned' \in BOOLEAN /\ pidFile' = NoDaemon
        BY <1>1, <1>2, <1>3, PidRemoved
    <1>6. alone' \subseteq Process
        BY <1>1, <1>3, PlaceFacts
    <1> QED
        BY <1>1, <1>2, <1>3, <1>4, <1>5, <1>6, PlaceFacts, QuietStep DEF Unmarked, Running

LEMMA TouchesStep ==
    ASSUME ScheduleInv, ScheduleAssumption, NEW d \in Daemon, Touches(d)
    PROVE  ScheduleInv'
    <1>1. d \in Process /\ procs[d].stage = "fired"
        BY DEF Process, Touches
    <1>2. CASE record \in Stored
        <2> DEFINE h == [record EXCEPT !.lastRun = procs[d].now]
        <2>1. procs[d].now \in 0 .. LastDay
            BY <1>1, PlaceFacts
        <2>2. h \in Stored /\ h.lastRun = procs[d].now
            BY <1>2, <2>1 DEF Stored
        <2>3. Becomes(d, [procs[d] EXCEPT !.stage = "opening", !.held = h]) /\ forgotten' = forgotten
            <3>1. /\ Becomes(d, [procs[d] EXCEPT !.stage = "opening",
                                                 !.held = [record EXCEPT !.lastRun = procs[d].now]])
                  /\ UNCHANGED forgotten
                BY <1>2, ZenonT(40) DEF Touches
            <3> QED
                BY <3>1, Zenon
        <2> HIDE DEF h
        <2>4. Moves(d, "opening", h, procs[d].now)
            BY <1>1, <2>2, <2>3, HeldMove, PlaceFacts DEF Stages
        <2>5. unlinked' \subseteq Filling'
            BY <1>1, <2>4, FillingAfter, PlaceFacts DEF Touches, Filling
        <2>6. /\ UNCHANGED <<expression, today, ran, twice, marked, pidFile, daemonHistory>>
              /\ record' = record
            BY DEF Touches
        <2> QED
            BY <1>1, <2>2, <2>3, <2>4, <2>5, <2>6, PlaceFacts, PidlessStep
               DEF Unmarked, Running, Listening
    <1>3. CASE record \notin Stored
        <2>1. Moves(d, "idle", NoSchedule, procs[d].now)
            BY <1>1, <1>3, RestMove, PlaceFacts DEF Touches
        <2>2. unlinked' \subseteq Filling'
            BY <1>1, <2>1, FillingAfter, PlaceFacts DEF Touches, Filling
        <2> QED
            BY <1>1, <1>3, <2>1, <2>2, PlaceFacts, PidlessStep
               DEF Touches, Unmarked, Running, Listening
    <1> QED
        BY <1>2, <1>3

LEMMA InterruptsStep ==
    ASSUME ScheduleInv, ScheduleAssumption, NEW d \in Daemon, Interrupts(d)
    PROVE  ScheduleInv'
    <1>1. d \in Process /\ Listening(d)
        BY DEF Process, Interrupts
    <1>2. Moves(d, procs[d].stage, procs[d].held, procs[d].now)
        BY <1>1, SignalMove, PlaceFacts
    <1>3. unlinked' \subseteq Filling'
        BY <1>1, <1>2, FillingAfter, PlaceFacts DEF Interrupts, Filling
    <1> QED
        BY <1>1, <1>2, <1>3, PlaceFacts, PidlessStep DEF Interrupts, Unmarked, Running, Listening

LEMMA EndsStep ==
    ASSUME ScheduleInv, ScheduleAssumption, NEW d \in Daemon, Exits(d) \/ IsKilled(d)
    PROVE  ScheduleInv'
    <1>1. d \in Process /\ Ends(d)
        BY DEF Process, Exits, IsKilled
    <1>2. Moves(d, "off", NoSchedule, 0)
        BY <1>1, OffMove, PlaceFacts DEF Ends
    <1>3. /\ UNCHANGED <<expression, today, ran, twice, marked, together, crowded>>
          /\ record' = record /\ unlinked' = unlinked \ {d} /\ alone' = alone \ {d}
          /\ forgotten \subseteq forgotten'
          /\ procs[d].stage \in Unmarked => procs[d].now \in forgotten'
        BY <1>1 DEF Ends, Unmarked
    <1>4. unlinked' \subseteq Filling'
        BY <1>1, <1>2, <1>3, FillingAfter, PlaceFacts
    <1>5. /\ PidInv' /\ disowned' \in BOOLEAN
          /\ pidFile' \in Daemon \cup {NoDaemon}
        <2>1. CASE UNCHANGED <<pidFile, disowned>>
            BY <1>1, <1>2, <1>3, <2>1, PidKept, PlaceFacts
        <2>2. CASE Unnames(d)
            BY <1>1, <1>2, <1>3, <2>2, PidRemoved
        <2> QED
            BY <2>1, <2>2 DEF Exits, IsKilled
    <1>6. 0 <= today /\ alone' \subseteq Process
        BY <1>1, <1>3, PlaceFacts DEF ScheduleAssumption
    <1> QED
        BY <1>1, <1>2, <1>3, <1>4, <1>5, <1>6, PlaceFacts, QuietStep DEF Unmarked, Running

(* A tool has no day: whatever it does, no daemon runs anything.           *)
LEMMA ToolStep ==
    ASSUME ScheduleInv, ScheduleAssumption, NEW t \in Tool, NEW s \in Stages, NEW h, NEW n,
           Moves(t, s, h, n), s \in {"opening", "filling"} => h \in Stored,
           UNCHANGED <<expression, today, ran, twice, marked, forgotten, together, crowded>>,
           record' \in {record, NoSchedule}, unlinked' \subseteq Filling',
           \/ /\ UNCHANGED <<pidFile, disowned>>
              /\ alone' = alone \/ (NamesNobody /\ alone' = alone \cup {t})
           \/ Unnames(t) /\ alone' = alone \ {t}
    PROVE  ScheduleInv'
    <1>1. t \in Process /\ t \notin Daemon
        BY DEF ScheduleAssumption, Process
    <1>2. alone' \subseteq Process
        BY <1>1, PlaceFacts
    <1>3. /\ PidInv' /\ disowned' \in BOOLEAN
          /\ pidFile' \in Daemon \cup {NoDaemon}
        <2>1. CASE /\ UNCHANGED <<pidFile, disowned>>
                   /\ alone' = alone \/ (NamesNobody /\ alone' = alone \cup {t})
            BY <1>1, <2>1, PidKept, PlaceFacts
        <2>2. CASE Unnames(t) /\ alone' = alone \ {t}
            BY <1>1, <2>2, PidRemoved
        <2> QED
            BY <2>1, <2>2
    <1> QED
        BY <1>1, <1>2, <1>3, PlaceFacts, QuietStep

LEMMA CallsStep ==
    ASSUME ScheduleInv, ScheduleAssumption, NEW t \in Tool, Calls(t)
    PROVE  ScheduleInv'
    <1>1. /\ t \in Process /\ procs[t].stage = "idle"
          /\ UNCHANGED <<expression, today, record, unlinked, ran, twice, marked, forgotten>>
          /\ UNCHANGED <<together, disowned, crowded>>
        BY DEF Process, Calls
    <1>2. /\ pidFile' = pidFile
          /\ alone' = alone \/ (NamesNobody /\ alone' = alone \cup {t})
        BY DEF Calls, Creates, StartsToRemove, AsksStatus, AsksToStop, Enables
    <1>3. \E s \in Stages, h \in Stored \cup {NoSchedule} :
              /\ s # "filling" /\ (s = "opening" => h \in Stored)
              /\ Moves(t, s, h, procs[t].now)
        <2>1. ASSUME Creates(t) \/ \E enabled \in BOOLEAN : Enables(t, enabled)
              PROVE  \E h \in Stored : WritesRecord(t, h)
            <3>1. CASE Creates(t)
                <4>1. [enabled |-> TRUE, lastRun |-> 0] \in Stored
                    BY DEF Stored, ScheduleAssumption
                <4> QED
                    BY <3>1, <4>1 DEF Creates
            <3>2. ASSUME NEW enabled \in BOOLEAN, Enables(t, enabled)
                  PROVE  \E h \in Stored : WritesRecord(t, h)
                <4>1. record \in Stored /\ WritesRecord(t, [record EXCEPT !.enabled = enabled])
                    BY <3>2 DEF Enables
                <4>2. \A r \in Stored, e \in BOOLEAN : [r EXCEPT !.enabled = e] \in Stored
                    BY DEF Stored
                <4>3. [record EXCEPT !.enabled = enabled] \in Stored
                    BY <4>1, <4>2, Zenon
                <4> QED
                    BY <4>1, <4>3
            <3> QED
                BY <2>1, <3>1, <3>2
        <2>2. ASSUME NEW h \in Stored, WritesRecord(t, h)
              PROVE  Moves(t, "opening", h, procs[t].now)
            BY <1>1, <2>2, HeldMove, PlaceFacts DEF WritesRecord, Stages
        <2>3. ASSUME NEW s \in {"removing", "clearing"}, Becomes(t, [procs[t] EXCEPT !.stage = s])
              PROVE  Moves(t, s, procs[t].held, procs[t].now)
            <3>1. s \in Stages
                BY DEF Stages
            <3> QED
                BY <1>1, <2>3, <3>1, StageMove, PlaceFacts
        <2>4. procs[t].held \in Stored \cup {NoSchedule}
            BY <1>1, PlaceFacts, PlaceFields
        <2>5. CASE Creates(t) \/ \E enabled \in BOOLEAN : Enables(t, enabled)
            BY <2>1, <2>2, <2>5 DEF Stages
        <2>6. CASE StartsToRemove(t) \/ AsksStatus(t)
            BY <2>3, <2>4, <2>6 DEF Stages, StartsToRemove, AsksStatus
        <2>7. CASE AsksToStop(t)
            <3>1. Moves(t, "stopping", procs[t].held, procs[t].now)
                BY <1>1, <2>7, StopMove, PlaceFacts
            <3> QED
                BY <2>4, <3>1 DEF Stages
        <2> QED
            BY <2>5, <2>6, <2>7 DEF Calls
    <1>4. PICK s \in Stages, h \in Stored \cup {NoSchedule} :
              /\ s # "filling" /\ (s = "opening" => h \in Stored)
              /\ Moves(t, s, h, procs[t].now)
        BY <1>3
    <1>5. unlinked' \subseteq Filling'
        BY <1>1, <1>4, FillingAfter, PlaceFacts DEF Filling
    <1> QED
        BY <1>1, <1>2, <1>4, <1>5, ToolStep

LEMMA ToolsStep ==
    ASSUME ScheduleInv, ScheduleAssumption, NEW t \in Tool,
           RemovesRecord(t) \/ Stopped(t) \/ Clears(t)
    PROVE  ScheduleInv'
    <1>1. t \in Process
        BY DEF Process
    <1>2. \E s \in {"idle", "clearing"} : \E h :
              Moves(t, s, h, procs[t].now)
        <2>1. CASE Rests(t)
            BY <1>1, <2>1, RestMove, PlaceFacts
        <2>2. CASE Becomes(t, [procs[t] EXCEPT !.stage = "clearing"])
            BY <1>1, <2>2, StageMove, PlaceFacts DEF Stages
        <2> QED
            BY <2>1, <2>2 DEF RemovesRecord, Stopped, Clears
    <1>s. PICK s \in {"idle", "clearing"} : \E h : Moves(t, s, h, procs[t].now)
        BY <1>2
    <1>3. PICK h : Moves(t, s, h, procs[t].now)
        BY <1>s
    <1>4. procs[t].stage # "filling" /\ s \in Stages
        BY DEF RemovesRecord, Stopped, Clears, Stages
    <1>5. /\ UNCHANGED <<expression, today, ran, twice, marked, forgotten, together, crowded>>
          /\ record' \in {record, NoSchedule} /\ unlinked' \subseteq unlinked \cup Filling
          /\ \/ /\ UNCHANGED <<pidFile, disowned>>
                /\ alone' = alone \/ (NamesNobody /\ alone' = alone \cup {t})
             \/ Unnames(t) /\ alone' = alone \ {t}
        BY DEF RemovesRecord, Stopped, Clears, daemonHistory
    <1>6. unlinked' \subseteq Filling'
        BY <1>1, <1>3, <1>4, <1>5, FillingAfter, PlaceFacts DEF Filling
    <1> QED
        BY <1>3, <1>4, <1>5, <1>6, ToolStep

LEMMA FillsInStep ==
    ASSUME ScheduleInv, ScheduleAssumption, NEW p \in Process, FillsIn(p)
    PROVE  ScheduleInv'
    <1> DEFINE held == procs[p].held
    <1>1. procs[p].stage = "filling" /\ held \in Stored
        BY PlaceFacts DEF FillsIn
    <1>2. Moves(p, "idle", NoSchedule, procs[p].now)
        BY RestMove, PlaceFacts DEF FillsIn
    <1>3. held.lastRun \in 0 .. LastDay
        BY <1>1 DEF Stored
    <1>4. p \in Daemon => held.lastRun = procs[p].now /\ procs[p].now <= today
        BY <1>1, PlaceFacts
    <1>5. UNCHANGED <<expression, today, pidFile, begun, ran, twice, daemonHistory>>
        BY DEF FillsIn
    <1>6. unlinked' \subseteq Filling'
        BY <1>2, FillingAfter, PlaceFacts DEF FillsIn
    <1>7. CASE p \in unlinked
        <2>1. forgotten' = forgotten \cup {held.lastRun} /\ record' = record /\ marked' = marked
            BY <1>7 DEF FillsIn
        <2> QED
            BY <1>1, <1>2, <1>4, <1>5, <1>6, <2>1, PlaceFacts, PidlessStep
               DEF Unmarked, Running, Listening
    <1>8. CASE p \notin unlinked
        <2>1. /\ record' \in {held, HalfWritten} /\ marked' = held.lastRun
              /\ forgotten' = forgotten \cup ({marked} \ {held.lastRun})
            BY <1>8 DEF FillsIn
        <2> HIDE DEF held
        <2>2. ScheduleTypeOK'
            <3>1. record' \in Stored \cup {NoSchedule, HalfWritten}
                BY <1>1, <2>1
            <3> QED
                BY <1>2, <1>5, <1>6, <3>1
                   DEF ScheduleInv, ScheduleTypeOK, Moves, Process, daemonHistory
        <2>3. PlaceInv'
            BY <1>2, <1>4, <1>5, PlaceAfter DEF Running, Unmarked
        <2>4. RanInv'
            BY <1>5, DueAfter DEF ScheduleInv, RanInv
        <2>5. MarkInv'
            <3>1. HalfWritten \notin Stored
                BY DEF ScheduleAssumption
            <3> QED
                BY <1>1, <1>3, <2>1, <3>1 DEF MarkInv
        <2>6. UNCHANGED <<alone, together, disowned, crowded>>
            BY <1>5 DEF daemonHistory
        <2>7. PidInv'
            BY <1>1, <1>2, <1>5, <2>6, PidKept DEF Listening
        <2>8. /\ today \notin crowded => OneListens
              /\ RunApart /\ AgainIfExcused /\ TodayIsMarked /\ twice \subseteq Excused
            BY DEF ScheduleInv, OnceInv
        <2>9. Excused \subseteq Excused'
            BY <2>1, <2>6 DEF Excused
        <2>10. (today \notin crowded => OneListens)'
            BY <1>1, <1>2, <1>5, <2>6, <2>8 DEF OneListens, Listening, Moves, Process
        <2>11. RunApart'
            BY <1>2, <2>6, <2>8 DEF RunApart, Running, Unmarked, Moves, Process
        <2>12. AgainIfExcused'
            BY <1>2, <1>5, <2>8, <2>9 DEF AgainIfExcused, Moves, Process
        <2>13. TodayIsMarked'
            <3>1. SUFFICES ASSUME today \in ran \ Excused', marked' # today
                           PROVE  MarkUnderWay'
                BY <1>5 DEF TodayIsMarked
            <3>2. marked # today
                BY <2>1, <3>1 DEF Excused
            <3>3. PICK d \in Daemon : procs[d].stage \in Unmarked /\ procs[d].now = today
                BY <2>8, <2>9, <3>1, <3>2 DEF TodayIsMarked, MarkUnderWay
            <3>4. d # p
                BY <1>4, <2>1, <3>1, <3>3
            <3>5. procs'[d].stage \in Unmarked /\ procs'[d].now = today
                BY <1>2, <3>3, <3>4 DEF Moves, Process
            <3> QED
                BY <1>5, <3>5 DEF MarkUnderWay
        <2> QED
            BY <1>5, <2>2, <2>3, <2>4, <2>5, <2>7, <2>8, <2>9, <2>10, <2>11, <2>12, <2>13
               DEF ScheduleInv, OnceInv
    <1> QED
        BY <1>7, <1>8

(* It listens: alone, or the day is crowded from now on.                   *)
LEMMA WritesPidStep ==
    ASSUME ScheduleInv, ScheduleAssumption, NEW d \in Daemon, WritesPid(d)
    PROVE  ScheduleInv'
    <1>1. d \in Process /\ procs[d].stage = "starting"
        BY DEF Process, WritesPid
    <1>2. Moves(d, "idle", procs[d].held, procs[d].now)
        BY <1>1, StageMove, PlaceFacts DEF WritesPid, Stages
    <1>3. unlinked' \subseteq Filling'
        BY <1>1, <1>2, FillingAfter, PlaceFacts DEF WritesPid, Filling
    <1>4. /\ UNCHANGED <<expression, today, record, unlinked, begun, ran, twice, marked, forgotten>>
          /\ pidFile' = d /\ alone' = {} /\ disowned' = disowned
          /\ crowded' = crowded \cup {day \in {today} : \E e \in Daemon : Listening(e)}
        BY DEF WritesPid
    <1>5. together' = (together \/ d \notin alone)
        BY DEF WritesPid
    <1>6. together' \in BOOLEAN
        BY <1>5, Zenon
    <1>7. ScheduleTypeOK'
        BY <1>2, <1>3, <1>4, <1>6 DEF ScheduleInv, ScheduleTypeOK, Moves, Process
    <1>8. PlaceInv'
        BY <1>1, <1>2, <1>4, PlaceFacts, PlaceAfter DEF Running, Unmarked
    <1>9. RanInv'
        BY <1>4, DueAfter DEF ScheduleInv, RanInv
    <1>10. MarkInv'
        BY <1>4 DEF ScheduleInv, MarkInv
    <1>11. \A e \in Daemon \ {d} : procs'[e].stage = procs[e].stage /\ procs'[e].now = procs[e].now
        BY <1>2 DEF Moves, Process
    <1>12. procs'[d].stage = "idle"
        BY <1>2 DEF Moves
    <1>13. OnceInv'
        <2>1. /\ today \notin crowded => OneListens
              /\ RunApart /\ AgainIfExcused /\ TodayIsMarked /\ twice \subseteq Excused
            BY DEF ScheduleInv, OnceInv
        <2>2. Excused \subseteq Excused' /\ crowded \subseteq crowded'
            BY <1>4 DEF Excused
        <2>3. (today \notin crowded => OneListens)'
            <3>1. SUFFICES ASSUME today \notin crowded'
                           PROVE  OneListens'
                BY <1>4
            <3>2. \A e \in Daemon : ~Listening(e)
                BY <1>4, <3>1
            <3> QED
                BY <1>11, <3>2 DEF OneListens, Listening
        <2>4. RunApart'
            BY <1>11, <1>12, <2>1, <2>2 DEF RunApart, Running, Unmarked
        <2>5. AgainIfExcused'
            BY <1>4, <1>11, <1>12, <2>1, <2>2 DEF AgainIfExcused
        <2>6. TodayIsMarked'
            <3>1. SUFFICES ASSUME today \in ran \ Excused, marked # today
                           PROVE  MarkUnderWay'
                BY <1>4, <2>2 DEF TodayIsMarked
            <3>2. PICK e \in Daemon : procs[e].stage \in Unmarked /\ procs[e].now = today
                BY <2>1, <3>1 DEF TodayIsMarked, MarkUnderWay
            <3> QED
                BY <1>1, <1>4, <1>11, <3>2 DEF MarkUnderWay, Unmarked
        <2> QED
            BY <1>4, <2>1, <2>2, <2>3, <2>4, <2>5, <2>6 DEF OnceInv
    <1>14. PidInv'
        <2>1. SUFFICES ASSUME ~together', ~disowned
                       PROVE  PidInv'
            BY <1>4, <1>6 DEF PidInv
        <2>2. ~together /\ d \in alone
            BY <1>5, <2>1
        <2>3. crowded = {} /\ \A e \in Daemon : ~Listening(e)
            BY <2>1, <2>2 DEF ScheduleInv, PidInv
        <2>4. crowded' = {} /\ \A e \in Daemon : Listening(e)' => e = d
            BY <1>4, <1>11, <2>3 DEF Listening
        <2> QED
            BY <1>4, <2>4 DEF PidInv
    <1> QED
        BY <1>7, <1>8, <1>9, <1>10, <1>13, <1>14 DEF ScheduleInv

(* A tick finds the schedule due only if the day's mark is not there: if   *)
(* it has been run, that mark was lost.                                    *)
LEMMA TicksStep ==
    ASSUME ScheduleInv, ScheduleAssumption, NEW d \in Daemon, Ticks(d)
    PROVE  ScheduleInv'
    <1>1. d \in Process /\ procs[d].stage = "idle" /\ today \in 1 .. LastDay
        BY PlaceFacts DEF Process, Ticks
    <1>2. /\ UNCHANGED <<expression, today, record, pidFile, unlinked, begun, ran, twice,
                         marked, forgotten, daemonHistory>>
          /\ UNCHANGED <<alone, together, disowned, crowded>>
        BY DEF Ticks, daemonHistory
    <1>3. CASE Moves(d, "idle", procs[d].held, today)
        <2>1. unlinked' \subseteq Filling'
            BY <1>1, <1>2, <1>3, FillingAfter, PlaceFacts DEF Filling
        <2> QED
            BY <1>1, <1>2, <1>3, <2>1, PlaceFacts, PidlessStep DEF Unmarked, Running, Listening
    <1>4. CASE ShouldRunNow /\ Moves(d, "firing", procs[d].held, today)
        <2>1. unlinked' \subseteq Filling'
            BY <1>1, <1>2, <1>4, FillingAfter, PlaceFacts DEF Filling
        <2>2. ScheduleTypeOK'
            BY <1>2, <1>4, <2>1 DEF ScheduleInv, ScheduleTypeOK, Moves, Process
        <2>3. Due(today) /\ marked # today
            BY <1>4 DEF ShouldRunNow, ScheduleInv, MarkInv
        <2>4. PlaceInv'
            BY <1>1, <1>2, <1>4, <2>3, PlaceAfter
        <2>5. RanInv'
            BY <1>2, DueAfter DEF ScheduleInv, RanInv
        <2>6. MarkInv'
            BY <1>2 DEF ScheduleInv, MarkInv
        <2>7. PidInv'
            BY <1>1, <1>2, <1>4, PidKept DEF Listening
        <2>8. /\ today \notin crowded => OneListens
              /\ RunApart /\ AgainIfExcused /\ TodayIsMarked /\ twice \subseteq Excused
            BY DEF ScheduleInv, OnceInv
        <2>9. Excused' = Excused
            BY <1>2 DEF Excused
        <2>10. \A e \in Daemon \ {d} : procs'[e].stage = procs[e].stage /\ procs'[e].now = procs[e].now
            BY <1>4 DEF Moves, Process
        <2>11. procs'[d].stage = "firing" /\ procs'[d].now = today
            BY <1>4 DEF Moves
        <2>12. (today \notin crowded => OneListens)'
            BY <1>1, <1>2, <2>8, <2>10, <2>11 DEF OneListens, Listening
        <2>13. today \notin crowded => \A e \in Daemon \ {d} : procs[e].stage \notin Running
            BY <1>1, <2>8 DEF OneListens, Listening, Running, Unmarked
        <2>14. RunApart'
            BY <1>2, <2>8, <2>10, <2>11, <2>13 DEF RunApart
        <2>15. today \notin crowded => ~MarkUnderWay
            BY <1>1, <2>13 DEF MarkUnderWay, Unmarked, Running
        <2>16. today \in ran => today \in Excused
            BY <2>3, <2>8, <2>15 DEF TodayIsMarked, Excused
        <2>17. AgainIfExcused'
            BY <1>2, <2>8, <2>9, <2>10, <2>11, <2>16 DEF AgainIfExcused
        <2>18. TodayIsMarked'
            BY <1>2, <2>9, <2>16 DEF TodayIsMarked
        <2> QED
            BY <1>2, <2>2, <2>4, <2>5, <2>6, <2>7, <2>8, <2>9, <2>12, <2>14, <2>17, <2>18
               DEF ScheduleInv, OnceInv
    <1> QED
        BY <1>1, <1>3, <1>4, TickMove, PlaceFacts

(* It is run: a second time only if its mark was lost.                     *)
LEMMA FiresStep ==
    ASSUME ScheduleInv, ScheduleAssumption, NEW d \in Daemon, Fires(d)
    PROVE  ScheduleInv'
    <1> DEFINE day == procs[d].now
    <1>1. /\ d \in Process /\ procs[d].stage = "firing" /\ today \in 1 .. LastDay
          /\ day \in 0 .. LastDay /\ 1 <= day /\ day <= today /\ Due(day)
        BY PlaceFacts DEF Process, Fires, Running
    <1>2. /\ UNCHANGED <<expression, today, record, pidFile, unlinked, begun, marked, forgotten>>
          /\ UNCHANGED daemonHistory /\ UNCHANGED <<alone, together, disowned, crowded>>
        BY DEF Fires, daemonHistory
    <1>3. CASE UNCHANGED <<ran, twice>> /\ Rests(d)
        <2>1. Moves(d, "idle", NoSchedule, procs[d].now)
            BY <1>1, <1>3, RestMove, PlaceFacts
        <2>2. unlinked' \subseteq Filling'
            BY <1>1, <1>2, <2>1, FillingAfter, PlaceFacts DEF Filling
        <2> QED
            BY <1>1, <1>2, <1>3, <2>1, <2>2, PlaceFacts, PidlessStep DEF Unmarked, Running, Listening
    <1>4. CASE /\ ran' = ran \cup {day} /\ twice' = twice \cup (ran \cap {day})
               /\ Becomes(d, [procs[d] EXCEPT !.stage = "fired"])
        <2>1. Moves(d, "fired", procs[d].held, procs[d].now)
            BY <1>1, <1>4, StageMove, PlaceFacts DEF Stages
        <2>2. unlinked' \subseteq Filling'
            BY <1>1, <1>2, <2>1, FillingAfter, PlaceFacts DEF Filling
        <2>3. ScheduleTypeOK'
            BY <1>2, <1>4, <2>1, <2>2 DEF ScheduleInv, ScheduleTypeOK, Moves, Process
        <2>4. PlaceInv'
            BY <1>1, <1>2, <2>1, PlaceAfter DEF Unmarked
        <2>5. RanInv'
            <3>1. day \in 1 .. today
                BY <1>1
            <3> QED
                BY <1>1, <1>2, <1>4, <3>1, DueAfter DEF ScheduleInv, RanInv
        <2>6. MarkInv'
            BY <1>2 DEF ScheduleInv, MarkInv
        <2>7. PidInv'
            BY <1>1, <1>2, <2>1, PidKept DEF Listening
        <2>8. /\ today \notin crowded => OneListens
              /\ RunApart /\ AgainIfExcused /\ TodayIsMarked /\ twice \subseteq Excused
            BY DEF ScheduleInv, OnceInv
        <2>9. Excused' = Excused
            BY <1>2 DEF Excused
        <2>10. \A e \in Daemon \ {d} : procs'[e].stage = procs[e].stage /\ procs'[e].now = procs[e].now
            BY <2>1 DEF Moves, Process
        <2>11. procs'[d].stage = "fired" /\ procs'[d].now = day
            BY <2>1 DEF Moves
        <2>12. (today \notin crowded => OneListens)'
            BY <1>1, <1>2, <2>8, <2>10, <2>11 DEF OneListens, Listening
        <2>13. \A e \in Daemon : procs'[e].stage \in Running =>
                   procs[e].stage \in Running /\ procs'[e].now = procs[e].now
            BY <1>1, <2>10, <2>11 DEF Running, Unmarked
        <2>14. RunApart'
            BY <1>2, <2>8, <2>13 DEF RunApart
        <2>15. \A e \in Daemon \ {d} :
                   procs[e].stage = "firing" /\ procs[e].now = day => day \in Excused
            BY <1>1, <2>8 DEF RunApart, Running, Excused
        <2>16. AgainIfExcused'
            <3>1. SUFFICES ASSUME NEW e \in Daemon,
                                  procs'[e].stage = "firing", procs'[e].now \in ran \cup {day}
                           PROVE  procs'[e].now \in Excused
                BY <1>4, <2>9 DEF AgainIfExcused
            <3>2. e # d
                BY <2>11, <3>1
            <3> QED
                BY <2>8, <2>10, <2>15, <3>1, <3>2 DEF AgainIfExcused
        <2>17. TodayIsMarked'
            <3>1. SUFFICES ASSUME today \in ran' \ Excused, marked # today
                           PROVE  MarkUnderWay'
                BY <1>2, <2>9 DEF TodayIsMarked
            <3>2. CASE day = today
                BY <1>2, <2>11, <3>2 DEF MarkUnderWay, Unmarked
            <3>3. CASE day # today
                <4>1. PICK e \in Daemon : procs[e].stage \in Unmarked /\ procs[e].now = today
                    BY <1>4, <2>8, <3>1, <3>3 DEF TodayIsMarked, MarkUnderWay
                <4> QED
                    BY <1>2, <2>10, <3>3, <4>1 DEF MarkUnderWay
            <3> QED
                BY <3>2, <3>3
        <2>18. twice' \subseteq Excused
            BY <1>1, <1>4, <2>8 DEF AgainIfExcused
        <2> QED
            BY <1>2, <2>3, <2>4, <2>5, <2>6, <2>7, <2>9, <2>12, <2>14, <2>16, <2>17, <2>18
               DEF ScheduleInv, OnceInv
    <1> QED
        BY <1>3, <1>4 DEF Fires

(* A day on which nothing has run yet begins.                              *)
LEMMA MidnightStep ==
    ASSUME ScheduleInv, ScheduleAssumption, Midnight
    PROVE  ScheduleInv'
    <1>1. /\ UNCHANGED <<expression, record, pidFile, procs, unlinked, begun, ran, twice, marked,
                         forgotten, alone, together, disowned>>
          /\ today < LastDay /\ today' = today + 1
          /\ crowded' = crowded \cup {day \in {today'} :
                 \E d, e \in Daemon : d # e /\ Listening(d) /\ Listening(e)}
        BY DEF Midnight
    <1>2. LastDay \in Nat /\ today \in 1 .. LastDay
        BY DEF ScheduleAssumption, ScheduleInv, ScheduleTypeOK
    <1>3. today \in Nat /\ today' \in 1 .. LastDay
        BY <1>1, <1>2
    <1>4. ScheduleTypeOK'
        BY <1>1, <1>3 DEF ScheduleInv, ScheduleTypeOK, Filling
    <1>5. \A d \in Daemon : procs[d].now \in 0 .. LastDay
        BY PlaceFacts DEF Process
    <1>6. \A d \in Daemon : procs[d].now <= today'
        BY <1>1, <1>3, <1>5 DEF ScheduleInv, PlaceInv
    <1>7. PlaceInv'
        <2>1. \A d \in Daemon : Due(procs[d].now)' = Due(procs[d].now)
            BY <1>1 DEF Due
        <2> QED
            BY <1>1, <1>6, <2>1 DEF ScheduleInv, PlaceInv
    <1>8. \A day \in ran : day \in 1 .. today' /\ Due(day) /\ day # today'
        BY <1>1, <1>3 DEF ScheduleInv, RanInv
    <1>9. RanInv'
        BY <1>1, <1>8, DueAfter DEF RanInv
    <1>10. MarkInv'
        BY <1>1 DEF ScheduleInv, MarkInv
    <1>11. OnceInv'
        <2>1. /\ RunApart /\ AgainIfExcused /\ twice \subseteq Excused
              /\ crowded \subseteq crowded' /\ Excused \subseteq Excused'
            BY <1>1 DEF ScheduleInv, OnceInv, Excused
        <2>2. (today \notin crowded => OneListens)'
            BY <1>1 DEF OneListens, Listening
        <2>3. RunApart' /\ AgainIfExcused'
            BY <1>1, <2>1 DEF RunApart, AgainIfExcused
        <2>4. TodayIsMarked'
            BY <1>1, <1>8 DEF TodayIsMarked
        <2> QED
            BY <1>1, <2>1, <2>2, <2>3, <2>4 DEF OnceInv
    <1>12. PidInv'
        <2>1. SUFFICES ASSUME ~together, ~disowned
                       PROVE  PidInv'
            BY <1>1 DEF PidInv
        <2>2. /\ crowded = {} /\ \A d \in Daemon : Listening(d) => pidFile = d
              /\ alone # {} => \A d \in Daemon : ~Listening(d)
            BY <2>1 DEF ScheduleInv, PidInv
        <2>3. crowded' = {}
            BY <1>1, <2>2
        <2> QED
            BY <1>1, <2>2, <2>3 DEF PidInv, Listening
    <1> QED
        BY <1>4, <1>7, <1>9, <1>10, <1>11, <1>12 DEF ScheduleInv

-----------------------------------------------------------------------------
(* The theorems about schedules.                                           *)

LEMMA ScheduleStart ==
    ASSUME ScheduleInit, ScheduleAssumption
    PROVE  ScheduleInv
    <1>1. Off \in Place /\ [Off EXCEPT !.stage = "idle"] \in Place
        <2>1. Off \in Place
            BY OffPlace
        <2> QED
            BY <2>1 DEF Place, Stages
    <1>2. procs \in [Process -> Place]
        BY <1>1 DEF ScheduleInit, Process
    <1>3. \A p \in Process : procs[p].stage \in {"off", "idle"} /\ procs[p].now = 0
        BY DEF ScheduleInit, Process, Off
    <1>4. \A d \in Daemon : procs[d].stage = "off"
        BY DEF ScheduleInit, Off
    <1>5. today \in 1 .. LastDay /\ 0 <= today /\ 0 \in 0 .. LastDay
        BY DEF ScheduleInit, ScheduleAssumption
    <1>6. ScheduleTypeOK
        BY <1>2, <1>5 DEF ScheduleInit, ScheduleTypeOK, Process
    <1>7. PlaceInv
        BY <1>3, <1>4, <1>5 DEF PlaceInv, Running, Unmarked, Process
    <1>8. RanInv /\ MarkInv
        BY <1>5 DEF ScheduleInit, ScheduleAssumption, RanInv, MarkInv
    <1>9. OnceInv /\ PidInv
        BY <1>4 DEF ScheduleInit, OnceInv, OneListens, RunApart, AgainIfExcused, TodayIsMarked,
                    Listening, Running, Unmarked, PidInv
    <1> QED
        BY <1>6, <1>7, <1>8, <1>9 DEF ScheduleInv

LEMMA ScheduleInvStep ==
    ASSUME ScheduleInv, ScheduleAssumption, [ScheduleNext]_scheduleVars
    PROVE  ScheduleInv'
    <1>1. CASE UNCHANGED scheduleVars
        <2>1. /\ PlaceInv' /\ RanInv'
            BY <1>1 DEF scheduleVars, ScheduleInv, PlaceInv, RanInv, Due
        <2>2. ScheduleTypeOK' /\ MarkInv'
            BY <1>1 DEF scheduleVars, daemonHistory, ScheduleInv, ScheduleTypeOK, MarkInv, Filling
        <2>3. OnceInv' /\ PidInv'
            BY <1>1 DEF scheduleVars, daemonHistory, ScheduleInv, OnceInv, OneListens, RunApart,
                        AgainIfExcused, TodayIsMarked, MarkUnderWay, Listening, Excused, PidInv
        <2> QED
            BY <2>1, <2>2, <2>3 DEF ScheduleInv
    <1>2. ASSUME NEW p \in Daemon \cup Tool, Truncates(p) \/ FillsIn(p)
          PROVE  ScheduleInv'
        BY <1>2, TruncatesStep, FillsInStep DEF Process
    <1>3. ASSUME NEW t \in Tool, Calls(t) \/ RemovesRecord(t) \/ Stopped(t) \/ Clears(t)
          PROVE  ScheduleInv'
        BY <1>3, CallsStep, ToolsStep
    <1>4. ASSUME NEW d \in Daemon, Starts(d) \/ ClearsOld(d) \/ WritesPid(d)
          PROVE  ScheduleInv'
        BY <1>4, StartsStep, ClearsOldStep, WritesPidStep
    <1>5. ASSUME NEW d \in Daemon, Ticks(d) \/ Fires(d) \/ Touches(d) \/ Interrupts(d)
          PROVE  ScheduleInv'
        BY <1>5, TicksStep, FiresStep, TouchesStep, InterruptsStep
    <1>6. ASSUME NEW d \in Daemon, Exits(d) \/ IsKilled(d)
          PROVE  ScheduleInv'
        BY <1>6, EndsStep
    <1>7. CASE Midnight
        BY <1>7, MidnightStep
    <1> QED
        BY <1>1, <1>2, <1>3, <1>4, <1>5, <1>6, <1>7 DEF ScheduleNext

(* The invariant of the schedules, from which the theorems follow.         *)
LEMMA ScheduleInvariant == ScheduleSpec => []ScheduleInv
    <1>1. ScheduleInit => ScheduleInv
        BY ScheduleAssumption, ScheduleStart
    <1>2. ScheduleInv /\ [ScheduleNext]_scheduleVars => ScheduleInv'
        BY ScheduleAssumption, ScheduleInvStep
    <1> QED
        BY <1>1, <1>2, PTL DEF ScheduleSpec

(* The record, the pid and the places of daemons and tools keep their      *)
(* types, whoever writes between whose steps.                              *)
THEOREM SchedulesTyped == ScheduleSpec => []ScheduleTypeOK
    <1>1. ScheduleInv => ScheduleTypeOK
        BY DEF ScheduleInv
    <1> QED
        BY <1>1, ScheduleInvariant, PTL

(* A schedule is run again on a day only if that day's mark was lost or    *)
(* more than one daemon listened on that day, whatever its expression.     *)
THEOREM SchedulesRunOnce == ScheduleSpec => []RunsOnce
    <1>1. ScheduleInv => RunsOnce
        BY DEF ScheduleInv, OnceInv, RunsOnce, Excused
    <1> QED
        BY <1>1, ScheduleInvariant, PTL

(* More than one listens only if one wrote its pid after another since it  *)
(* had seen no daemon, or if one that had seen none removed another's pid. *)
THEOREM OneDaemonListens == ScheduleSpec => []OneDaemon
    <1>1. ScheduleInv => OneDaemon
        BY DEF ScheduleInv, PidInv, OneDaemon
    <1> QED
        BY <1>1, ScheduleInvariant, PTL

(* Matches takes a part for no other day of the week than it names, for    *)
(* each of the forms a part has.                                           *)
LEMMA MatchesNamed ==
    ASSUME NEW part \in Valid \ Misread, NEW day \in 0 .. 6, Matches(part, day)
    PROVE  day \in Named(part)
    <1> DEFINE first == IF part.any THEN 0 ELSE part.first
               last  == IF part.any THEN 6 ELSE part.last
               step  == part.step
    <1>1. /\ part.any \in BOOLEAN /\ part.first \in 0 .. 7 /\ part.last \in 0 .. 7
          /\ step \in 1 .. 7 /\ part.first <= part.last
          /\ ~part.any /\ part.first \in 1 .. 6 /\ part.last = 7 =>
                step = 1 \/ (8 - part.first) % step # 0
        BY DEF Valid, Misread, Part
    <1>2. ASSUME NEW v \in first .. last, (v - first) % step = 0, v % 7 = day
          PROVE  day \in Named(part)
        BY <1>2 DEF Named
    <1>3. CASE part.any
        <2>1. day \in first .. last /\ (day - first) % step = 0 /\ day % 7 = day
            BY <1>1, <1>3 DEF Matches, Normalized
        <2> QED
            BY <1>2, <2>1
    <1>4. CASE ~part.any /\ part.last < 7
        <2>1. /\ Normalized(part.first) = part.first /\ Normalized(part.last) = part.last
              /\ first = part.first /\ last = part.last /\ ~(first > last)
            BY <1>1, <1>4 DEF Normalized
        <2>2. day \in first .. last /\ (day - first) % step = 0
            BY <1>4, <2>1 DEF Matches
        <2>3. day % 7 = day
            OBVIOUS
        <2> QED
            BY <1>2, <2>2, <2>3
    <1>5. CASE ~part.any /\ part.last = 7 /\ part.first \in {0, 7}
        <2>1. day = 0
            BY <1>1, <1>5 DEF Matches, Normalized
        <2>2. first \in first .. last /\ (first - first) % step = 0 /\ first % 7 = 0
            BY <1>1, <1>5
        <2> QED
            BY <1>2, <2>1, <2>2
    <1>6. CASE ~part.any /\ part.last = 7 /\ part.first \in 1 .. 6 /\ day # 0
        <2>1. day \in first .. last /\ (day - first) % step = 0 /\ day % 7 = day
            BY <1>1, <1>6 DEF Matches, Normalized
        <2> QED
            BY <1>2, <2>1
    <1>7. CASE ~part.any /\ part.last = 7 /\ part.first \in 1 .. 6 /\ day = 0
        <2>1. (8 - part.first) % step = 0
            BY <1>1, <1>7 DEF Matches, Normalized
        <2>2. step = 1
            BY <1>1, <1>7, <2>1
        <2>3. 7 \in first .. last /\ (7 - first) % step = 0 /\ 7 % 7 = day
            BY <1>1, <1>7, <2>2
        <2> QED
            BY <1>2, <2>3
    <1> QED
        BY <1>1, <1>3, <1>4, <1>5, <1>6, <1>7

(* If no part of the expressions is Misread, a schedule runs only on days  *)
(* its expression names; with the two theorems above, and their excuses,   *)
(* this is the property the run checks.                                    *)
THEOREM SchedulesRunAsNamed ==
    ASSUME \A e \in Expression : e \subseteq Valid \ Misread
    PROVE  ScheduleSpec => []RunsOnceAsNamed
    <1>1. ScheduleInv => RunsAsNamed
        <2> SUFFICES ASSUME ScheduleInv, NEW day \in ran
                     PROVE  \E part \in expression : day % 7 \in Named(part)
            BY DEF RunsAsNamed
        <2>1. day \in 1 .. today /\ Due(day) /\ today \in 1 .. LastDay
            BY DEF ScheduleInv, RanInv, ScheduleTypeOK
        <2>2. day % 7 \in 0 .. 6
            BY <2>1, ScheduleAssumption DEF ScheduleAssumption
        <2>3. PICK part \in expression : Matches(part, day % 7)
            BY <2>1 DEF Due
        <2>4. part \in Valid \ Misread
            BY <2>3 DEF ScheduleInv, ScheduleTypeOK
        <2> QED
            BY <2>2, <2>3, <2>4, MatchesNamed
    <1>2. RunsAsNamed /\ RunsOnce /\ OneDaemon => RunsOnceAsNamed
        BY DEF RunsOnceAsNamed
    <1> QED
        BY <1>1, <1>2, ScheduleInvariant, SchedulesRunOnce, OneDaemonListens, PTL

-----------------------------------------------------------------------------
(* Both, side by side.                                                     *)

(* The run that explores one of them at a time shows each as it is.        *)
LEMMA FilesAreBoth == FilesSpec => Spec /\ ScheduleSpec
    <1>1. FilesInit => Init /\ ScheduleInit
        BY DEF FilesInit, SchedulesRest
    <1>2. [FilesNext]_<<focus, vars, scheduleVars>> => [Next]_vars /\ [ScheduleNext]_scheduleVars
        BY DEF FilesNext
    <1> QED
        BY <1>1, <1>2, PTL DEF FilesSpec, Spec, ScheduleSpec

(* The types of both hold whatever their processes do between each other's *)
(* steps.                                                                  *)
THEOREM FilesTyped == FilesSpec => []FilesTypeOK
    <1>1. LockTypeOK /\ ScheduleTypeOK => FilesTypeOK
        BY DEF FilesTypeOK
    <1> QED
        BY <1>1, FilesAreBoth, LockTypeCorrect, SchedulesTyped, PTL
================================================================================
