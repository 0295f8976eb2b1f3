---------------------------- MODULE MCSharedFiles ----------------------------
(***************************************************************************)
(* The files that processes of several sessions share, for TLC: the lock   *)
(* of the memory, with an owner, one that finds its lock and a third that  *)
(* takes it in between; and the record and the pid of the schedules, with  *)
(* two daemons and the tools of a session.  They have no state in common;  *)
(* the run explores one of them at a time, chosen in the first state.      *)
(***************************************************************************)
EXTENDS MemoryLock, Schedules, TLC

VARIABLE focus

Symmetry == Permutations(Proc)

Range(first, last) == [any |-> FALSE, first |-> first, last |-> last, step |-> 1]
EverySecond == [any |-> TRUE, first |-> 0, last |-> 0, step |-> 2]

(* A weekend with Sunday as 7, the weekdays, and every second day, from a  *)
(* Friday on.                                                              *)
Expressions == {{Range(5, 7)}, {Range(1, 5)}, {EverySecond}}

(* Misread are the parts that Matches takes for a day they do not name.    *)
ASSUME ReadAsNamed ==
    \A part \in Valid :
        part \in Misread <=> \E day \in 0 .. 6 : Matches(part, day) /\ day \notin Named(part)

SchedulesRest == ScheduleInit /\ expression = CHOOSE e \in Expression : TRUE

FilesInit == \/ focus = "lock"      /\ Init /\ SchedulesRest
             \/ focus = "schedules" /\ Init /\ ScheduleInit

FilesNext == \/ focus = "lock"      /\ Next         /\ UNCHANGED <<focus, scheduleVars>>
             \/ focus = "schedules" /\ ScheduleNext /\ UNCHANGED <<focus, vars>>

FilesSpec == FilesInit /\ [][FilesNext]_<<focus, vars, scheduleVars>>

FilesTypeOK == LockTypeOK /\ ScheduleTypeOK
=============================================================================
