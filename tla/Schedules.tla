------------------------------- MODULE Schedules -------------------------------
(***************************************************************************)
(* Schedules (src/tools/schedule.ts) and the daemon that runs them         *)
(* (src/daemon/scheduler.ts).  The record of a schedule and the daemon's   *)
(* pid are files that daemons and the tools of any session read, change    *)
(* and write back, with awaits in between and without a lock.              *)
(*                                                                         *)
(* One schedule, whose expression names weekdays: the other fields agree   *)
(* in one minute a day, and that minute is what a day stands for.          *)
(***************************************************************************)
EXTENDS Integers, FiniteSets

CONSTANTS
    Daemon,                 \* processes that may run `shelra daemon`
    Tool,                   \* sessions whose model uses the schedule tools
    Expression,             \* weekday fields: sets of Parts
    FirstDay, LastDay,      \* bound: the days; day 1 is a Monday
    MaxBegun,               \* bound: daemons started and tools called
    NoSchedule, HalfWritten, NoDaemon

(* "*", or a range, a single number being a range of one; with a step.     *)
Part == [any : BOOLEAN, first : 0 .. 7, last : 0 .. 7, step : 1 .. 7]

Stored == [enabled : BOOLEAN, lastRun : 0 .. LastDay]     \* lastRun 0: never

ASSUME ScheduleAssumption ==
    /\ LastDay \in Nat /\ FirstDay \subseteq 1 .. LastDay /\ MaxBegun \in Nat
    /\ Daemon \cap Tool = {} /\ NoDaemon \notin Daemon
    /\ {NoSchedule, HalfWritten} \cap Stored = {} /\ NoSchedule # HalfWritten
    /\ \A e \in Expression : e \subseteq Part

VARIABLES
    expression, today,
    record,        \* the schedule's file
    pidFile,       \* the daemon it names
    procs,         \* where each daemon and tool is between two awaits
    unlinked,      \* those that write into a file that was removed
    begun,         \* daemons started and tools called so far
    ran, twice,    \* history: days on which it was run, and run again
    marked,        \* history: the day of the last mark that was written
    forgotten,     \* history: days whose mark was lost
    alone,         \* history: those who saw no daemon, and none has written its pid since
    together,      \* history: a daemon wrote its pid after another since it had seen none
    disowned,      \* history: who had seen none removed the pid of a daemon that listens
    crowded        \* history: days on which more than one daemon listened

daemonHistory == <<alone, together, disowned, crowded>>

scheduleVars == <<expression, today, record, pidFile, procs, unlinked, begun, ran, twice,
                  marked, forgotten, daemonHistory>>

-----------------------------------------------------------------------------
(* The expression.                                                         *)

Normalized(value) == IF value = 7 THEN 0 ELSE value

(* A range from a later to an earlier number goes round the field.         *)
Matches(part, day) ==
    LET start == IF part.any THEN 0 ELSE Normalized(part.first)
        end   == IF part.any THEN 7 ELSE Normalized(part.last) IN
    \/ start <= end /\ day \in start .. end /\ (day - start) % part.step = 0
    \/ start > end /\ day >= start /\ (day - start) % part.step = 0
    \/ start > end /\ day <= end /\ (day - start + 8) % part.step = 0

Due(day) == \E part \in expression : Matches(part, day % 7)

-----------------------------------------------------------------------------
(* The files.                                                              *)

Counts == begun < MaxBegun /\ begun' = begun + 1

Becomes(p, state) == procs' = [procs EXCEPT ![p] = state]

Rests(p) == Becomes(p, [procs[p] EXCEPT !.stage = "idle", !.held = NoSchedule])

(* The first half of a write: the file is there, and empty.                *)
Truncates(p) ==
    /\ procs[p].stage = "opening"
    /\ record' = HalfWritten
    /\ Becomes(p, [procs[p] EXCEPT !.stage = "filling"])
    /\ UNCHANGED <<expression, today, pidFile, unlinked, begun, ran, twice, marked,
                   forgotten, daemonHistory>>

(* The second: over what another has written meanwhile, the tail of a      *)
(* longer text may stay behind.                                            *)
FillsIn(p) ==
    LET held == procs[p].held IN
    /\ procs[p].stage = "filling"
    /\ Rests(p)
    /\ IF p \in unlinked
       THEN /\ forgotten' = forgotten \cup {held.lastRun}
            /\ UNCHANGED <<record, marked>>
       ELSE /\ record' \in IF record = HalfWritten THEN {held} ELSE {held, HalfWritten}
            /\ marked' = held.lastRun
            /\ forgotten' = forgotten \cup ({marked} \ {held.lastRun})
    /\ unlinked' = unlinked \ {p}
    /\ UNCHANGED <<expression, today, pidFile, begun, ran, twice, daemonHistory>>

-----------------------------------------------------------------------------
(* The tools of a session.                                                 *)

WritesRecord(t, schedule) ==
    Becomes(t, [procs[t] EXCEPT !.stage = "opening", !.held = schedule])

(* `create`: a record that cannot be read is taken for none.               *)
Creates(t) ==
    /\ record \notin Stored
    /\ WritesRecord(t, [enabled |-> TRUE, lastRun |-> 0])
    /\ UNCHANGED <<pidFile, alone>>

Enables(t, enabled) ==
    /\ record \in Stored
    /\ WritesRecord(t, [record EXCEPT !.enabled = enabled])
    /\ UNCHANGED <<pidFile, alone>>

StartsToRemove(t) ==
    /\ record \in Stored
    /\ Becomes(t, [procs[t] EXCEPT !.stage = "removing"])
    /\ UNCHANGED <<pidFile, alone>>

(* A daemon that has written its pid; before, a signal kills it.           *)
Listening(d) == procs[d].stage \notin {"off", "checking", "starting"}

(* A pid is that of the process that wrote it, if it still runs.           *)
Names(d) == pidFile = d /\ Listening(d)

NamesNobody == \A d \in Daemon : ~Names(d)

(* The pid is removed, whoever's it is by now.                             *)
Unnames(p) ==
    /\ pidFile' = NoDaemon
    /\ disowned' = (disowned \/ (p \notin alone /\ \E d \in Daemon \ {p} : Names(d)))

(* `getScheduleDaemonStatus`: a pid of a dead process is removed, after an *)
(* await.                                                                  *)
AsksStatus(t) ==
    /\ pidFile \in Daemon /\ NamesNobody
    /\ Becomes(t, [procs[t] EXCEPT !.stage = "clearing"])
    /\ alone' = alone \cup {t}
    /\ UNCHANGED pidFile

(* `stopScheduleDaemon` signals the daemon, waits until its pid is gone,   *)
(* and removes the pid again.                                              *)
AsksToStop(t) ==
    /\ ~NamesNobody
    /\ procs' = [procs EXCEPT ![t].stage = "stopping", ![pidFile].stopping = TRUE]
    /\ UNCHANGED <<pidFile, alone>>

Calls(t) ==
    /\ procs[t].stage = "idle"
    /\ Counts
    /\ \/ Creates(t) \/ StartsToRemove(t) \/ AsksStatus(t) \/ AsksToStop(t)
       \/ \E enabled \in BOOLEAN : Enables(t, enabled)
    /\ UNCHANGED <<expression, today, record, unlinked, ran, twice, marked, forgotten,
                   together, disowned, crowded>>

Filling == {p \in Daemon \cup Tool : procs[p].stage = "filling"}

RemovesRecord(t) ==
    /\ procs[t].stage = "removing"
    /\ record' = NoSchedule
    /\ unlinked' = unlinked \cup Filling
    /\ Rests(t)
    /\ UNCHANGED <<expression, today, pidFile, begun, ran, twice, marked, forgotten,
                   daemonHistory>>

Stopped(t) ==
    /\ procs[t].stage = "stopping"
    /\ IF NamesNobody
       THEN Becomes(t, [procs[t] EXCEPT !.stage = "clearing"]) /\ alone' = alone \cup {t}
       ELSE Rests(t) /\ UNCHANGED alone
    /\ UNCHANGED <<expression, today, record, pidFile, unlinked, begun, ran, twice,
                   marked, forgotten, together, disowned, crowded>>

Clears(t) ==
    /\ procs[t].stage = "clearing"
    /\ Unnames(t)
    /\ alone' = alone \ {t}
    /\ Rests(t)
    /\ UNCHANGED <<expression, today, record, unlinked, begun, ran, twice, marked,
                   forgotten, together, crowded>>

-----------------------------------------------------------------------------
(* A daemon.                                                               *)

Off == [stage |-> "off", held |-> NoSchedule, now |-> 0, ticked |-> 0, stopping |-> FALSE]

(* A process asks whether a daemon runs, and ends if one does.             *)
Starts(d) ==
    /\ procs[d].stage = "off"
    /\ Counts
    /\ NamesNobody
    /\ Becomes(d, [Off EXCEPT !.stage = IF pidFile = NoDaemon THEN "starting" ELSE "checking"])
    /\ alone' = alone \cup {d}
    /\ UNCHANGED <<expression, today, record, pidFile, unlinked, ran, twice, marked,
                   forgotten, together, disowned, crowded>>

ClearsOld(d) ==
    /\ procs[d].stage = "checking"
    /\ Unnames(d)
    /\ Becomes(d, [procs[d] EXCEPT !.stage = "starting"])
    /\ UNCHANGED <<expression, today, record, unlinked, begun, ran, twice, marked,
                   forgotten, alone, together, crowded>>

WritesPid(d) ==
    /\ procs[d].stage = "starting"
    /\ pidFile' = d
    /\ Becomes(d, [procs[d] EXCEPT !.stage = "idle"])
    /\ alone' = {}
    /\ together' = (together \/ d \notin alone)
    /\ crowded' = crowded \cup {day \in {today} : \E e \in Daemon : Listening(e)}
    /\ UNCHANGED <<expression, today, record, unlinked, begun, ran, twice, marked,
                   forgotten, disowned>>

(* Faulty: what has run today is not looked at.                            *)
RunsNow == record \in Stored /\ record.enabled /\ Due(today)

(* `shouldRunScheduleNow`                                                  *)
ShouldRunNow ==
    /\ record \in Stored
    /\ record.enabled
    /\ Due(today)
    /\ record.lastRun # today

(* A tick, of which a day has at most one: the timer takes a minute.       *)
Ticks(d) ==
    /\ procs[d].stage = "idle"
    /\ ~procs[d].stopping
    /\ procs[d].ticked # today
    /\ Becomes(d, [procs[d] EXCEPT !.ticked = today, !.now = today,
                                   !.stage = IF ShouldRunNow THEN "firing" ELSE "idle"])
    /\ UNCHANGED <<expression, today, record, pidFile, unlinked, begun, ran, twice,
                   marked, forgotten, daemonHistory>>

(* The run is started, or its log cannot be opened.                        *)
Fires(d) ==
    /\ procs[d].stage = "firing"
    /\ \/ /\ ran' = ran \cup {procs[d].now}
          /\ twice' = twice \cup (ran \cap {procs[d].now})
          /\ Becomes(d, [procs[d] EXCEPT !.stage = "fired"])
       \/ UNCHANGED <<ran, twice>> /\ Rests(d)
    /\ UNCHANGED <<expression, today, record, pidFile, unlinked, begun, marked,
                   forgotten, daemonHistory>>

(* `touchLastRunAt` reads the record again, and throws if it cannot.       *)
Touches(d) ==
    /\ procs[d].stage = "fired"
    /\ IF record \in Stored
       THEN /\ Becomes(d, [procs[d] EXCEPT !.stage = "opening",
                                           !.held = [record EXCEPT !.lastRun = procs[d].now]])
            /\ UNCHANGED forgotten
       ELSE Rests(d) /\ forgotten' = forgotten \cup {procs[d].now}
    /\ UNCHANGED <<expression, today, record, pidFile, unlinked, begun, ran, twice,
                   marked, daemonHistory>>

(* A daemon ends in the middle of whatever it does.                        *)
Ends(d) ==
    /\ Becomes(d, Off)
    /\ unlinked' = unlinked \ {d}
    /\ alone' = alone \ {d}
    /\ forgotten' = IF procs[d].stage \in {"fired", "opening", "filling"}
                    THEN forgotten \cup {procs[d].now} ELSE forgotten
    /\ UNCHANGED <<expression, today, record, begun, ran, twice, marked, together, crowded>>

(* It is signalled, removes the pid and exits.                             *)
Exits(d) == procs[d].stopping /\ Listening(d) /\ Unnames(d) /\ Ends(d)

(* It is killed: by the tool that lost patience, or from outside.          *)
IsKilled(d) == procs[d].stage # "off" /\ UNCHANGED <<pidFile, disowned>> /\ Ends(d)

Interrupts(d) ==
    /\ Listening(d)
    /\ ~procs[d].stopping
    /\ Becomes(d, [procs[d] EXCEPT !.stopping = TRUE])
    /\ UNCHANGED <<expression, today, record, pidFile, unlinked, begun, ran, twice,
                   marked, forgotten, daemonHistory>>

Midnight ==
    /\ today < LastDay
    /\ today' = today + 1
    /\ crowded' = crowded \cup {day \in {today'} :
                                    \E d, e \in Daemon : d # e /\ Listening(d) /\ Listening(e)}
    /\ UNCHANGED <<expression, record, pidFile, procs, unlinked, begun, ran, twice,
                   marked, forgotten, alone, together, disowned>>

-----------------------------------------------------------------------------

ScheduleInit ==
    /\ expression \in Expression /\ today \in FirstDay
    /\ record = NoSchedule /\ pidFile = NoDaemon
    /\ procs = [p \in Daemon \cup Tool |->
                   IF p \in Daemon THEN Off ELSE [Off EXCEPT !.stage = "idle"]]
    /\ unlinked = {} /\ begun = 0 /\ ran = {} /\ twice = {} /\ marked = 0 /\ forgotten = {}
    /\ alone = {} /\ together = FALSE /\ disowned = FALSE /\ crowded = {}

ScheduleNext ==
    \/ \E p \in Daemon \cup Tool : Truncates(p) \/ FillsIn(p)
    \/ \E t \in Tool : Calls(t) \/ RemovesRecord(t) \/ Stopped(t) \/ Clears(t)
    \/ \E d \in Daemon :
        \/ Starts(d) \/ ClearsOld(d) \/ WritesPid(d)
        \/ Ticks(d) \/ Fires(d) \/ Touches(d)
        \/ Interrupts(d) \/ Exits(d) \/ IsKilled(d)
    \/ Midnight

ScheduleSpec == ScheduleInit /\ [][ScheduleNext]_scheduleVars

-----------------------------------------------------------------------------
(* Properties.                                                             *)

Stages == {"off", "checking", "starting", "idle", "firing", "fired", "opening",
           "filling", "removing", "stopping", "clearing"}

Place == [stage : Stages, held : Stored \cup {NoSchedule}, now : 0 .. LastDay,
          ticked : 0 .. LastDay, stopping : BOOLEAN]

ScheduleTypeOK ==
    /\ expression \in Expression /\ today \in 1 .. LastDay
    /\ record \in Stored \cup {NoSchedule, HalfWritten}
    /\ pidFile \in Daemon \cup {NoDaemon}
    /\ procs \in [Daemon \cup Tool -> Place]
    /\ unlinked \subseteq Filling /\ twice \subseteq ran
    /\ alone \subseteq Daemon \cup Tool /\ together \in BOOLEAN /\ disowned \in BOOLEAN

(* The days a part names.                                                  *)
Named(part) ==
    LET first == IF part.any THEN 0 ELSE part.first
        last  == IF part.any THEN 6 ELSE part.last IN
    {value % 7 : value \in {v \in first .. last : (v - first) % part.step = 0}}

(* Parts that isValidCron lets through, and those of them that Matches     *)
(* takes for a day they do not name: to Sunday (as 7), in steps that miss  *)
(* it but would meet an eighth day.                                        *)
Valid   == {part \in Part : part.first <= part.last}
Misread == {part \in Part : /\ ~part.any /\ part.first \in 1 .. 6 /\ part.last = 7
                            /\ part.step > 1 /\ (8 - part.first) % part.step = 0}

(* A schedule runs only on days its expression names.                      *)
RunsAsNamed == \A day \in ran : \E part \in expression : day % 7 \in Named(part)

(* It runs on a day only once (lines 102-137 of the daemon), whoever       *)
(* restarts daemons or edits the record; unless more than one daemon       *)
(* listened on that day, or the day's mark was lost: its daemon ended      *)
(* before it was written, or a tool wrote back what it had read before.    *)
RunsOnce == twice \subseteq forgotten \cup crowded

(* More than one listens only after two saw no daemon before either had    *)
(* written its pid, or after somebody who saw none before one wrote its    *)
(* pid removed it (lines 303-306 of the tools).                            *)
OneDaemon == crowded # {} => together \/ disowned

(* All three: a schedule runs as it is named, and once.                    *)
RunsOnceAsNamed == RunsAsNamed /\ RunsOnce /\ OneDaemon
================================================================================
