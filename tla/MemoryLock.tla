------------------------------ MODULE MemoryLock ------------------------------
(***************************************************************************)
(* The lock that sessions of one project take around a read, a change and  *)
(* a write of its memory: withMemoryLock, src/memory/lock.ts.              *)
(*                                                                         *)
(* The lock is a file that is created exclusively and then filled with its *)
(* owner.  Writers queue with tickets.  A writer that meets the lock of an *)
(* owner that has died removes it, guarded by a second file, the reaper;   *)
(* while the owner is not written yet, a lock is left alone for thirty     *)
(* seconds.                                                                *)
(*                                                                         *)
(* Every call to the file system is a step.  A process runs them without   *)
(* anything else in between, so that thirty seconds pass between two of    *)
(* them only if the process or the machine is suspended (Pauses).          *)
(***************************************************************************)
EXTENDS Naturals

CONSTANTS
    Proc,        \* processes of the sessions open on the project
    Stamp,       \* names of tickets, in their order
    Pauses,      \* processes may be suspended for thirty seconds
    MaxFaults,   \* bound: processes that die, locks that cannot be filled
    NoProc, NoFile, Empty

File == [by : Proc, text : BOOLEAN]

ASSUME LockAssumption ==
    /\ Stamp \subseteq Nat \ {0} /\ MaxFaults \in Nat /\ Pauses \in BOOLEAN
    /\ {NoProc, Empty} \cap Proc = {} /\ NoFile \notin File

VARIABLES
    alive,
    stage,       \* where each process is in withMemoryLock
    ticket,      \* .write-waiters: the ticket of each process, 0 without one
    lock,        \* .write-lock: who created it, and whether its text is there
    old,         \* it has not been written to for thirty seconds
    reaper,      \* .write-lock.reap: who created it
    seen,        \* the text of the lock each process is inspecting
    late,        \* processes whose deadline is over
    busy,        \* processes that are between two calls they began before the
                 \* last write to the lock
    ahead,       \* history: who was waiting with an earlier ticket when each asked
    faults

vars == <<alive, stage, ticket, lock, old, reaper, seen, late, busy, ahead, faults>>

Reaping == {"reading", "judging", "comparing", "removing", "reclaimed", "beaten"}
Short   == Reaping \cup {"opened"}
Stage   == Short \cup {"idle", "queued", "first", "blocked", "working", "releasing",
                       "unlinking", "leaving", "dead"}

(* The text of a lock; what names its owner is told from every other text. *)
Contents(f) == IF f.text THEN f.by ELSE Empty

Goes(p, s) ==
    /\ stage' = [stage EXCEPT ![p] = s]
    /\ busy' = IF s \in Short THEN busy ELSE busy \ {p}

(* A step that changes nothing else.                                       *)
GoesOn(p, s) ==
    /\ Goes(p, s)
    /\ UNCHANGED <<alive, ticket, lock, old, reaper, seen, late, ahead, faults>>

(* A step that writes to the lock.                                         *)
GoesWriting(p, s) ==
    /\ stage' = [stage EXCEPT ![p] = s]
    /\ busy' = {q \in alive : stage'[q] \in Short}
    /\ old' = FALSE

-----------------------------------------------------------------------------
(* The queue.                                                              *)

Waiting == {q \in alive : ticket[q] # 0}

(* Tickets are named by the wall clock, which may stand still or go back.  *)
Asks(p) ==
    /\ stage[p] = "idle"
    /\ \E n \in Stamp :
        /\ \A q \in Proc : ticket[q] # n
        /\ ticket' = [ticket EXCEPT ![p] = n]
        /\ ahead' = [ahead EXCEPT ![p] = {q \in Waiting : ticket[q] < n}]
    /\ Goes(p, "queued")
    /\ UNCHANGED <<alive, lock, old, reaper, seen, late, faults>>

(* firstWaiter removes the tickets of the dead that come before the first  *)
(* of the living.                                                          *)
Swept == {q \in Proc \ alive : \A r \in Waiting : ticket[q] < ticket[r]}

(* Faulty: whoever finds the lock free may go.                             *)
TakesAnyTurn(p) ==
    /\ stage[p] = "queued"
    /\ ticket' = [q \in Proc |-> IF q \in Swept THEN 0 ELSE ticket[q]]
    /\ Goes(p, "first")
    /\ UNCHANGED <<alive, lock, old, reaper, seen, late, ahead, faults>>

TakesTurn(p) ==
    /\ stage[p] = "queued"
    /\ ticket' = [q \in Proc |-> IF q \in Swept THEN 0 ELSE ticket[q]]
    /\ Goes(p, IF \A q \in Waiting : ticket[p] <= ticket[q] THEN "first" ELSE "blocked")
    /\ UNCHANGED <<alive, lock, old, reaper, seen, late, ahead, faults>>

(* Faulty: a writer that is beaten to the lock does not look at the clock. *)
WaitsForever(p) == stage[p] = "blocked" /\ GoesOn(p, "queued")

(* "Project memory is busy in another session", or five milliseconds.      *)
Waits(p) ==
    /\ stage[p] = "blocked"
    /\ GoesOn(p, IF p \in late THEN "leaving" ELSE "queued")

(* Faulty: the ticket stays behind.                                        *)
LeavesItsTicket(p) == stage[p] = "leaving" /\ GoesOn(p, "idle")

Leaves(p) ==
    /\ stage[p] = "leaving"
    /\ ticket' = [ticket EXCEPT ![p] = 0]
    /\ ahead' = [q \in Proc |-> IF q = p THEN {} ELSE ahead[q] \ {p}]
    /\ late' = late \ {p}
    /\ Goes(p, "idle")
    /\ UNCHANGED <<alive, lock, old, reaper, seen, faults>>

-----------------------------------------------------------------------------
(* The lock.                                                               *)

Opens(p) ==
    /\ stage[p] = "first" /\ lock = NoFile
    /\ lock' = [by |-> p, text |-> FALSE]
    /\ GoesWriting(p, "opened")
    /\ UNCHANGED <<alive, ticket, reaper, seen, late, ahead, faults>>

(* The owner is written to the file that was opened, if it is still there. *)
Writes(p) ==
    /\ stage[p] = "opened"
    /\ IF lock = [by |-> p, text |-> FALSE]
       THEN lock' = [by |-> p, text |-> TRUE] /\ GoesWriting(p, "working")
       ELSE Goes(p, "working") /\ UNCHANGED <<lock, old>>
    /\ UNCHANGED <<alive, ticket, reaper, seen, late, ahead, faults>>

(* The operation runs, and returns or throws.                              *)
Works(p) == stage[p] = "working" /\ GoesOn(p, "releasing")

Rereads(p) ==
    /\ stage[p] = "releasing"
    /\ GoesOn(p, IF lock # NoFile /\ Contents(lock) = p THEN "unlinking" ELSE "leaving")

Unlinks(p) ==
    /\ stage[p] = "unlinking"
    /\ lock' = NoFile
    /\ old' = FALSE
    /\ Goes(p, "leaving")
    /\ UNCHANGED <<alive, ticket, reaper, seen, late, ahead, faults>>

-----------------------------------------------------------------------------
(* A lock that is taken: reclaimAbandoned.                                 *)

Contends(p) ==
    /\ stage[p] = "first" /\ lock # NoFile
    /\ IF reaper = NoProc
       THEN reaper' = p /\ Goes(p, "reading")
       ELSE Goes(p, "blocked") /\ UNCHANGED reaper
    /\ UNCHANGED <<alive, ticket, lock, old, seen, late, ahead, faults>>

Reads(p) ==
    /\ stage[p] = "reading"
    /\ IF lock = NoFile
       THEN Goes(p, "beaten") /\ UNCHANGED seen
       ELSE Goes(p, "judging") /\ seen' = [seen EXCEPT ![p] = Contents(lock)]
    /\ UNCHANGED <<alive, ticket, lock, old, reaper, late, ahead, faults>>

(* abandoned: its owner is dead, or it has been without one for too long.  *)
Judges(p) ==
    /\ stage[p] = "judging"
    /\ LET abandoned == IF seen[p] = Empty THEN lock # NoFile /\ old ELSE seen[p] \notin alive
       IN  GoesOn(p, IF abandoned THEN "comparing" ELSE "beaten")

(* Faulty: what was judged is removed, whatever the lock is by then.       *)
ComparesNothing(p) == stage[p] = "comparing" /\ GoesOn(p, "removing")

Compares(p) ==
    /\ stage[p] = "comparing"
    /\ GoesOn(p, IF lock # NoFile /\ Contents(lock) = seen[p] THEN "removing" ELSE "beaten")

Removes(p) ==
    /\ stage[p] = "removing"
    /\ lock' = NoFile
    /\ old' = FALSE
    /\ Goes(p, IF lock # NoFile THEN "reclaimed" ELSE "beaten")
    /\ UNCHANGED <<alive, ticket, reaper, seen, late, ahead, faults>>

(* Faulty: a contender that removed nothing leaves the reaper behind.      *)
DropsIfReclaimed(p) ==
    /\ \/ stage[p] = "reclaimed" /\ Goes(p, "queued") /\ reaper' = NoProc
       \/ stage[p] = "beaten" /\ Goes(p, "blocked") /\ UNCHANGED reaper
    /\ UNCHANGED <<alive, ticket, lock, old, seen, late, ahead, faults>>

Drops(p) ==
    /\ \/ stage[p] = "reclaimed" /\ Goes(p, "queued")
       \/ stage[p] = "beaten" /\ Goes(p, "blocked")
    /\ reaper' = NoProc
    /\ seen' = [seen EXCEPT ![p] = Empty]
    /\ UNCHANGED <<alive, ticket, lock, old, late, ahead, faults>>

-----------------------------------------------------------------------------
(* Time and faults.                                                        *)

(* The deadline of a writer is over.                                       *)
Expires(p) ==
    /\ p \in Waiting \ late
    /\ late' = late \cup {p}
    /\ UNCHANGED <<alive, stage, ticket, lock, old, reaper, seen, busy, ahead, faults>>

(* Thirty seconds since the lock was written to: unless processes can be   *)
(* suspended, none is where it was then between two calls.                 *)
Ages ==
    /\ lock # NoFile /\ ~old
    /\ Pauses \/ busy = {}
    /\ old' = TRUE
    /\ UNCHANGED <<alive, stage, ticket, lock, reaper, seen, late, busy, ahead, faults>>

Fault == faults < MaxFaults /\ faults' = faults + 1

(* The owner cannot be written; the file that was opened stays.            *)
WriteFails(p) ==
    /\ stage[p] = "opened"
    /\ Fault
    /\ Goes(p, "leaving")
    /\ UNCHANGED <<alive, ticket, lock, old, reaper, seen, late, ahead>>

(* A process dies inside withMemoryLock; its files stay.                   *)
Dies(p) ==
    /\ p \in alive /\ stage[p] # "idle"
    /\ Fault
    /\ alive' = alive \ {p}
    /\ Goes(p, "dead")
    /\ ahead' = [q \in Proc |-> IF q = p THEN {} ELSE ahead[q] \ {p}]
    /\ late' = late \ {p}
    /\ seen' = [seen EXCEPT ![p] = Empty]
    /\ UNCHANGED <<ticket, lock, old, reaper>>

-----------------------------------------------------------------------------

Init ==
    /\ alive = Proc
    /\ stage = [p \in Proc |-> "idle"]
    /\ ticket = [p \in Proc |-> 0]
    /\ lock = NoFile
    /\ old = FALSE
    /\ reaper = NoProc
    /\ seen = [p \in Proc |-> Empty]
    /\ late = {}
    /\ busy = {}
    /\ ahead = [p \in Proc |-> {}]
    /\ faults = 0

(* What a process does once it has asked.                                  *)
Step(p) ==
    \/ TakesTurn(p) \/ Waits(p) \/ Leaves(p)
    \/ Opens(p) \/ Writes(p) \/ Works(p) \/ Rereads(p) \/ Unlinks(p)
    \/ Contends(p) \/ Reads(p) \/ Judges(p) \/ Compares(p) \/ Removes(p) \/ Drops(p)

Next ==
    \/ \E p \in Proc : Asks(p) \/ Step(p) \/ Expires(p) \/ WriteFails(p) \/ Dies(p)
    \/ Ages

Spec == Init /\ [][Next]_vars

-----------------------------------------------------------------------------
(* Properties.                                                             *)

(* Types; a process has a ticket exactly while it is in withMemoryLock.    *)
LockTypeOK ==
    /\ alive \subseteq Proc
    /\ stage \in [Proc -> Stage]
    /\ ticket \in [Proc -> Stamp \cup {0}]
    /\ lock \in File \cup {NoFile}
    /\ old \in BOOLEAN
    /\ reaper \in Proc \cup {NoProc}
    /\ seen \in [Proc -> Proc \cup {Empty}]
    /\ late \subseteq Proc /\ busy \subseteq alive
    /\ ahead \in [Proc -> SUBSET Proc]
    /\ \A p \in Proc : p \notin alive <=> stage[p] = "dead"
    /\ \A p \in alive : ticket[p] = 0 <=> stage[p] = "idle"

(* Mutations of the memory are serialized: whoever dies, gives up, finds   *)
(* its disk full or takes another for dead, two processes never run their  *)
(* operations at the same time (lines 100-159).                            *)
MutualExclusion ==
    \A p, q \in Proc : stage[p] = "working" /\ stage[q] = "working" => p = q

(* A writer does not take the lock ahead of those that were waiting for it *)
(* with an earlier ticket when it asked (lines 118-119).                   *)
NoOvertaking ==
    [][\A p \in Proc : stage[p] # "opened" /\ stage'[p] = "opened" => ahead[p] = {}]_vars

(* A lock that its owner will not release, because it has died or could    *)
(* not fill it, is reclaimed for the writer that waits, however far its    *)
(* deadline is, unless a process has died with the reaper (lines 42-98;    *)
(* that a dead reaper is not recovered is documented).                     *)
Leftover(o) ==
    lock # NoFile /\ lock.by = o /\ stage[o] \notin {"opened", "working", "releasing", "unlinking"}

Orphaned == reaper # NoProc /\ reaper \notin alive

LeftoverIsReclaimed ==
    \A o, p \in Proc :
        Leftover(o) /\ p \in Waiting ~> ~Leftover(o) \/ p \in late \/ p \notin Waiting \/ Orphaned
=============================================================================
