--------------------------- MODULE SessionTranscript ---------------------------
(***************************************************************************)
(* A session's messages, in memory and in the database: src/agent/agent.ts *)
(* (`messages`, `messageSeqs` and what changes them), storage/transcript.ts*)
(* and storage/transcript-view.ts.                                         *)
(*                                                                         *)
(* Memory holds two lists, the messages and the place of each in the       *)
(* database.  They are changed side by side, by the turn and by a timer    *)
(* that brings notices of background work and waits for no turn.           *)
(***************************************************************************)
EXTENDS Naturals, Sequences, FiniteSets, SequencesExt

CONSTANTS
    OVERFLOW_RECOVERY_KEPT_TURNS,
    MaxMessages, MaxTurns, MaxCompactions     \* bounds of the run

ASSUME TranscriptAssumption ==
    /\ OVERFLOW_RECOVERY_KEPT_TURNS \in Nat \ {0}
    /\ MaxMessages \in Nat /\ MaxTurns \in Nat /\ MaxCompactions \in Nat

(* The role of a message is "user" for what the person or the host says to *)
(* the model, "notice", "summary", or "reply": an assistant message and the*)
(* results of its tools.                                                   *)
Null == 0                         \* the place of a message that is not stored

VARIABLES
    messages,        \* of id, role, turn, and the turns whose verdict joined it
    messageSeqs,     \* the place of each in the table
    rows,            \* the table of messages: seq is the index
    firstKeptSeq,    \* of the session's last compaction
    turns, ids,      \* counted so far
    user,            \* id of the turn's message; 0 before it is there
    phase,
    prepared,        \* what a compaction under way has worked out
    compactions,
    ended,           \* how the last turn ended
    raced,           \* history: what a notice got between
    dropped          \* history: messages taken from memory, not from the table

transcriptVars == <<messages, messageSeqs, rows, firstKeptSeq, turns, ids, user, phase,
                    prepared, compactions, ended, raced, dropped>>

Summary     == [id |-> 0, role |-> "summary", turn |-> 0, verdicts |-> {}]
NotPrepared == [kept |-> <<>>, index |-> 0, keptSeqs |-> <<>>, firstKeptSeq |-> 0]

(* A new message of the turn, the k-th of those made in a step.            *)
Says(role, k) == [id |-> ids + k, role |-> role, turn |-> turns, verdicts |-> {}]

Places(first, n) == [k \in 1..n |-> first + k - 1]

(* Where a message is in a list, 0 when it is not (lastIndexOf).           *)
IndexOf(id, list) == LET at == {i \in DOMAIN list : list[i].id = id} IN
                     IF at = {} THEN 0 ELSE CHOOSE i \in at : TRUE

Room(n) == ids + n <= MaxMessages

control == <<firstKeptSeq, turns, prepared, compactions, raced>>

-----------------------------------------------------------------------------
(* Writing to the table.                                                   *)

(* Faulty: the turn's own message is inserted again, stored or not.        *)
PendingAgain == LET first == IndexOf(user, messages) IN
                {i \in DOMAIN messages : user # 0 /\ first # 0 /\ i >= first
                                          /\ (messageSeqs[i] = Null \/ i = first)}

(* appendCompletedTurn: whatever of the turn is not stored yet, then the   *)
(* new messages.  Nothing is found when the turn's own message is no longer*)
(* in memory.                                                              *)
Pending == LET first == IndexOf(user, messages) IN
           {i \in DOMAIN messages : user # 0 /\ first # 0 /\ i >= first /\ messageSeqs[i] = Null}

(* How many of a set of places there are up to one, and the place that many*)
(* are up to: the order in which the messages of a list are inserted.      *)
Rank(i, set)  == Cardinality({j \in set : j <= i})
Nth(k, set)   == CHOOSE i \in set : Rank(i, set) = k

(* `pushed` is in memory only, until the turn is appended to again.        *)
AppendCompletedTurn(new, pushed) ==
    LET pending == [k \in 1..Cardinality(Pending) |-> messages[Nth(k, Pending)]]
        seqs    == [i \in DOMAIN messageSeqs |-> IF i \in Pending THEN Len(rows) + Rank(i, Pending)
                                                 ELSE messageSeqs[i]] IN
    /\ rows' = rows \o pending \o new
    /\ messages' = messages \o new \o pushed
    /\ messageSeqs' = seqs \o Places(Len(rows) + Len(pending) + 1, Len(new))
                           \o [k \in DOMAIN pushed |-> Null]

Push(new) ==
    /\ messages' = messages \o new
    /\ messageSeqs' = messageSeqs \o [k \in DOMAIN new |-> Null]
    /\ UNCHANGED rows

(* recordVerdict: the verdict joins the last reply there is.               *)
RecordVerdict ==
    LET replies == {i \in DOMAIN messages : messages[i].role = "reply"}
        last    == CHOOSE i \in replies : \A j \in replies : j <= i
        updated == [messages[last] EXCEPT !.verdicts = @ \cup {turns}]
        seq     == IF last \in DOMAIN messageSeqs THEN messageSeqs[last] ELSE Null IN
    IF replies = {}
    THEN /\ Room(1)
         /\ Push(<<[Says("reply", 1) EXCEPT !.verdicts = {turns}]>>)
         /\ ids' = ids + 1
    ELSE /\ messages' = [messages EXCEPT ![last] = updated]
         /\ rows' = IF seq \in DOMAIN rows THEN [rows EXCEPT ![seq] = updated] ELSE rows
         /\ UNCHANGED <<messageSeqs, ids>>

-----------------------------------------------------------------------------
(* The turn.                                                               *)

TurnStarts ==
    /\ phase = "idle" /\ turns < MaxTurns
    /\ turns' = turns + 1 /\ user' = 0 /\ phase' = "asked" /\ ended' = "none"
    /\ UNCHANGED <<messages, messageSeqs, rows, firstKeptSeq, ids, prepared, compactions, raced, dropped>>

(* A hook declines the request, or its skill cannot be run: the message is *)
(* not added, and the verdict is recorded.                                 *)
Declined ==
    /\ phase = "asked"
    /\ RecordVerdict
    /\ phase' = "idle" /\ ended' = "declined"
    /\ UNCHANGED <<control, user, dropped>>

Asked ==
    /\ phase = "asked" /\ Room(1)
    /\ Push(<<Says("user", 1)>>)
    /\ ids' = ids + 1 /\ user' = ids + 1 /\ phase' = "before"
    /\ UNCHANGED <<control, ended, dropped>>

(* Before the model is asked the host adds what it did itself: check runs, *)
(* a search, a plan it carries on; and what is known of the operations.    *)
HostWorks ==
    /\ phase = "before"
    /\ \/ /\ Room(1)
          /\ \E role \in {"reply", "user"} : Push(<<Says(role, 1)>>)
          /\ ids' = ids + 1 /\ UNCHANGED phase
       \/ phase' = "between" /\ UNCHANGED <<messages, messageSeqs, rows, ids>>
    /\ UNCHANGED <<control, user, ended, dropped>>

AsksModel ==
    /\ phase = "between"
    /\ phase' = "round"
    /\ UNCHANGED <<messages, messageSeqs, rows, control, ids, user, ended, dropped>>

(* Before a tool may act, the conversation that led to it is saved.        *)
ToolStarts ==
    /\ phase = "round"
    /\ AppendCompletedTurn(<<>>, <<>>)
    /\ UNCHANGED <<control, ids, user, phase, ended, dropped>>

(* The round is saved; it goes to the gate.                                *)
RoundEnds ==
    /\ phase = "round" /\ Room(1)
    /\ AppendCompletedTurn(<<Says("reply", 1)>>, <<>>)
    /\ ids' = ids + 1 /\ phase' = "gate"
    /\ UNCHANGED <<control, user, ended, dropped>>

(* A round was cut off, or said nothing: its finished steps are saved and  *)
(* the model is told, and then asked again, or the turn pauses.  Without   *)
(* finished steps nothing is saved; the model may be told all the same.    *)
CutOff ==
    LET AgainOrStops == \/ phase' = "between" /\ UNCHANGED ended
                        \/ phase' = "idle" /\ ended' = "stopped" IN
    /\ phase = "round"
    /\ \/ /\ Room(2)
          /\ \E told \in BOOLEAN :
                /\ AppendCompletedTurn(<<Says("reply", 1)>>, IF told THEN <<Says("user", 2)>> ELSE <<>>)
                /\ ids' = ids + (IF told THEN 2 ELSE 1)
          /\ AgainOrStops
       \/ UNCHANGED <<messages, messageSeqs, rows, ids>> /\ AgainOrStops
       \/ /\ Room(1)
          /\ Push(<<Says("user", 1)>>)
          /\ ids' = ids + 1 /\ phase' = "between" /\ UNCHANGED ended
    /\ UNCHANGED <<control, user, dropped>>

(* The gate asks for more,                                                 *)
GateAsks ==
    /\ phase = "gate" /\ Room(1)
    /\ Push(<<Says("user", 1)>>)
    /\ ids' = ids + 1 /\ phase' = "between"
    /\ UNCHANGED <<control, user, ended, dropped>>

(* or lets the turn end, with a verdict or without.                        *)
EndsTurn ==
    /\ phase = "gate"
    /\ RecordVerdict \/ UNCHANGED <<messages, messageSeqs, rows, ids>>
    /\ phase' = "idle" /\ ended' = "done"
    /\ UNCHANGED <<control, user, dropped>>

(* The person cancels: the turn's message is taken from memory             *)
(* (discardAbortedTurn).                                                   *)
Discarded ==
    /\ phase \in {"before", "round", "gate", "summary"}
    /\ LET i == IndexOf(user, messages) IN
       IF i = 0 THEN UNCHANGED <<messages, messageSeqs, dropped>>
       ELSE /\ messages' = RemoveAt(messages, i)
            /\ messageSeqs' = RemoveAt(messageSeqs, i)
            /\ dropped' = dropped \cup {user}
    /\ phase' = "idle" /\ ended' = "stopped" /\ prepared' = NotPrepared
    /\ UNCHANGED <<rows, firstKeptSeq, turns, ids, user, compactions, raced>>

-----------------------------------------------------------------------------
(* Making room: compaction, and what is done when even that is not enough. *)

First == IF messages # <<>> /\ messages[1].role = "summary" THEN 2 ELSE 1

(* prepareCompaction: the cut may fall anywhere, and leaves something on   *)
(* both sides.  The PreCompact hook is waited for,                         *)
CompactionStarts ==
    /\ phase = "between" /\ compactions < MaxCompactions
    /\ \E cut \in (First + 1)..Len(messages) :
        prepared' = [NotPrepared EXCEPT !.kept = SubSeq(messages, cut, Len(messages)), !.index = cut]
    /\ phase' = "hook"
    /\ UNCHANGED <<messages, messageSeqs, rows, firstKeptSeq, turns, ids, user, compactions, ended,
                   raced, dropped>>

(* Faulty: what is kept in the table starts at the next message.           *)
HookReturnsPast ==
    /\ phase = "hook"
    /\ prepared' = [prepared EXCEPT !.keptSeqs = SubSeq(messageSeqs, prepared.index, Len(messageSeqs)),
                                    !.firstKeptSeq = Len(rows) + 1]
    /\ phase' = "summary"
    /\ UNCHANGED <<messages, messageSeqs, rows, firstKeptSeq, turns, ids, user, compactions, ended,
                   raced, dropped>>

(* and the summary of what is not kept.                                    *)
HookReturns ==
    /\ phase = "hook"
    /\ LET keptSeqs == SubSeq(messageSeqs, prepared.index, Len(messageSeqs))
           stored   == {k \in DOMAIN keptSeqs : keptSeqs[k] # Null} IN
       prepared' = [prepared EXCEPT !.keptSeqs = keptSeqs,
                                    !.firstKeptSeq = IF stored = {} THEN Len(rows) + 1
                                                     ELSE keptSeqs[Nth(1, stored)]]
    /\ phase' = "summary"
    /\ UNCHANGED <<messages, messageSeqs, rows, firstKeptSeq, turns, ids, user, compactions, ended,
                   raced, dropped>>

Compacted ==
    /\ phase = "summary"
    /\ messages' = <<Summary>> \o prepared.kept
    /\ messageSeqs' = <<Null>> \o prepared.keptSeqs
    /\ firstKeptSeq' = prepared.firstKeptSeq
    /\ compactions' = compactions + 1
    /\ phase' = "between" /\ prepared' = NotPrepared
    /\ UNCHANGED <<rows, turns, ids, user, ended, raced, dropped>>

(* The summary could not be made: the round is tried again.                *)
CompactionFails ==
    /\ phase = "summary"
    /\ phase' = "between" /\ prepared' = NotPrepared
    /\ UNCHANGED <<messages, messageSeqs, rows, firstKeptSeq, turns, ids, user, compactions, ended,
                   raced, dropped>>

(* trimToRecentTurns: the provider says the conversation is too long.      *)
Trims(turnsToKeep) ==
    LET starts == {i \in First..Len(messages) : messages[i].role = "user"}
        later(i) == Cardinality({j \in starts : j > i})
        fits(i)  == later(i) = turnsToKeep - 1
                    \/ (Cardinality(starts) < turnsToKeep /\ later(i) = Cardinality(starts) - 1) IN
    \E cut \in starts :
        /\ fits(cut) /\ cut > First
        /\ messages' = SubSeq(messages, 1, First - 1) \o SubSeq(messages, cut, Len(messages))
        /\ messageSeqs' = SubSeq(messageSeqs, 1, First - 1)
                          \o SubSeq(messageSeqs, cut, Len(messageSeqs))
        /\ dropped' = dropped \cup {messages[i].id : i \in First..(cut - 1)}

TooLong ==
    /\ phase = "round"
    /\ \E turnsToKeep \in {OVERFLOW_RECOVERY_KEPT_TURNS, 1} : Trims(turnsToKeep)
    /\ phase' = "between"
    /\ UNCHANGED <<rows, control, ids, user, ended>>

-----------------------------------------------------------------------------
(* What no turn waits for.                                                 *)

(* consumeBackgroundNotifications, by a timer or as a turn starts.  A      *)
(* notice that arrives while a summary is made is not among what is kept.  *)
Notice ==
    /\ Room(1)
    /\ messages' = Append(messages, Says("notice", 1))
    /\ rows' = Append(rows, Says("notice", 1))
    /\ messageSeqs' = Append(messageSeqs, Len(rows) + 1)
    /\ ids' = ids + 1
    /\ raced' = raced \cup (IF phase = "hook" THEN {"compaction"} ELSE {})
                      \cup (IF phase # "idle" /\ Pending # {} THEN {"pending"} ELSE {})
    /\ dropped' = dropped \cup (IF phase = "summary" THEN {ids + 1} ELSE {})
    /\ UNCHANGED <<firstKeptSeq, turns, user, phase, prepared, compactions, ended>>

(* What a session that is opened again shows: buildEffectiveTranscript.    *)
FirstKept == IF firstKeptSeq = 0 THEN 1 ELSE firstKeptSeq
Kept      == FirstKept..Len(rows)

(* The process ends, however it does, and the session is opened again.     *)
Reopens ==
    LET summary == IF firstKeptSeq = 0 THEN <<>> ELSE <<Summary>>
        seqs    == Places(FirstKept, Len(rows) + 1 - FirstKept) IN
    /\ messages' = summary \o [k \in DOMAIN seqs |-> rows[seqs[k]]]
    /\ messageSeqs' = [k \in DOMAIN summary |-> Null] \o seqs
    /\ user' = 0 /\ phase' = "idle" /\ prepared' = NotPrepared /\ ended' = "none"
    /\ raced' = raced \cap {"compaction"} /\ dropped' = {}
    /\ UNCHANGED <<rows, firstKeptSeq, turns, ids, compactions>>

-----------------------------------------------------------------------------

TranscriptInit ==
    /\ messages = <<>> /\ messageSeqs = <<>> /\ rows = <<>> /\ firstKeptSeq = 0
    /\ turns = 0 /\ ids = 0 /\ user = 0 /\ phase = "idle" /\ prepared = NotPrepared
    /\ compactions = 0 /\ ended = "none" /\ raced = {} /\ dropped = {}

TranscriptNext ==
    \/ TurnStarts \/ Declined \/ Asked \/ HostWorks
    \/ AsksModel \/ ToolStarts \/ RoundEnds \/ CutOff
    \/ GateAsks \/ EndsTurn \/ Discarded
    \/ CompactionStarts \/ HookReturns \/ Compacted \/ CompactionFails \/ TooLong
    \/ Notice \/ Reopens

TranscriptSpec == TranscriptInit /\ [][TranscriptNext]_transcriptVars

-----------------------------------------------------------------------------
(* Properties.                                                             *)

(* The two lists of memory and the table agree, whatever is stored late,   *)
(* cut, trimmed, discarded or rewritten by a verdict: each message with a  *)
(* place is what the table has there, and nothing is stored twice.  Only a *)
(* notice that arrives while the PreCompact hook is waited for breaks it   *)
(* (compactOnce reads messageSeqs after that wait, messages before it).    *)
AlignedWithStore ==
    "compaction" \notin raced =>
        /\ Len(messages) = Len(messageSeqs)
        /\ \A i \in DOMAIN messages :
            messageSeqs[i] # Null => messageSeqs[i] \in DOMAIN rows /\ rows[messageSeqs[i]] = messages[i]
        /\ \A s, t \in DOMAIN rows : rows[s].id = rows[t].id => s = t

(* A session that is opened again gives the model what this one gives it:  *)
(* of what is stored, exactly what is in memory comes back, nothing that   *)
(* was summarised and nothing less (firstKeptSeq of compactOnce).  Apart   *)
(* from what was taken from memory alone, it can differ only after a       *)
(* notice was stored ahead of a message that was still waiting.            *)
ResumeSeesTheSame ==
    raced = {} => {rows[s].id : s \in Kept} \ dropped
                  = {messages[i].id : i \in {k \in DOMAIN messageSeqs : messageSeqs[k] # Null}} \ dropped

(* "Persist every message of this turn that is not stored yet - the user   *)
(* message on the first round plus any host-injected continuation prompts" *)
(* (appendCompletedTurn): when a turn ended, all it said is stored.        *)
TurnIsStored ==
    ended = "done" => \A i \in DOMAIN messages :
        i \in DOMAIN messageSeqs /\ messages[i].id >= user => messageSeqs[i] # Null

(* "The host's verdict on a turn joins the turn's last reply"              *)
(* (recordVerdict): never the reply of another turn.                       *)
(* In no run: a turn that ends before it has a reply does not keep it (see *)
(* README).                                                                *)
VerdictJoinsItsTurn == \A s \in DOMAIN rows : rows[s].verdicts \subseteq {rows[s].turn}
================================================================================
