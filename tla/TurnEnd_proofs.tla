---------------------------- MODULE TurnEnd_proofs ----------------------------
(***************************************************************************)
(* Theorems on how a turn ends: on its rounds (Interruptions), for every   *)
(* number of models and every bound of the counters; and on what the       *)
(* session keeps of it (SessionTranscript), for every number of turns,     *)
(* messages and compactions.                                               *)
(***************************************************************************)
EXTENDS Interruptions, SessionTranscript, FiniteSetTheorems, TLAPS

-----------------------------------------------------------------------------
(* The rounds of a turn.                                                   *)

(* Models that were given up stay marked, so that none is moved to again.  *)
AbandonedAreTried == abandoned \subseteq triedModels \ {model}

(* While it runs, the turn counts at most one more than the interruptions  *)
(* since the last one that a completed step had come before.               *)
CountsIdleRounds == outcome = "running" => withoutProgress <= idle + 1

(* The types, what is given up and counted, and the property itself.       *)
RoundInv ==
    RoundTypeOK /\ AbandonedAreTried /\ CountsIdleRounds /\ PausesExhausted

(* What the constants are, in the form the steps use it.                   *)
LEMMA Bounds ==
    /\ MaxWithoutProgress["main"] \in Nat /\ MaxWithoutProgress["child"] \in Nat
    /\ MaxTotal["main"] \in Nat /\ MaxTotal["child"] \in Nat
    /\ MaxFallbacks \in Nat /\ MaxRequests \in Nat
    /\ MAX_EMPTY_RESPONSE_RETRIES \in Nat /\ MAX_OVERFLOW_RECOVERY_LEVEL \in Nat
  BY InterruptionsAssumption DEF InterruptionsAssumption, Agent

(* A new turn meets the invariant (runTurn, agent.ts).                     *)
LEMMA RoundInvInit == RoundInit => RoundInv
  BY Bounds DEF RoundInit, RoundInv, RoundTypeOK, AbandonedAreTried, CountsIdleRounds,
                PausesExhausted, Outcome, Agent

(* `adoptProvider` starts every count again.                               *)
LEMMA AdoptKeepsInv ==
    ASSUME RoundInv, outcome = "running", AdoptProvider,
           cause' \in {"none", "total", "progress", "unavailable"},
           UNCHANGED <<agent, overflowRecoveryLevel, requests, samplingRejected>>
    PROVE  RoundInv'
  BY Bounds DEF RoundInv, RoundTypeOK, AbandonedAreTried, CountsIdleRounds,
                PausesExhausted, AdoptProvider, Agent

(* A round that is counted and retried on the model it ran on.             *)
LEMMA CountedKeepsInv ==
    ASSUME NEW steps \in BOOLEAN, RoundInv, outcome = "running",
           ~Exhausted(steps), Counted(steps), Stay,
           samplingRejected' \in {samplingRejected, samplingRejected \cup {model}},
           UNCHANGED <<agent, overflowRecoveryLevel, requests>>
    PROVE  RoundInv'
<1>1. /\ withoutProgress' \in 0 .. MaxWithoutProgress[agent]
      /\ total' \in 0 .. MaxTotal[agent]
      /\ onModel' \in 0 .. withoutProgress'
      /\ idle' \in Nat /\ withoutProgress' <= idle' + 1
  BY Bounds DEF RoundInv, RoundTypeOK, CountsIdleRounds, Exhausted, Counted, After,
                Idles, Agent
<1>2. /\ UNCHANGED <<agent, model, triedModels, abandoned, emptyResponseRetries,
                     fallbacks, outcome, cause, overflowRecoveryLevel, requests>>
      /\ samplingRejected' \subseteq Model
  BY DEF Stay, models, RoundInv, RoundTypeOK
<1> QED
  BY <1>1, <1>2 DEF RoundInv, RoundTypeOK, AbandonedAreTried, CountsIdleRounds,
                    PausesExhausted

(* A pause: another provider, or the end of the turn for the reason it     *)
(* states.                                                                 *)
LEMMA PauseKeepsInv ==
    ASSUME NEW steps \in BOOLEAN,
           NEW why \in {"total", "progress", "unavailable"},
           RoundInv, outcome = "running", Pause(why, steps),
           why = "progress" => After(withoutProgress, steps) > MaxWithoutProgress[agent],
           why = "unavailable" => NoModelLeft,
           UNCHANGED <<agent, overflowRecoveryLevel, requests, samplingRejected>>
    PROVE  RoundInv'
<1>1. CASE AdoptProvider
  BY <1>1, AdoptKeepsInv DEF Pause
<1>2. CASE /\ outcome' = "paused" /\ Idles(steps)
           /\ UNCHANGED <<fallbacks, models, counters, emptyResponseRetries>>
  <2>1. idle' \in Nat /\ (why = "progress" => idle' >= MaxWithoutProgress[agent])
    BY <1>2, Bounds DEF RoundInv, RoundTypeOK, CountsIdleRounds, Idles, After, Agent
  <2>2. /\ cause' = why /\ outcome' = "paused"
        /\ UNCHANGED <<agent, model, triedModels, abandoned, fallbacks, onModel,
                       withoutProgress, total, emptyResponseRetries, requests,
                       overflowRecoveryLevel, samplingRejected>>
    BY <1>2 DEF Pause, models, counters
  <2>3. RoundTypeOK' /\ AbandonedAreTried'
    BY <2>1, <2>2 DEF RoundInv, RoundTypeOK, AbandonedAreTried, Outcome
  <2>4. PausesExhausted' /\ CountsIdleRounds'
    BY <2>1, <2>2 DEF PausesExhausted, NoModelLeft, CountsIdleRounds
  <2> QED
    BY <2>3, <2>4 DEF RoundInv
<1> QED
  BY <1>1, <1>2 DEF Pause

(* The whole of `recoverFromInterruption`.                                 *)
LEMMA RecoverKeepsInv ==
    ASSUME NEW kind \in Kind, NEW steps \in BOOLEAN, RoundInv, outcome = "running",
           Recover(kind, steps), UNCHANGED <<agent, overflowRecoveryLevel, requests>>
    PROVE  RoundInv'
<1>1. CASE Exhausted(steps)
  <2> DEFINE why == IF total + 1 > MaxTotal[agent] THEN "total" ELSE "progress"
  <2>1. Pause(why, steps) /\ UNCHANGED samplingRejected
    BY <1>1 DEF Recover
  <2>2. why \in {"total", "progress", "unavailable"}
    OBVIOUS
  <2>3. why = "progress" => After(withoutProgress, steps) > MaxWithoutProgress[agent]
    BY <1>1 DEF Exhausted
  <2>4. why # "unavailable"
    OBVIOUS
  <2> QED
    BY <2>1, <2>2, <2>3, <2>4, PauseKeepsInv
<1>2. CASE ~Exhausted(steps) /\ Counted(steps) /\ Stay
  <2>1. samplingRejected' \in {samplingRejected, samplingRejected \cup {model}}
    BY <1>2 DEF Recover
  <2> QED
    BY <1>2, <2>1, CountedKeepsInv
<1>3. CASE MovesToFallback(steps) /\ ~Exhausted(steps) /\ UNCHANGED samplingRejected
  <2>1. PICK m \in Model : NextFallbackModel(m) /\ SwitchModel(m)
    BY <1>3 DEF MovesToFallback
  <2>2. /\ model' \in triedModels' /\ triedModels' \subseteq Model
        /\ abandoned' \subseteq Model /\ abandoned' \subseteq triedModels' \ {model'}
        /\ emptyResponseRetries' \in 0 .. MAX_EMPTY_RESPONSE_RETRIES
    BY <2>1, Bounds DEF NextFallbackModel, SwitchModel, RoundInv, RoundTypeOK,
                        AbandonedAreTried
  <2>3. /\ withoutProgress' \in 0 .. MaxWithoutProgress[agent]
        /\ total' \in 0 .. MaxTotal[agent] /\ onModel' \in 0 .. withoutProgress'
        /\ idle' \in Nat /\ withoutProgress' <= idle' + 1
    BY <1>3, Bounds DEF MovesToFallback, RoundInv, RoundTypeOK, CountsIdleRounds,
                        Exhausted, After, Idles, Agent
  <2> QED
    BY <1>3, <2>2, <2>3 DEF MovesToFallback, RoundInv, RoundTypeOK, AbandonedAreTried,
                            CountsIdleRounds, PausesExhausted
<1>4. CASE NoModelLeft /\ Pause("unavailable", steps) /\ UNCHANGED samplingRejected
  BY <1>4, PauseKeepsInv
<1> QED
  BY <1>1, <1>2, <1>3, <1>4 DEF Recover

(* A round that reached its budget after doing work.                       *)
LEMMA BudgetKeepsInv ==
    ASSUME RoundInv, outcome = "running", RoundBudget,
           UNCHANGED <<agent, overflowRecoveryLevel, requests, samplingRejected>>
    PROVE  RoundInv'
<1>1. CASE total + 1 > MaxTotal[agent]
  <2>1. Pause("total", TRUE)
    BY <1>1 DEF RoundBudget
  <2> QED
    BY <2>1, PauseKeepsInv
<1>2. CASE ~(total + 1 > MaxTotal[agent])
  BY <1>2, Bounds DEF RoundBudget, Stay, models, Idles, RoundInv, RoundTypeOK,
                      AbandonedAreTried, CountsIdleRounds, PausesExhausted, Agent
<1> QED
  BY <1>1, <1>2

(* Every step of the loop, of the turn's and of a sub-agent's.             *)
LEMMA RoundInvStep == RoundInv /\ [RoundNext]_roundVars => RoundInv'
<1> SUFFICES ASSUME RoundInv, [RoundNext]_roundVars
             PROVE  RoundInv'
  OBVIOUS
<1>1. CASE Interrupted
  <2>1. PICK kind \in Kind, steps \in BOOLEAN :
          IF kind = "budget" /\ steps /\ agent = "main"
          THEN RoundBudget /\ UNCHANGED samplingRejected
          ELSE Recover(kind, steps)
    BY <1>1 DEF Interrupted
  <2>2. outcome = "running" /\ UNCHANGED <<agent, overflowRecoveryLevel, requests>>
    BY <1>1 DEF Interrupted
  <2> QED
    BY <2>1, <2>2, RecoverKeepsInv, BudgetKeepsInv
<1>2. CASE Overflow
  BY <1>2, Bounds DEF Overflow, models, counters, history, RoundInv, RoundTypeOK,
                      AbandonedAreTried, CountsIdleRounds, PausesExhausted
<1>3. CASE RejectedCredential
  <2>1. CASE AdoptProvider
    BY <1>3, <2>1, AdoptKeepsInv DEF RejectedCredential, RoundInv, RoundTypeOK
  <2>2. CASE outcome' = "error" /\ UNCHANGED <<fallbacks, models, counters,
                                               emptyResponseRetries, idle>>
    BY <1>3, <2>2 DEF RejectedCredential, models, counters, RoundInv, RoundTypeOK,
                      AbandonedAreTried, CountsIdleRounds, PausesExhausted, Outcome
  <2> QED
    BY <1>3, <2>1, <2>2 DEF RejectedCredential
<1>4. CASE Answer
  <2>1. /\ requests' \in 0 .. MaxRequests
        /\ outcome' \in {"running", "answered"}
        /\ outcome' = "running" => outcome = "running"
    <3>1. CASE AskAgain
      BY <1>4, <3>1, Bounds DEF Answer, AskAgain, RoundInv, RoundTypeOK
    <3>2. CASE outcome' = "answered" /\ UNCHANGED requests
      BY <1>4, <3>2 DEF RoundInv, RoundTypeOK
    <3> QED
      BY <1>4, <3>1, <3>2 DEF Answer
  <2> QED
    BY <1>4, <2>1 DEF Answer, models, counters, RoundInv, RoundTypeOK, AbandonedAreTried,
                      CountsIdleRounds, PausesExhausted, Outcome
<1>5. CASE EmptyAnswer
  <2>1. PICK leaked \in BOOLEAN :
          \/ /\ emptyResponseRetries < MAX_EMPTY_RESPONSE_RETRIES
             /\ emptyResponseRetries' = emptyResponseRetries + 1
             /\ UNCHANGED <<models, outcome, requests>>
          \/ /\ emptyResponseRetries >= MAX_EMPTY_RESPONSE_RETRIES /\ ~leaked
             /\ \/ \E m \in Model : NextFallbackModel(m) /\ SwitchModel(m) /\ UNCHANGED outcome
                \/ /\ NoModelLeft /\ outcome' = "no response"
                   /\ UNCHANGED <<models, emptyResponseRetries>>
             /\ UNCHANGED requests
          \/ /\ emptyResponseRetries >= MAX_EMPTY_RESPONSE_RETRIES /\ leaked
             /\ AskAgain \/ (outcome' = "answered" /\ UNCHANGED requests)
             /\ UNCHANGED <<models, emptyResponseRetries>>
    BY <1>5 DEF EmptyAnswer
  <2>2. /\ outcome = "running"
        /\ UNCHANGED <<agent, samplingRejected, onModel, withoutProgress, total,
                       overflowRecoveryLevel, fallbacks, idle, cause>>
    BY <1>5 DEF EmptyAnswer, counters
  <2>3. CASE UNCHANGED models
    <3>1. /\ emptyResponseRetries' \in 0 .. MAX_EMPTY_RESPONSE_RETRIES
          /\ UNCHANGED <<model, triedModels, abandoned>>
      <4>1. \/ UNCHANGED emptyResponseRetries
            \/ /\ emptyResponseRetries < MAX_EMPTY_RESPONSE_RETRIES
               /\ emptyResponseRetries' = emptyResponseRetries + 1
            \/ \E m \in Model : NextFallbackModel(m)
        BY <2>1
      <4>2. ~ \E m \in Model : NextFallbackModel(m)
        BY <2>3 DEF NextFallbackModel, models
      <4> QED
        BY <2>3, <4>1, <4>2, Bounds DEF models, RoundInv, RoundTypeOK
    <3>2. requests' \in 0 .. MaxRequests /\ outcome' \in Outcome /\ outcome' # "paused"
      <4>1. CASE AskAgain
        BY <4>1, <2>2, Bounds DEF AskAgain, RoundInv, RoundTypeOK, Outcome
      <4>2. CASE UNCHANGED requests /\ outcome' \in {outcome, "no response", "answered"}
        BY <4>2, <2>2 DEF RoundInv, RoundTypeOK, Outcome
      <4> QED
        BY <2>1, <4>1, <4>2
    <3> QED
      BY <2>2, <3>1, <3>2 DEF RoundInv, RoundTypeOK, AbandonedAreTried, CountsIdleRounds,
                              PausesExhausted
  <2>4. CASE \E m \in Model : NextFallbackModel(m) /\ SwitchModel(m)
                              /\ UNCHANGED <<outcome, requests>>
    <3>1. PICK m \in Model : NextFallbackModel(m) /\ SwitchModel(m)
                             /\ UNCHANGED <<outcome, requests>>
      BY <2>4
    <3>2. /\ model' \in triedModels' /\ triedModels' \subseteq Model
          /\ abandoned' \subseteq Model /\ abandoned' \subseteq triedModels' \ {model'}
          /\ emptyResponseRetries' \in 0 .. MAX_EMPTY_RESPONSE_RETRIES
      BY <3>1, Bounds DEF NextFallbackModel, SwitchModel, RoundInv, RoundTypeOK,
                          AbandonedAreTried
    <3> QED
      BY <2>2, <3>1, <3>2 DEF RoundInv, RoundTypeOK, AbandonedAreTried, CountsIdleRounds,
                              PausesExhausted
  <2> QED
    BY <2>1, <2>3, <2>4
<1>6. CASE UserCancels
  BY <1>6 DEF UserCancels, models, counters, history, RoundInv, RoundTypeOK,
              AbandonedAreTried, CountsIdleRounds, PausesExhausted, Outcome
<1>7. CASE UNCHANGED roundVars
  BY <1>7 DEF roundVars, RoundInv, RoundTypeOK, AbandonedAreTried, CountsIdleRounds,
              PausesExhausted, NoModelLeft
<1> QED
  BY <1>1, <1>2, <1>3, <1>4, <1>5, <1>6, <1>7 DEF RoundNext, Round

(* The strengthened invariant holds in every turn.                         *)
THEOREM RoundsKeepInv == RoundSpec => []RoundInv
  BY RoundInvInit, RoundInvStep, PTL DEF RoundSpec

(* Every counter of a turn or a sub-agent stays within its bound, and one  *)
(* that runs has budget left (recoverFromInterruption, agent.ts).          *)
THEOREM RoundsTypeCorrect == RoundSpec => []RoundTypeOK
  BY RoundsKeepInv, PTL DEF RoundInv

(* No mix of failures and empty answers brings the turn back to a model it *)
(* gave up on this provider (nextFallbackModel, switchModel).              *)
THEOREM GivenUpForGood == RoundSpec => []NeverGoesBack
<1>1. RoundInv => NeverGoesBack
  BY DEF RoundInv, AbandonedAreTried, NeverGoesBack
<1> QED
  BY <1>1, RoundsKeepInv, PTL

(* A turn pauses only when its attempts are used up or nothing is left to  *)
(* move to (pauseAfterInterruptions).                                      *)
THEOREM PausesAreEarned == RoundSpec => []PausesExhausted
  BY RoundsKeepInv, PTL DEF RoundInv

-----------------------------------------------------------------------------
(* The transcript: the places of a set in their order.                     *)

(* The places of a finite set are counted one by one, from the lowest on.  *)
LEMMA RankCounts ==
  ASSUME NEW S \in SUBSET Nat, IsFiniteSet(S), NEW i \in S
  PROVE  /\ Rank(i, S) \in 1..Cardinality(S)
         /\ \A j \in S : i < j => Rank(i, S) < Rank(j, S)
<1> DEFINE UpTo(k) == {j \in S : j <= k}
<1>1. Cardinality(S) \in Nat
  BY FS_CardinalityType
<1>2. ASSUME NEW k \in S
      PROVE  /\ IsFiniteSet(UpTo(k)) /\ Cardinality(UpTo(k)) \in Nat
             /\ Cardinality(UpTo(k)) <= Cardinality(S)
  BY FS_Subset, FS_CardinalityType
<1>3. Cardinality(UpTo(i)) # 0
  <2>1. UpTo(i) # {}
    OBVIOUS
  <2> QED BY <1>2, <2>1, FS_EmptySet
<1>4. ASSUME NEW j \in S, i < j PROVE Cardinality(UpTo(i)) < Cardinality(UpTo(j))
  <2>1. UpTo(i) \in SUBSET UpTo(j) /\ UpTo(i) # UpTo(j)
    <3>1. \A k \in S : k \in Nat
      OBVIOUS
    <3>2. UpTo(i) \subseteq UpTo(j)
      <4> SUFFICES ASSUME NEW k \in S, k <= i PROVE k <= j
        OBVIOUS
      <4> QED BY <1>4, <3>1
    <3>3. j \in UpTo(j) /\ j \notin UpTo(i)
      BY <1>4, <3>1
    <3> QED BY <3>2, <3>3
  <2>2. Cardinality(UpTo(i)) <= Cardinality(UpTo(j)) /\ Cardinality(UpTo(i)) # Cardinality(UpTo(j))
    <3> HIDE DEF UpTo
    <3> QED BY <2>1, <1>2, FS_Subset
  <2> HIDE DEF UpTo
  <2> QED BY <2>2, <1>2
<1>5. \A k \in S : Rank(k, S) = Cardinality(UpTo(k))
  BY DEF Rank
<1> HIDE DEF UpTo
<1> QED BY <1>1, <1>2, <1>3, <1>4, <1>5

(* Each place up to the number of them is the rank of one.                 *)
LEMMA NthIsRanked ==
  ASSUME NEW S \in SUBSET Nat, IsFiniteSet(S)
  PROVE  /\ Cardinality(S) \in Nat
         /\ \A k \in 1..Cardinality(S) : Nth(k, S) \in S /\ Rank(Nth(k, S), S) = k
         /\ \A i \in S : Nth(Rank(i, S), S) = i
<1> DEFINE n == Cardinality(S)
           rank == [i \in S |-> Rank(i, S)]
<1>1. n \in Nat
  BY FS_CardinalityType
<1>2. \A i, j \in S : Rank(i, S) = Rank(j, S) => i = j
  <2> TAKE i, j \in S
  <2>1. i \in Nat /\ j \in Nat
    OBVIOUS
  <2>2. /\ i < j => Rank(i, S) < Rank(j, S)
        /\ j < i => Rank(j, S) < Rank(i, S)
        /\ Rank(i, S) \in 1..n /\ Rank(j, S) \in 1..n
    BY RankCounts
  <2> HIDE DEF n
  <2> QED BY <1>1, <2>1, <2>2
<1>3. rank \in Injection(S, 1..n)
  <2>1. rank \in [S -> 1..n]
    BY RankCounts
  <2> QED BY <1>2, <2>1 DEF Injection, IsInjective
<1>4. IsFiniteSet(1..n) /\ Cardinality(1..n) = n
  BY <1>1, FS_Interval
<1>5. rank \in Surjection(S, 1..n)
  <2> HIDE DEF rank
  <2> QED BY <1>3, <1>4, FS_Injection
<1>6. \A k \in 1..n : \E i \in S : Rank(i, S) = k
  BY <1>5 DEF Surjection
<1>7. ASSUME NEW k \in 1..n PROVE Nth(k, S) \in S /\ Rank(Nth(k, S), S) = k
  BY <1>6, <1>7 DEF Nth
<1>8. ASSUME NEW i \in S PROVE Nth(Rank(i, S), S) = i
  <2>1. Rank(i, S) \in 1..n
    BY RankCounts
  <2>2. Nth(Rank(i, S), S) \in S /\ Rank(Nth(Rank(i, S), S), S) = Rank(i, S)
    BY <1>7, <2>1
  <2> QED BY <1>2, <2>2
<1> QED BY <1>1, <1>7, <1>8

(* The first of the places has rank one: the lowest of them.               *)
LEMMA FirstIsLowest ==
  ASSUME NEW S \in SUBSET Nat, IsFiniteSet(S), S # {}
  PROVE  Nth(1, S) \in S /\ \A j \in S : Nth(1, S) <= j
<1>1. Cardinality(S) \in Nat /\ Cardinality(S) # 0
  BY FS_CardinalityType, FS_EmptySet
<1>2. Nth(1, S) \in S /\ Rank(Nth(1, S), S) = 1
  BY <1>1, NthIsRanked
<1>3. \A j \in S : j < Nth(1, S) => Rank(j, S) < 1 /\ Rank(j, S) \in 1..Cardinality(S)
  BY <1>2, RankCounts
<1>4. \A j \in S : j \in Nat
  OBVIOUS
<1>5. ASSUME NEW j \in S PROVE Nth(1, S) <= j
  <2>1. ASSUME j < Nth(1, S) PROVE FALSE
    <3>1. Rank(j, S) < 1 /\ Rank(j, S) \in 1..Cardinality(S)
      BY <1>3, <2>1
    <3> QED BY <1>1, <3>1
  <2>2. j \in Nat /\ Nth(1, S) \in Nat
    BY <1>2, <1>4
  <2> QED BY <2>1, <2>2
<1> QED BY <1>2, <1>5

(* The last has as many places up to it as there are.                      *)
LEMMA LastIsHighest ==
  ASSUME NEW S \in SUBSET Nat, IsFiniteSet(S), S # {}
  PROVE  \E i \in S : \A j \in S : j <= i
<1> DEFINE c == Cardinality(S)
<1>1. c \in Nat /\ c # 0
  BY FS_CardinalityType, FS_EmptySet
<1>2. Nth(c, S) \in S /\ Rank(Nth(c, S), S) = c
  BY <1>1, NthIsRanked
<1>3. \A j \in S : Nth(c, S) < j => c < Rank(j, S) /\ Rank(j, S) \in 1..c
  BY <1>2, RankCounts
<1> HIDE DEF c
<1>4. \A j \in S : j \in Nat
  OBVIOUS
<1>5. ASSUME NEW j \in S PROVE j <= Nth(c, S)
  <2>1. ASSUME Nth(c, S) < j PROVE FALSE
    <3>1. c < Rank(j, S) /\ Rank(j, S) \in 1..c
      BY <1>3, <2>1
    <3> QED BY <1>1, <3>1
  <2>2. j \in Nat /\ Nth(c, S) \in Nat
    BY <1>2, <1>4
  <2> QED BY <2>1, <2>2
<1> QED BY <1>2, <1>5

-----------------------------------------------------------------------------
(* The messages of the lists and of the table; verdicts are the turns      *)
(* whose verdict a message holds.                                          *)
Role    == {"user", "reply", "notice", "summary"}
Message == [id : Nat, role : Role, turn : Nat, verdicts : SUBSET Nat]

(* A list of messages, the places it says they have, and the table: each   *)
(* message is there, once, or not there at all.                            *)
Agrees(list, seqs, table, n) ==
    /\ Len(seqs) = Len(list)
    /\ \A i \in 1..Len(list) : list[i].id <= n
    /\ \A i, j \in 1..Len(list) : list[i].id = list[j].id => i = j
    /\ \A i \in 1..Len(list) :
        seqs[i] # Null => seqs[i] \in 1..Len(table) /\ table[seqs[i]] = list[i]
    /\ \A i \in 1..Len(list), s \in 1..Len(table) :
        seqs[i] = Null => table[s].id # list[i].id

(* Every row has a message of its own, one of those made so far.           *)
Stores(table, n) ==
    /\ \A s \in 1..Len(table) : table[s].id \in 1..n
    /\ \A s, t \in 1..Len(table) : table[s].id = table[t].id => s = t

(* The places of a list are in its order,                                  *)
Ascends(seqs) ==
    \A i, j \in 1..Len(seqs) : i < j /\ seqs[i] # Null /\ seqs[j] # Null => seqs[i] < seqs[j]

(* they are the rows from a first one on, but for what was dropped,        *)
Shows(seqs, table, first, gone) ==
    /\ \A i \in 1..Len(seqs) : seqs[i] # Null => seqs[i] >= first
    /\ \A s \in first..Len(table) : table[s].id \in gone \/ \E i \in 1..Len(seqs) : seqs[i] = s

(* and behind a message of the turn that waits, all wait.                  *)
NoneBehind(list, seqs, u) ==
    \A k, i, j \in 1..Len(list) :
        list[k].id = u /\ k <= i /\ i < j /\ seqs[i] = Null => seqs[j] = Null

(* What the lemmas below need of a list, and of places.                    *)
List(list)   == Len(list) \in Nat /\ \A i \in 1..Len(list) : list[i].id \in Nat
PlacesOf(list, seqs) == Len(seqs) = Len(list) /\ \A i \in 1..Len(list) : seqs[i] \in Nat

(* Sequences of messages, and of places, are what is asked of them.        *)
LEMMA ListsAreLists ==
  /\ \A list \in Seq(Message) : List(list)
  /\ \A list \in Seq(Message), seqs \in Seq(Nat) :
      Len(seqs) = Len(list) => PlacesOf(list, seqs)
<1>1. ASSUME NEW list \in Seq(Message), NEW i \in 1..Len(list) PROVE list[i].id \in Nat
  <2>1. list[i] \in Message
    OBVIOUS
  <2> QED BY <2>1 DEF Message
<1> QED BY <1>1 DEF List, PlacesOf

-----------------------------------------------------------------------------
(* A list that grows: messages join it at its end, and some of those that  *)
(* waited are given places.                                                *)
Fresh(i, list, seqs) == i > Len(list) \/ seqs[i] = Null

(* The new rows are those of the messages that are given places, in the    *)
(* order of the list.                                                      *)
Grows(list, seqs, table, list2, seqs2, table2) ==
    /\ Len(list) <= Len(list2) /\ Len(seqs2) = Len(list2) /\ Len(table) <= Len(table2)
    /\ \A i \in 1..Len(list) : list2[i] = list[i]
    /\ \A s \in 1..Len(table) : table2[s] = table[s]
    /\ \A i \in 1..Len(list) : seqs[i] # Null => seqs2[i] = seqs[i]
    /\ \A i \in 1..Len(list2) : Fresh(i, list, seqs) /\ seqs2[i] # Null =>
        /\ seqs2[i] \in (Len(table) + 1)..Len(table2)
        /\ table2[seqs2[i]] = list2[i]
        /\ list2[i].id # 0
    /\ \A s \in (Len(table) + 1)..Len(table2) : \E i \in 1..Len(list2) : seqs2[i] = s
    /\ \A i, j \in 1..Len(list2) :
        /\ i < j /\ Fresh(i, list, seqs) /\ Fresh(j, list, seqs)
        /\ seqs2[i] # Null /\ seqs2[j] # Null
        => seqs2[i] < seqs2[j]

(* Each message that joins is a new one.                                   *)
NewIds(list, list2, n) ==
    \A i \in (Len(list) + 1)..Len(list2) : list2[i].id = n + (i - Len(list))

(* A list that grows by new messages still agrees with the table.          *)
LEMMA GrownAgrees ==
  ASSUME NEW list, NEW seqs, NEW table, NEW list2, NEW seqs2, NEW table2,
         List(list), PlacesOf(list, seqs), List(table),
         List(list2), PlacesOf(list2, seqs2), List(table2),
         NEW n \in Nat,
         Agrees(list, seqs, table, n), Stores(table, n),
         Grows(list, seqs, table, list2, seqs2, table2), NewIds(list, list2, n)
  PROVE  LET m == n + (Len(list2) - Len(list)) IN
         Agrees(list2, seqs2, table2, m) /\ Stores(table2, m)
<1> DEFINE m == n + (Len(list2) - Len(list))
<1> USE DEF Null, Fresh, List, PlacesOf
<1>1. /\ Len(list) \in Nat /\ Len(list2) \in Nat /\ Len(table) \in Nat /\ Len(table2) \in Nat
      /\ Len(seqs) = Len(list) /\ Len(seqs2) = Len(list2) /\ Len(list) <= Len(list2)
      /\ Len(table) <= Len(table2)
      /\ m \in Nat /\ n <= m
  BY DEF Agrees, Grows
<1>2. \A i \in 1..Len(list2) : list2[i].id \in Nat /\ seqs2[i] \in Nat
  OBVIOUS
<1>3. \A i \in 1..Len(list) : list2[i] = list[i] /\ list[i].id \in Nat /\ list[i].id <= n
  BY <1>1, <1>2 DEF Agrees, Grows
<1>4. \A i \in (Len(list) + 1)..Len(list2) : list2[i].id = n + (i - Len(list))
  BY DEF NewIds
<1>5. \A i \in 1..Len(list2) : list2[i].id <= m
  <2> TAKE i \in 1..Len(list2)
  <2>1. CASE i \in 1..Len(list)
    <3>1. list2[i].id = list[i].id /\ list[i].id \in Nat /\ list[i].id <= n
      BY <1>3, <2>1
    <3> HIDE DEF m
    <3> QED BY <1>1, <3>1
  <2>2. CASE i \notin 1..Len(list)
    <3>1. i \in (Len(list) + 1)..Len(list2)
      BY <1>1, <2>2
    <3>2. list2[i].id = n + (i - Len(list))
      BY <1>4, <3>1
    <3> QED BY <1>1, <3>1, <3>2
  <2> QED BY <2>1, <2>2
<1>6. \A i, j \in 1..Len(list2) : list2[i].id = list2[j].id => i = j
  <2> TAKE i, j \in 1..Len(list2)
  <2>1. CASE i <= Len(list) /\ j <= Len(list)
    BY <2>1, <1>1, <1>3 DEF Agrees
  <2>2. CASE i > Len(list) /\ j > Len(list)
    <3>0. i \in (Len(list) + 1)..Len(list2) /\ j \in (Len(list) + 1)..Len(list2)
      BY <2>2, <1>1
    <3>1. list2[i].id = n + (i - Len(list)) /\ list2[j].id = n + (j - Len(list))
      BY <3>0, <1>4
    <3> QED BY <3>1, <1>1
  <2>3. ASSUME NEW k \in 1..Len(list), NEW l \in (Len(list) + 1)..Len(list2)
        PROVE  list2[k].id # list2[l].id
    <3>1. list2[l].id = n + (l - Len(list))
      BY <1>4
    <3>2. list2[k].id <= n /\ list2[k].id \in Nat
      BY <1>3
    <3> QED BY <3>1, <3>2, <1>1
  <2> QED BY <2>1, <2>2, <2>3, <1>1
<1>7. ASSUME NEW i \in 1..Len(list2), seqs2[i] # Null
      PROVE  seqs2[i] \in 1..Len(table2) /\ table2[seqs2[i]] = list2[i]
  <2>1. CASE Fresh(i, list, seqs)
    BY <1>7, <2>1, <1>1 DEF Grows
  <2>2. CASE ~Fresh(i, list, seqs)
    <3>1. i \in 1..Len(list) /\ seqs[i] # Null /\ seqs2[i] = seqs[i]
      BY <2>2, <1>1 DEF Grows
    <3>2. seqs[i] \in 1..Len(table) /\ table[seqs[i]] = list[i]
      BY <3>1 DEF Agrees
    <3>3. table2[seqs[i]] = table[seqs[i]]
      BY <3>2 DEF Grows
    <3>4. seqs2[i] \in 1..Len(table2)
      BY <1>1, <3>1, <3>2
    <3>5. list2[i] = list[i]
      BY <1>3, <3>1
    <3> QED BY <3>1, <3>2, <3>3, <3>4, <3>5
  <2> QED BY <2>1, <2>2
(* A new row is that of a message of the list, which has one place.        *)
<1>8. ASSUME NEW s \in (Len(table) + 1)..Len(table2)
      PROVE  \E i \in 1..Len(list2) : seqs2[i] = s /\ table2[s] = list2[i] /\ list2[i].id # 0
                                      /\ Fresh(i, list, seqs)
  <2>1. PICK i \in 1..Len(list2) : seqs2[i] = s
    BY <1>8 DEF Grows
  <2>2. Fresh(i, list, seqs)
    <3> SUFFICES ASSUME i \in 1..Len(list), seqs[i] # Null PROVE FALSE
      BY <1>1
    <3>1. seqs2[i] = seqs[i] /\ seqs[i] \in 1..Len(table)
      BY DEF Grows, Agrees
    <3> QED BY <2>1, <3>1, <1>1, <1>8
  <2>3. seqs2[i] # Null
    BY <1>8, <2>1, <1>1
  <2> QED BY <2>1, <2>2, <2>3 DEF Grows
<1>9. \A s \in 1..Len(table) : table2[s] = table[s] /\ table[s].id \in 1..n
  BY DEF Grows, Stores
<1>10. ASSUME NEW i \in 1..Len(list2), NEW s \in 1..Len(table2), seqs2[i] = Null
       PROVE  table2[s].id # list2[i].id
  <2>1. CASE s > Len(table)
    <3>1. PICK j \in 1..Len(list2) : seqs2[j] = s /\ table2[s] = list2[j]
      BY <2>1, <1>1, <1>8
    <3> QED BY <1>10, <3>1, <1>6, <1>1
  <2>2. CASE s <= Len(table) /\ i > Len(list)
    <3>0. i \in (Len(list) + 1)..Len(list2)
      BY <2>2, <1>1
    <3>1. list2[i].id = n + (i - Len(list))
      BY <3>0, <1>4
    <3>2. table2[s].id \in 1..n
      BY <2>2, <1>1, <1>9
    <3> QED BY <3>1, <3>2, <2>2, <1>1
  <2>3. CASE s <= Len(table) /\ i <= Len(list)
    <3>1. seqs[i] = Null
      BY <1>10, <2>3, <1>1 DEF Grows
    <3>2. table[s].id # list[i].id
      BY <3>1, <2>3, <1>1 DEF Agrees
    <3> QED BY <3>2, <2>3, <1>1, <1>3, <1>9
  <2> QED BY <2>1, <2>2, <2>3, <1>1
<1>11. \A s \in 1..Len(table2) : table2[s].id \in 1..m
  <2> TAKE s \in 1..Len(table2)
  <2>1. CASE s > Len(table)
    <3>1. PICK j \in 1..Len(list2) : table2[s] = list2[j] /\ list2[j].id # 0
      BY <2>1, <1>1, <1>8
    <3> QED BY <3>1, <1>1, <1>2, <1>5
  <2>2. CASE s <= Len(table)
    <3>1. table2[s].id \in 1..n
      BY <2>2, <1>1, <1>9
    <3> QED BY <3>1, <1>1
  <2> QED BY <2>1, <2>2, <1>1
<1>12. \A s, t \in 1..Len(table2) : table2[s].id = table2[t].id => s = t
  <2>1. ASSUME NEW s \in 1..Len(table), NEW t \in (Len(table) + 1)..Len(table2)
        PROVE  table2[s].id # table2[t].id
    <3>1. PICK j \in 1..Len(list2) : seqs2[j] = t /\ table2[t] = list2[j] /\ Fresh(j, list, seqs)
      BY <1>8
    <3>2. CASE j > Len(list)
      <4>1. list2[j].id = n + (j - Len(list))
        BY <3>2, <1>1, <1>4
      <4>2. table2[s].id \in 1..n
        BY <1>1, <1>9
      <4> QED BY <3>1, <3>2, <4>1, <4>2, <1>1
    <3>3. CASE j \in 1..Len(list) /\ seqs[j] = Null
      <4>1. table[s].id # list[j].id
        BY <3>3 DEF Agrees
      <4> QED BY <4>1, <3>1, <3>3, <1>3, <1>9
    <3> QED BY <3>1, <3>2, <3>3, <1>1
  <2>2. ASSUME NEW s \in (Len(table) + 1)..Len(table2), NEW t \in (Len(table) + 1)..Len(table2),
               table2[s].id = table2[t].id
        PROVE  s = t
    <3>1. PICK i \in 1..Len(list2) : seqs2[i] = s /\ table2[s] = list2[i]
      BY <1>8
    <3>2. PICK j \in 1..Len(list2) : seqs2[j] = t /\ table2[t] = list2[j]
      BY <1>8
    <3> QED BY <2>2, <3>1, <3>2, <1>6
  <2>3. ASSUME NEW s \in 1..Len(table), NEW t \in 1..Len(table), table2[s].id = table2[t].id
        PROVE  s = t
    <3>1. table[s].id = table[t].id
      BY <2>3, <1>9
    <3> QED BY <3>1 DEF Stores
  <2>4. \A s \in 1..Len(table2) : s \in 1..Len(table) \/ s \in (Len(table) + 1)..Len(table2)
    BY <1>1
  <2> QED BY <2>1, <2>2, <2>3, <2>4
<1> HIDE DEF m
<1>13. Agrees(list2, seqs2, table2, m)
  BY <1>1, <1>5, <1>6, <1>7, <1>10 DEF Agrees
<1>14. Stores(table2, m)
  BY <1>11, <1>12 DEF Stores
<1> QED BY <1>13, <1>14 DEF m

(* It still ascends and shows every row, if what is given a place has no   *)
(* place behind it yet.                                                    *)
LEMMA GrownShows ==
  ASSUME NEW list, NEW seqs, NEW table, NEW list2, NEW seqs2, NEW table2,
         List(list), PlacesOf(list, seqs), List(table),
         List(list2), PlacesOf(list2, seqs2), List(table2),
         NEW n \in Nat, NEW first \in Nat \ {0}, NEW gone,
         first <= Len(table) + 1,
         Agrees(list, seqs, table, n), Ascends(seqs), Shows(seqs, table, first, gone),
         Grows(list, seqs, table, list2, seqs2, table2),
         \A i, j \in 1..Len(list) : i < j /\ seqs[i] = Null /\ seqs[j] # Null => seqs2[i] = Null
  PROVE  Ascends(seqs2) /\ Shows(seqs2, table2, first, gone)
<1> USE DEF Null, Fresh, List, PlacesOf
<1>1. /\ Len(list) \in Nat /\ Len(list2) \in Nat /\ Len(table) \in Nat /\ Len(table2) \in Nat
      /\ Len(seqs) = Len(list) /\ Len(seqs2) = Len(list2) /\ Len(list) <= Len(list2)
      /\ Len(table) <= Len(table2)
  BY DEF Agrees, Grows
<1>2. \A i \in 1..Len(list2) : seqs2[i] \in Nat
  BY <1>1
<1>3. \A i \in 1..Len(list) : seqs[i] # Null => seqs2[i] = seqs[i] /\ seqs[i] \in 1..Len(table)
  BY DEF Grows, Agrees
<1>4. \A i \in 1..Len(list2) : Fresh(i, list, seqs) /\ seqs2[i] # Null =>
                               seqs2[i] \in (Len(table) + 1)..Len(table2)
  BY DEF Grows
<1>5. ASSUME NEW i \in 1..Len(seqs2), NEW j \in 1..Len(seqs2), i < j,
             seqs2[i] # Null, seqs2[j] # Null
      PROVE  seqs2[i] < seqs2[j]
  <2>0. i \in 1..Len(list2) /\ j \in 1..Len(list2)
    BY <1>1
  <2>1. CASE Fresh(i, list, seqs) /\ Fresh(j, list, seqs)
    BY <1>5, <2>0, <2>1 DEF Grows
  <2>2. CASE Fresh(i, list, seqs) /\ ~Fresh(j, list, seqs)
    <3>1. i \in 1..Len(list) /\ j \in 1..Len(list) /\ seqs[i] = Null /\ seqs[j] # Null
      BY <1>1, <1>5, <2>0, <2>2
    <3> QED BY <1>5, <3>1
  <2>3. CASE ~Fresh(i, list, seqs) /\ Fresh(j, list, seqs)
    <3>1. seqs2[i] \in 1..Len(table)
      <4>1. i \in 1..Len(list) /\ seqs[i] # Null
        BY <2>3, <2>0, <1>1
      <4> QED BY <4>1, <1>3
    <3>2. seqs2[j] \in (Len(table) + 1)..Len(table2)
      BY <1>5, <2>0, <2>3, <1>4
    <3> QED BY <1>1, <3>1, <3>2
  <2>4. CASE ~Fresh(i, list, seqs) /\ ~Fresh(j, list, seqs)
    <3>1. i \in 1..Len(list) /\ j \in 1..Len(list) /\ seqs[i] # Null /\ seqs[j] # Null
      BY <1>1, <2>0, <2>4
    <3>2. seqs[i] < seqs[j]
      BY <1>1, <1>5, <3>1 DEF Ascends
    <3> QED BY <1>3, <3>1, <3>2
  <2> QED BY <2>1, <2>2, <2>3, <2>4
<1>6. ASSUME NEW i \in 1..Len(seqs2), seqs2[i] # Null PROVE seqs2[i] >= first
  <2>1. CASE Fresh(i, list, seqs)
    BY <1>1, <1>4, <1>6, <2>1
  <2>2. CASE ~Fresh(i, list, seqs)
    <3>1. i \in 1..Len(list) /\ seqs[i] # Null
      BY <1>1, <2>2
    <3>2. seqs[i] >= first
      BY <1>1, <3>1 DEF Shows
    <3> QED BY <1>3, <3>1, <3>2
  <2> QED BY <2>1, <2>2
<1>7. ASSUME NEW s \in first..Len(table2)
      PROVE  table2[s].id \in gone \/ \E i \in 1..Len(seqs2) : seqs2[i] = s
  <2>1. CASE s \in (Len(table) + 1)..Len(table2)
    BY <1>1, <2>1 DEF Grows
  <2>2. CASE s \in first..Len(table)
    <3>1. CASE table[s].id \in gone
      BY <1>1, <2>2, <3>1 DEF Grows
    <3>2. CASE \E i \in 1..Len(seqs) : seqs[i] = s
      <4>1. PICK i \in 1..Len(list) : seqs[i] = s
        BY <3>2, <1>1
      <4> QED BY <4>1, <2>2, <1>1, <1>3
    <3> QED BY <2>2, <3>1, <3>2 DEF Shows
  <2> QED BY <1>1, <2>1, <2>2
<1>8. Ascends(seqs2)
  BY <1>5 DEF Ascends
<1>9. Shows(seqs2, table2, first, gone)
  BY <1>6, <1>7 DEF Shows
<1> QED BY <1>8, <1>9

-----------------------------------------------------------------------------
(* A list from which messages are taken: at[i] is where the i-th was.      *)
Within(list, seqs, list2, seqs2, at) ==
    /\ \A i \in 1..Len(list2) : /\ at[i] \in 1..Len(list)
                                /\ list2[i] = list[at[i]] /\ seqs2[i] = seqs[at[i]]
    /\ \A i, j \in 1..Len(list2) : i < j => at[i] < at[j]

(* What is left of a list agrees with the table as the list did,           *)
LEMMA PartAgrees ==
  ASSUME NEW list, NEW seqs, NEW table, NEW list2, NEW seqs2, NEW at, NEW n,
         List(list), PlacesOf(list, seqs), List(table), List(list2), PlacesOf(list2, seqs2),
         Agrees(list, seqs, table, n), Within(list, seqs, list2, seqs2, at)
  PROVE  Agrees(list2, seqs2, table, n)
<1> USE DEF Null, List, PlacesOf
<1>1. Len(list2) \in Nat /\ Len(seqs2) = Len(list2) /\ Len(list) \in Nat
  OBVIOUS
<1>2. \A i \in 1..Len(list2) : at[i] \in 1..Len(list) /\ list2[i] = list[at[i]] /\ seqs2[i] = seqs[at[i]]
  BY DEF Within
<1>3. \A i \in 1..Len(list2) : list2[i].id <= n
  BY <1>2 DEF Agrees
<1>4. ASSUME NEW i \in 1..Len(list2), NEW j \in 1..Len(list2), list2[i].id = list2[j].id PROVE i = j
  <2>1. at[i] = at[j]
    <3>1. at[i] \in 1..Len(list) /\ at[j] \in 1..Len(list) /\ list[at[i]].id = list[at[j]].id
      BY <1>2, <1>4
    <3> QED BY <3>1 DEF Agrees
  <2>2. (i < j => at[i] < at[j]) /\ (j < i => at[j] < at[i])
    BY DEF Within
  <2>3. at[i] \in Nat /\ at[j] \in Nat /\ i \in Nat /\ j \in Nat
    BY <1>1, <1>2
  <2> QED BY <2>1, <2>2, <2>3
<1>5. ASSUME NEW i \in 1..Len(list2)
      PROVE  /\ seqs2[i] # Null => seqs2[i] \in 1..Len(table) /\ table[seqs2[i]] = list2[i]
             /\ \A s \in 1..Len(table) : seqs2[i] = Null => table[s].id # list2[i].id
  <2>1. at[i] \in 1..Len(list) /\ list2[i] = list[at[i]] /\ seqs2[i] = seqs[at[i]]
    BY <1>2
  <2>2. /\ seqs[at[i]] # Null => seqs[at[i]] \in 1..Len(table) /\ table[seqs[at[i]]] = list[at[i]]
        /\ \A s \in 1..Len(table) : seqs[at[i]] = Null => table[s].id # list[at[i]].id
    BY <2>1 DEF Agrees
  <2> QED BY <2>1, <2>2
<1> QED BY <1>1, <1>3, <1>4, <1>5 DEF Agrees

(* ascends as it did,                                                      *)
LEMMA PartAscends ==
  ASSUME NEW list, NEW seqs, NEW list2, NEW seqs2, NEW at, NEW u,
         List(list), PlacesOf(list, seqs), List(list2), PlacesOf(list2, seqs2),
         Within(list, seqs, list2, seqs2, at)
  PROVE  /\ Ascends(seqs) => Ascends(seqs2)
         /\ NoneBehind(list, seqs, u) => NoneBehind(list2, seqs2, u)
<1> USE DEF Null, List, PlacesOf
<1>1. Len(list2) \in Nat /\ Len(seqs2) = Len(list2) /\ Len(list) \in Nat /\ Len(seqs) = Len(list)
  OBVIOUS
<1>2. \A i \in 1..Len(list2) : at[i] \in 1..Len(list) /\ list2[i] = list[at[i]] /\ seqs2[i] = seqs[at[i]]
  BY DEF Within
<1>3. \A i, j \in 1..Len(list2) : i < j => at[i] < at[j]
  BY DEF Within
<1>4. ASSUME Ascends(seqs) PROVE Ascends(seqs2)
  <2> SUFFICES ASSUME NEW i \in 1..Len(list2), NEW j \in 1..Len(list2), i < j,
                      seqs2[i] # Null, seqs2[j] # Null
               PROVE  seqs2[i] < seqs2[j]
    BY <1>1 DEF Ascends
  <2>1. /\ at[i] \in 1..Len(seqs) /\ at[j] \in 1..Len(seqs) /\ at[i] < at[j]
        /\ seqs2[i] = seqs[at[i]] /\ seqs2[j] = seqs[at[j]]
    BY <1>1, <1>2, <1>3
  <2> QED BY <1>4, <2>1 DEF Ascends
<1>5. ASSUME NoneBehind(list, seqs, u) PROVE NoneBehind(list2, seqs2, u)
  <2> SUFFICES ASSUME NEW k \in 1..Len(list2), NEW i \in 1..Len(list2), NEW j \in 1..Len(list2),
                      list2[k].id = u, k <= i, i < j, seqs2[i] = Null
               PROVE  seqs2[j] = Null
    BY DEF NoneBehind
  <2>1. at[i] < at[j] /\ (k < i => at[k] < at[i])
    BY <1>3
  <2>2. /\ at[k] \in 1..Len(list) /\ at[i] \in 1..Len(list) /\ at[j] \in 1..Len(list)
        /\ list[at[k]].id = u /\ seqs[at[i]] = Null /\ seqs2[j] = seqs[at[j]]
    BY <1>2
  <2>3. at[k] <= at[i]
    <3>1. k \in Nat /\ i \in Nat /\ at[k] \in Nat /\ at[i] \in Nat
      BY <1>1, <2>2
    <3>2. CASE k < i
      BY <2>1, <3>1, <3>2
    <3>3. CASE k = i
      BY <3>1, <3>3
    <3> QED BY <3>1, <3>2, <3>3
  <2> QED BY <1>5, <2>1, <2>2, <2>3 DEF NoneBehind
<1> QED BY <1>4, <1>5

(* and shows the rows that it showed, but for what was taken from it.      *)
LEMMA PartShows ==
  ASSUME NEW list, NEW seqs, NEW table, NEW list2, NEW seqs2, NEW at,
         NEW first \in Nat \ {0}, NEW gone, NEW gone2,
         List(list), PlacesOf(list, seqs), List(table), List(list2), PlacesOf(list2, seqs2),
         Within(list, seqs, list2, seqs2, at), Shows(seqs, table, first, gone),
         gone \subseteq gone2,
         \A j \in 1..Len(list) : \/ \E i \in 1..Len(list2) : at[i] = j
                                 \/ seqs[j] = Null
                                 \/ table[seqs[j]].id \in gone2
  PROVE  Shows(seqs2, table, first, gone2)
<1> USE DEF Null, List, PlacesOf
<1>1. Len(seqs2) = Len(list2) /\ Len(seqs) = Len(list)
  OBVIOUS
<1>2. \A i \in 1..Len(list2) : at[i] \in 1..Len(list) /\ seqs2[i] = seqs[at[i]]
  BY DEF Within
<1>3. \A i \in 1..Len(seqs2) : seqs2[i] # Null => seqs2[i] >= first
  BY <1>1, <1>2 DEF Shows
<1>4. ASSUME NEW s \in first..Len(table), s # Null
      PROVE  table[s].id \in gone2 \/ \E i \in 1..Len(seqs2) : seqs2[i] = s
  <2>1. CASE table[s].id \in gone
    BY <2>1
  <2>2. ASSUME NEW j \in 1..Len(seqs), seqs[j] = s
        PROVE  table[s].id \in gone2 \/ \E i \in 1..Len(seqs2) : seqs2[i] = s
    BY <1>1, <1>2, <1>4, <2>2
  <2> QED BY <2>1, <2>2 DEF Shows
<1>5. \A s \in first..Len(table) : s # Null
  OBVIOUS
<1> QED BY <1>3, <1>4, <1>5 DEF Shows

(* The messages of a list from a place on are shown from the first of them *)
(* that is stored.                                                         *)
LEMMA RestShows ==
  ASSUME NEW list, NEW seqs, NEW table, NEW list2, NEW seqs2, NEW cut \in 1..Len(list),
         NEW n, NEW first \in Nat, NEW gone,
         List(list), PlacesOf(list, seqs), List(table), List(list2), PlacesOf(list2, seqs2),
         Len(list2) = Len(list) - cut + 1,
         \A i \in 1..Len(list2) : seqs2[i] = seqs[i + cut - 1],
         Agrees(list, seqs, table, n), Ascends(seqs), Shows(seqs, table, first, gone),
         NEW k \in 1..Len(list2), seqs2[k] # Null,
         \A i \in 1..Len(list2) : seqs2[i] # Null => k <= i
  PROVE  Shows(seqs2, table, seqs2[k], gone)
<1> USE DEF Null, List, PlacesOf
<1>1. /\ Len(list2) \in Nat /\ Len(list) \in Nat /\ Len(seqs2) = Len(list2) /\ Len(seqs) = Len(list)
      /\ cut \in Nat /\ k \in Nat
  OBVIOUS
<1>2. \A i \in 1..Len(list2) : i + cut - 1 \in 1..Len(list) /\ seqs2[i] = seqs[i + cut - 1]
  BY <1>1
<1>3. \A i \in 1..Len(list2) : i < k => seqs2[i] = Null
  BY <1>1
<1>4. ASSUME NEW i \in 1..Len(seqs2), seqs2[i] # Null PROVE seqs2[i] >= seqs2[k]
  <2>1. i \in 1..Len(list2) /\ k <= i /\ seqs2[i] \in Nat /\ seqs2[k] \in Nat
    BY <1>1, <1>4
  <2>2. CASE i = k
    BY <2>1, <2>2
  <2>3. CASE k < i
    <3>1. k + cut - 1 < i + cut - 1
      BY <1>1, <2>1, <2>3
    <3>2. seqs[k + cut - 1] < seqs[i + cut - 1]
      BY <1>1, <1>2, <1>4, <2>1, <3>1 DEF Ascends
    <3>3. seqs2[i] = seqs[i + cut - 1] /\ seqs2[k] = seqs[k + cut - 1]
      BY <1>2, <2>1
    <3>4. seqs2[k] < seqs2[i]
      BY <3>2, <3>3
    <3> QED BY <2>1, <3>4
  <2> QED BY <2>1, <2>2, <2>3, <1>1
<1>5. ASSUME NEW s \in seqs2[k]..Len(table)
      PROVE  table[s].id \in gone \/ \E i \in 1..Len(seqs2) : seqs2[i] = s
  <2>0. seqs2[k] \in Nat /\ seqs2[k] >= first /\ Len(table) \in Nat /\ s # Null
    <3>1. k + cut - 1 \in 1..Len(seqs) /\ seqs2[k] = seqs[k + cut - 1]
      BY <1>1, <1>2
    <3>2. seqs2[k] >= first
      BY <3>1 DEF Shows
    <3>3. seqs2[k] \in Nat /\ Len(table) \in Nat
      BY <1>1
    <3> QED BY <3>2, <3>3
  <2>1. s \in first..Len(table)
    BY <2>0
  <2>2. CASE table[s].id \in gone
    BY <2>2
  <2>3. ASSUME NEW j \in 1..Len(list), seqs[j] = s
        PROVE  \E i \in 1..Len(seqs2) : seqs2[i] = s
    <3>1. CASE j >= cut
      <4>1. j - cut + 1 \in 1..Len(list2) /\ (j - cut + 1) + cut - 1 = j
        BY <1>1, <3>1
      <4> QED BY <4>1, <1>1, <1>2, <2>3
    <3>2. CASE j < cut
      <4>1. j < k + cut - 1 /\ k + cut - 1 \in 1..Len(seqs) /\ seqs[k + cut - 1] = seqs2[k]
        BY <1>1, <1>2, <3>2
      <4>2. seqs[j] < seqs2[k]
        BY <1>1, <2>0, <2>3, <4>1 DEF Ascends
      <4> QED BY <4>2, <2>0, <2>3
    <3> QED BY <1>1, <3>1, <3>2
  <2> QED BY <1>1, <2>1, <2>2, <2>3 DEF Shows
<1> QED BY <1>4, <1>5 DEF Shows

-----------------------------------------------------------------------------
(* A message that is rewritten where it is, in the list and in the table.  *)
LEMMA RewrittenAgrees ==
  ASSUME NEW list, NEW seqs, NEW table, NEW list2, NEW table2, NEW n,
         Len(list2) = Len(list), Len(table2) = Len(table),
         \A i \in 1..Len(list) : list2[i].id = list[i].id,
         \A s \in 1..Len(table) : table2[s].id = table[s].id,
         \A i \in 1..Len(list) : seqs[i] # Null => table2[seqs[i]] = list2[i],
         Agrees(list, seqs, table, n), Stores(table, n)
  PROVE  Agrees(list2, seqs, table2, n) /\ Stores(table2, n)
<1>1. Stores(table2, n)
  BY DEF Stores
<1>2. /\ Len(seqs) = Len(list2)
      /\ \A i \in 1..Len(list2) : list2[i].id <= n
      /\ \A i, j \in 1..Len(list2) : list2[i].id = list2[j].id => i = j
  BY DEF Agrees
<1>3. \A i \in 1..Len(list2) : seqs[i] # Null => seqs[i] \in 1..Len(table2) /\ table2[seqs[i]] = list2[i]
  BY DEF Agrees
<1>4. \A i \in 1..Len(list2), s \in 1..Len(table2) : seqs[i] = Null => table2[s].id # list2[i].id
  BY DEF Agrees
<1> QED BY <1>1, <1>2, <1>3, <1>4 DEF Agrees

(* It shows the same rows, which are the same messages.                    *)
LEMMA RewrittenShows ==
  ASSUME NEW list, NEW seqs, NEW table, NEW list2, NEW table2, NEW first \in Nat \ {0}, NEW gone, NEW u,
         Len(list2) = Len(list), Len(table2) = Len(table),
         \A i \in 1..Len(list) : list2[i].id = list[i].id,
         \A s \in 1..Len(table) : table2[s].id = table[s].id
  PROVE  /\ Shows(seqs, table, first, gone) => Shows(seqs, table2, first, gone)
         /\ NoneBehind(list, seqs, u) => NoneBehind(list2, seqs, u)
<1>1. \A s \in first..Len(table) : s \in 1..Len(table)
  OBVIOUS
<1>2. Shows(seqs, table, first, gone) => Shows(seqs, table2, first, gone)
  BY <1>1 DEF Shows
<1>3. NoneBehind(list, seqs, u) => NoneBehind(list2, seqs, u)
  BY DEF NoneBehind
<1> QED BY <1>2, <1>3

-----------------------------------------------------------------------------
(* The session: its types, and what its operations do to the lists.        *)

(* Where a turn is; it is active once its message is in the lists.         *)
Phase == {"idle", "asked", "before", "between", "round", "gate", "hook", "summary"}

Active == phase \notin {"idle", "asked"}

(* The types, and that what is named lies within the lists.                *)
TranscriptTypes ==
    /\ messages \in Seq(Message) /\ messageSeqs \in Seq(Nat) /\ rows \in Seq(Message)
    /\ firstKeptSeq \in Nat /\ firstKeptSeq <= Len(rows) + 1
    /\ turns \in Nat /\ ids \in Nat /\ user \in Nat /\ user <= ids
    /\ phase \in Phase
    /\ prepared \in [kept : Seq(Message), index : Nat, keptSeqs : Seq(Nat), firstKeptSeq : Nat]
    /\ prepared.firstKeptSeq <= Len(rows) + 1
    /\ compactions \in Nat /\ ended \in {"none", "declined", "stopped", "done"}
    /\ raced \subseteq {"compaction", "pending"} /\ dropped \subseteq Nat
    /\ Active => user # 0

(* What is said is a message, a new one.                                   *)
LEMMA SaysMessage ==
  ASSUME TranscriptTypes, NEW role \in Role, NEW k \in Nat
  PROVE  /\ Says(role, k) \in Message /\ Says(role, k).id = ids + k
         /\ [Says(role, k) EXCEPT !.verdicts = {turns}] \in Message
         /\ [Says(role, k) EXCEPT !.verdicts = {turns}].id = ids + k
<1>1. turns \in Nat /\ ids + k \in Nat /\ {} \in SUBSET Nat /\ {turns} \in SUBSET Nat
  BY DEF TranscriptTypes
<1>2. Says(role, k) = [id |-> ids + k, role |-> role, turn |-> turns, verdicts |-> {}]
  BY DEF Says
<1>3. [Says(role, k) EXCEPT !.verdicts = {turns}]
      = [id |-> ids + k, role |-> role, turn |-> turns, verdicts |-> {turns}]
  BY <1>2
<1> QED BY <1>1, <1>2, <1>3 DEF Message

(* The lists and the table are sequences, and what waits are places in     *)
(* them.                                                                   *)
LEMMA PendingArePlaces ==
  ASSUME TranscriptTypes
  PROVE  /\ DOMAIN messages = 1..Len(messages) /\ Len(messages) \in Nat
         /\ DOMAIN messageSeqs = 1..Len(messageSeqs) /\ Len(messageSeqs) \in Nat
         /\ DOMAIN rows = 1..Len(rows) /\ Len(rows) \in Nat
         /\ Pending \in SUBSET (1..Len(messages)) /\ Pending \in SUBSET Nat
         /\ IsFiniteSet(Pending) /\ Cardinality(Pending) \in Nat
<1>1. /\ DOMAIN messages = 1..Len(messages) /\ Len(messages) \in Nat
      /\ DOMAIN messageSeqs = 1..Len(messageSeqs) /\ Len(messageSeqs) \in Nat
      /\ DOMAIN rows = 1..Len(rows) /\ Len(rows) \in Nat
  BY DEF TranscriptTypes
<1>2. Pending \in SUBSET (1..Len(messages))
  BY <1>1 DEF Pending
<1>3. Pending \in SUBSET Nat
  BY <1>1, <1>2
<1>4. IsFiniteSet(1..Len(messages))
  BY <1>1, FS_Interval
<1>5. IsFiniteSet(Pending)
  BY <1>2, <1>4, FS_Subset
<1>6. Cardinality(Pending) \in Nat
  BY <1>5, FS_CardinalityType
<1> QED BY <1>1, <1>2, <1>3, <1>5, <1>6

(* A run of places is a list of numbers, one after another.                *)
LEMMA PlacesTyped ==
  ASSUME NEW first \in Nat, NEW n \in Nat
  PROVE  /\ Places(first, n) \in Seq(Nat) /\ Len(Places(first, n)) = n
         /\ DOMAIN Places(first, n) = 1..n
         /\ \A k \in 1..n : Places(first, n)[k] = first + k - 1
BY DEF Places

(* A list of messages that all wait.                                       *)
LEMMA NullsTyped ==
  ASSUME NEW list \in Seq(Message)
  PROVE  LET nulls == [k \in DOMAIN list |-> Null] IN
         /\ nulls \in Seq(Nat) /\ Len(nulls) = Len(list)
         /\ \A k \in 1..Len(list) : nulls[k] = Null
BY DEF Null

(* What appendCompletedTurn leaves in the two lists and in the table.      *)
LEMMA AppendedIs ==
  ASSUME TranscriptTypes, NEW new \in Seq(Message), NEW pushed \in Seq(Message),
         AppendCompletedTurn(new, pushed)
  PROVE  LET c == Cardinality(Pending) IN
         /\ rows' \in Seq(Message) /\ Len(rows') = Len(rows) + c + Len(new)
         /\ \A s \in 1..Len(rows) : rows'[s] = rows[s]
         /\ \A k \in 1..c : rows'[Len(rows) + k] = messages[Nth(k, Pending)]
         /\ \A k \in 1..Len(new) : rows'[Len(rows) + c + k] = new[k]
         /\ messages' \in Seq(Message) /\ Len(messages') = Len(messages) + Len(new) + Len(pushed)
         /\ \A i \in 1..Len(messages) : messages'[i] = messages[i]
         /\ \A k \in 1..Len(new) : messages'[Len(messages) + k] = new[k]
         /\ \A k \in 1..Len(pushed) : messages'[Len(messages) + Len(new) + k] = pushed[k]
         /\ messageSeqs' \in Seq(Nat)
         /\ Len(messageSeqs') = Len(messageSeqs) + Len(new) + Len(pushed)
         /\ \A i \in 1..Len(messageSeqs) :
              messageSeqs'[i] = IF i \in Pending THEN Len(rows) + Rank(i, Pending) ELSE messageSeqs[i]
         /\ \A k \in 1..Len(new) : messageSeqs'[Len(messageSeqs) + k] = Len(rows) + c + k
         /\ \A k \in 1..Len(pushed) : messageSeqs'[Len(messageSeqs) + Len(new) + k] = Null
<1> DEFINE c == Cardinality(Pending)
           pending == [k \in 1..c |-> messages[Nth(k, Pending)]]
           seqs == [i \in DOMAIN messageSeqs |-> IF i \in Pending THEN Len(rows) + Rank(i, Pending)
                                                 ELSE messageSeqs[i]]
           stored == Places(Len(rows) + Len(pending) + 1, Len(new))
           waits == [k \in DOMAIN pushed |-> Null]
<1>1. /\ DOMAIN messageSeqs = 1..Len(messageSeqs) /\ Len(messageSeqs) \in Nat
      /\ Len(messages) \in Nat /\ Len(rows) \in Nat /\ c \in Nat
      /\ Len(new) \in Nat /\ Len(pushed) \in Nat
      /\ Pending \in SUBSET (1..Len(messages)) /\ Pending \in SUBSET Nat /\ IsFiniteSet(Pending)
  BY PendingArePlaces
<1>2. messages \in Seq(Message) /\ messageSeqs \in Seq(Nat) /\ rows \in Seq(Message)
  BY DEF TranscriptTypes
<1>3. \A k \in 1..c : Nth(k, Pending) \in 1..Len(messages)
  BY <1>1, NthIsRanked
<1>4. pending \in Seq(Message) /\ Len(pending) = c
      /\ \A k \in 1..c : pending[k] = messages[Nth(k, Pending)]
  <2>1. \A k \in 1..c : messages[Nth(k, Pending)] \in Message
    BY <1>2, <1>3
  <2> HIDE DEF c
  <2> QED BY <1>1, <2>1
<1>5. /\ seqs \in Seq(Nat) /\ Len(seqs) = Len(messageSeqs)
      /\ \A i \in 1..Len(messageSeqs) :
           seqs[i] = IF i \in Pending THEN Len(rows) + Rank(i, Pending) ELSE messageSeqs[i]
  <2>1. \A i \in Pending : Rank(i, Pending) \in 1..c
    BY <1>1, RankCounts
  <2>2. \A i \in 1..Len(messageSeqs) :
          (IF i \in Pending THEN Len(rows) + Rank(i, Pending) ELSE messageSeqs[i]) \in Nat
    BY <1>1, <1>2, <2>1
  <2> QED BY <1>1, <2>2
<1>6. /\ stored \in Seq(Nat) /\ Len(stored) = Len(new)
      /\ \A k \in 1..Len(new) : stored[k] = Len(rows) + c + k
  <2> HIDE DEF c, pending
  <2>1. Len(rows) + Len(pending) + 1 \in Nat
    BY <1>1, <1>4
  <2>2. /\ stored \in Seq(Nat) /\ Len(stored) = Len(new)
        /\ \A k \in 1..Len(new) : stored[k] = Len(rows) + Len(pending) + 1 + k - 1
    BY <1>1, <2>1, PlacesTyped
  <2> HIDE DEF stored
  <2> QED BY <1>1, <1>4, <2>2
<1>7. waits \in Seq(Nat) /\ Len(waits) = Len(pushed) /\ \A k \in 1..Len(pushed) : waits[k] = Null
  BY NullsTyped
<1>8. /\ rows' = rows \o pending \o new /\ messages' = messages \o new \o pushed
      /\ messageSeqs' = seqs \o stored \o waits
  BY DEF AppendCompletedTurn
<1> HIDE DEF c, pending, seqs, stored, waits
<1>9. /\ rows' \in Seq(Message) /\ Len(rows') = Len(rows) + c + Len(new)
      /\ \A s \in 1..Len(rows) : rows'[s] = rows[s]
      /\ \A k \in 1..c : rows'[Len(rows) + k] = messages[Nth(k, Pending)]
      /\ \A k \in 1..Len(new) : rows'[Len(rows) + c + k] = new[k]
  <2>0. rows \in Seq(Message) /\ pending \in Seq(Message)
    BY <1>2, <1>4
  <2>1. /\ rows \o pending \o new \in Seq(Message)
        /\ Len(rows \o pending \o new) = Len(rows) + Len(pending) + Len(new)
        /\ \A j \in 1..Len(rows) : (rows \o pending \o new)[j] = rows[j]
        /\ \A j \in 1..Len(pending) : (rows \o pending \o new)[Len(rows) + j] = pending[j]
        /\ \A j \in 1..Len(new) : (rows \o pending \o new)[Len(rows) + Len(pending) + j] = new[j]
    BY <2>0
  <2>2. rows' = rows \o pending \o new /\ Len(pending) = c
    BY <1>4, <1>8
  <2>3. \A k \in 1..c : pending[k] = messages[Nth(k, Pending)]
    BY <1>4
  <2>4. \A k \in 1..c : rows'[Len(rows) + k] = messages[Nth(k, Pending)]
    BY <2>1, <2>2, <2>3
  <2> QED BY <2>1, <2>2, <2>4
<1>10. /\ messages' \in Seq(Message) /\ Len(messages') = Len(messages) + Len(new) + Len(pushed)
       /\ \A i \in 1..Len(messages) : messages'[i] = messages[i]
       /\ \A k \in 1..Len(new) : messages'[Len(messages) + k] = new[k]
       /\ \A k \in 1..Len(pushed) : messages'[Len(messages) + Len(new) + k] = pushed[k]
  <2>1. /\ messages \o new \o pushed \in Seq(Message)
        /\ Len(messages \o new \o pushed) = Len(messages) + Len(new) + Len(pushed)
        /\ \A j \in 1..Len(messages) : (messages \o new \o pushed)[j] = messages[j]
        /\ \A j \in 1..Len(new) : (messages \o new \o pushed)[Len(messages) + j] = new[j]
        /\ \A j \in 1..Len(pushed) :
             (messages \o new \o pushed)[Len(messages) + Len(new) + j] = pushed[j]
    BY <1>2
  <2> QED BY <2>1, <1>8
<1>11. /\ messageSeqs' \in Seq(Nat)
       /\ Len(messageSeqs') = Len(messageSeqs) + Len(new) + Len(pushed)
       /\ \A i \in 1..Len(messageSeqs) : messageSeqs'[i] = seqs[i]
       /\ \A k \in 1..Len(new) : messageSeqs'[Len(messageSeqs) + k] = stored[k]
       /\ \A k \in 1..Len(pushed) : messageSeqs'[Len(messageSeqs) + Len(new) + k] = waits[k]
  <2>0. seqs \in Seq(Nat) /\ stored \in Seq(Nat) /\ waits \in Seq(Nat)
    BY <1>5, <1>6, <1>7
  <2>1. /\ seqs \o stored \o waits \in Seq(Nat)
        /\ Len(seqs \o stored \o waits) = Len(seqs) + Len(stored) + Len(waits)
        /\ \A j \in 1..Len(seqs) : (seqs \o stored \o waits)[j] = seqs[j]
        /\ \A j \in 1..Len(stored) : (seqs \o stored \o waits)[Len(seqs) + j] = stored[j]
        /\ \A j \in 1..Len(waits) : (seqs \o stored \o waits)[Len(seqs) + Len(stored) + j] = waits[j]
    BY <2>0
  <2> QED BY <2>1, <1>5, <1>6, <1>7, <1>8
<1> QED BY <1>5, <1>6, <1>7, <1>9, <1>10, <1>11 DEF c

(* What waits is never the summary: it is the turn's message or after it.  *)
NamedByFirst == \A i \in 2..Len(messages) : messages[i].id # 0

(* So the message of the turn is at or before it.                          *)
LEMMA PendingIsOfTurn ==
  ASSUME TranscriptTypes, NEW i \in Pending
  PROVE  /\ i \in 1..Len(messages) /\ messageSeqs[i] = Null /\ user # 0
         /\ \E k \in 1..Len(messages) : messages[k].id = user /\ k <= i
         /\ NamedByFirst => messages[i].id # 0
<1> DEFINE at == {k \in DOMAIN messages : messages[k].id = user}
<1>1. /\ DOMAIN messages = 1..Len(messages) /\ Len(messages) \in Nat
  BY PendingArePlaces
<1>2. /\ i \in DOMAIN messages /\ messageSeqs[i] = Null /\ user # 0
      /\ IndexOf(user, messages) # 0 /\ IndexOf(user, messages) <= i
  <2>1. /\ i \in DOMAIN messages /\ messageSeqs[i] = Null /\ user # 0
        /\ IndexOf(user, messages) # 0 /\ i >= IndexOf(user, messages)
    BY DEF Pending
  <2>2. IndexOf(user, messages) \in Nat
    BY <1>1, <2>1 DEF IndexOf
  <2> QED BY <1>1, <2>1, <2>2
<1>3. PICK k \in at : k = IndexOf(user, messages)
  BY <1>2 DEF IndexOf
<1>4. k \in 1..Len(messages) /\ messages[k].id = user /\ k <= i
  BY <1>1, <1>2, <1>3
<1>5. CASE i = k
  BY <1>1, <1>2, <1>4, <1>5
<1>6. CASE i # k
  <2>1. i \in 2..Len(messages)
    BY <1>1, <1>2, <1>4, <1>6
  <2> QED BY <1>1, <1>2, <1>4, <2>1 DEF NamedByFirst
<1> QED BY <1>5, <1>6

(* The lists grow, and the rows are those of what waited and of what is    *)
(* appended.                                                               *)
LEMMA AppendedGrows ==
  ASSUME TranscriptTypes, Len(messageSeqs) = Len(messages), NamedByFirst,
         NEW new \in Seq(Message), NEW pushed \in Seq(Message),
         AppendCompletedTurn(new, pushed),
         \A k \in 1..Len(new) : new[k].id = ids + k,
         \A k \in 1..Len(pushed) : pushed[k].id = ids + Len(new) + k
  PROVE  /\ Grows(messages, messageSeqs, rows, messages', messageSeqs', rows')
         /\ NewIds(messages, messages', ids)
<1> DEFINE c == Cardinality(Pending)
           n == Len(messages)
           r == Len(rows)
<1>1. /\ n \in Nat /\ r \in Nat /\ c \in Nat /\ Len(messageSeqs) = n /\ ids \in Nat
      /\ Len(new) \in Nat /\ Len(pushed) \in Nat
      /\ Pending \in SUBSET (1..n) /\ Pending \in SUBSET Nat /\ IsFiniteSet(Pending)
  BY PendingArePlaces DEF TranscriptTypes
<1>2. /\ Len(rows') = r + c + Len(new) /\ Len(messages') = n + Len(new) + Len(pushed)
      /\ Len(messageSeqs') = n + Len(new) + Len(pushed)
  BY <1>1, AppendedIs
<1>3. /\ \A s \in 1..r : rows'[s] = rows[s]
      /\ \A k \in 1..c : rows'[r + k] = messages[Nth(k, Pending)]
      /\ \A k \in 1..Len(new) : rows'[r + c + k] = new[k]
  BY AppendedIs
<1>4. /\ \A i \in 1..n : messages'[i] = messages[i]
      /\ \A k \in 1..Len(new) : messages'[n + k] = new[k]
      /\ \A k \in 1..Len(pushed) : messages'[n + Len(new) + k] = pushed[k]
  BY AppendedIs
<1>5. /\ \A i \in 1..n : messageSeqs'[i] = IF i \in Pending THEN r + Rank(i, Pending) ELSE messageSeqs[i]
      /\ \A k \in 1..Len(new) : messageSeqs'[n + k] = r + c + k
      /\ \A k \in 1..Len(pushed) : messageSeqs'[n + Len(new) + k] = Null
  <2>1. /\ \A i \in 1..Len(messageSeqs) :
              messageSeqs'[i] = IF i \in Pending THEN r + Rank(i, Pending) ELSE messageSeqs[i]
        /\ \A k \in 1..Len(new) : messageSeqs'[Len(messageSeqs) + k] = r + c + k
        /\ \A k \in 1..Len(pushed) : messageSeqs'[Len(messageSeqs) + Len(new) + k] = Null
    BY AppendedIs
  <2> QED BY <2>1, <1>1
<1>6. /\ \A i \in Pending : Rank(i, Pending) \in 1..c /\ Nth(Rank(i, Pending), Pending) = i
      /\ \A k \in 1..c : Nth(k, Pending) \in Pending /\ Rank(Nth(k, Pending), Pending) = k
      /\ \A i, j \in Pending : i < j => Rank(i, Pending) < Rank(j, Pending)
  BY <1>1, RankCounts, NthIsRanked
<1>7. \A i \in Pending : messageSeqs[i] = Null /\ messages[i].id # 0
  BY PendingIsOfTurn
<1> HIDE DEF c, n, r
<1> DEFINE F(i) == i > n \/ messageSeqs[i] = Null
<1>8. ASSUME NEW i \in (n + 1)..Len(messages')
      PROVE  \/ \E k \in 1..Len(new) : i = n + k
             \/ \E k \in 1..Len(pushed) : i = n + Len(new) + k
  <2>1. CASE i - n \in 1..Len(new)
    <3>1. i = n + (i - n)
      BY <1>1
    <3> QED BY <2>1, <3>1
  <2>2. CASE i - n - Len(new) \in 1..Len(pushed)
    <3>1. i = n + Len(new) + (i - n - Len(new))
      BY <1>1
    <3> QED BY <2>2, <3>1
  <2> QED BY <2>1, <2>2, <1>1, <1>2
(* Those that are given a place.                                           *)
<1>9. ASSUME NEW i \in 1..Len(messages'), F(i), messageSeqs'[i] # Null
      PROVE  \/ i \in Pending /\ messageSeqs'[i] = r + Rank(i, Pending)
             \/ \E k \in 1..Len(new) : i = n + k /\ messageSeqs'[i] = r + c + k
  <2>1. CASE i \in 1..n
    BY <2>1, <1>1, <1>5, <1>9
  <2>2. CASE i \in (n + 1)..Len(messages')
    BY <2>2, <1>5, <1>8, <1>9
  <2> QED BY <2>1, <2>2, <1>1, <1>2
<1>10. ASSUME NEW i \in 1..Len(messages'), F(i), messageSeqs'[i] # Null
       PROVE  /\ messageSeqs'[i] \in (r + 1)..Len(rows')
              /\ rows'[messageSeqs'[i]] = messages'[i]
              /\ messages'[i].id # 0
  <2>1. CASE i \in Pending /\ messageSeqs'[i] = r + Rank(i, Pending)
    <3>1. Rank(i, Pending) \in 1..c /\ i \in 1..n
      BY <2>1, <1>1, <1>6
    <3>2. rows'[r + Rank(i, Pending)] = messages[i]
      BY <2>1, <3>1, <1>3, <1>6
    <3>3. messages'[i] = messages[i]
      BY <3>1, <1>4
    <3> QED BY <2>1, <3>1, <3>2, <3>3, <1>1, <1>2, <1>7
  <2>2. ASSUME NEW k \in 1..Len(new), i = n + k, messageSeqs'[i] = r + c + k
        PROVE  /\ messageSeqs'[i] \in (r + 1)..Len(rows')
               /\ rows'[messageSeqs'[i]] = messages'[i]
               /\ messages'[i].id # 0
    <3>1. rows'[r + c + k] = new[k] /\ messages'[n + k] = new[k] /\ new[k].id = ids + k
      BY <1>3, <1>4
    <3>2. ids + k # 0 /\ r + c + k \in (r + 1)..Len(rows')
      BY <1>1, <1>2
    <3> QED BY <2>2, <3>1, <3>2
  <2> QED BY <1>9, <1>10, <2>1, <2>2
<1>11. ASSUME NEW s \in (r + 1)..Len(rows') PROVE \E i \in 1..Len(messages') : messageSeqs'[i] = s
  <2>1. CASE s - r \in 1..c
    <3>1. Nth(s - r, Pending) \in Pending /\ Rank(Nth(s - r, Pending), Pending) = s - r
      BY <2>1, <1>6
    <3>2. Nth(s - r, Pending) \in 1..n /\ Nth(s - r, Pending) \in 1..Len(messages')
      <4>1. Nth(s - r, Pending) \in 1..n
        BY <3>1, <1>1
      <4>2. \A i \in 1..n : i \in 1..Len(messages')
        BY <1>1, <1>2
      <4> QED BY <4>1, <4>2
    <3>3. messageSeqs'[Nth(s - r, Pending)] = r + (s - r)
      BY <3>1, <3>2, <1>5
    <3> QED BY <3>2, <3>3, <1>1
  <2>2. CASE s - r - c \in 1..Len(new)
    <3>1. messageSeqs'[n + (s - r - c)] = r + c + (s - r - c)
      BY <2>2, <1>5
    <3>2. r + c + (s - r - c) = s /\ n + (s - r - c) \in 1..Len(messages')
      BY <2>2, <1>1, <1>2
    <3> QED BY <3>1, <3>2
  <2>3. s \in (r + 1)..(r + c + Len(new))
    BY <1>2
  <2>4. s - r \in 1..c \/ s - r - c \in 1..Len(new)
    BY <2>3, <1>1
  <2> QED BY <2>1, <2>2, <2>4
<1>12. ASSUME NEW i \in 1..Len(messages'), NEW j \in 1..Len(messages'), i < j,
              F(i), F(j), messageSeqs'[i] # Null, messageSeqs'[j] # Null
       PROVE  messageSeqs'[i] < messageSeqs'[j]
  <2>1. CASE i \in Pending /\ messageSeqs'[i] = r + Rank(i, Pending)
    <3>1. CASE j \in Pending /\ messageSeqs'[j] = r + Rank(j, Pending)
      <4>1. Rank(i, Pending) < Rank(j, Pending) /\ Rank(i, Pending) \in 1..c /\ Rank(j, Pending) \in 1..c
        BY <2>1, <3>1, <1>6, <1>12
      <4> QED BY <2>1, <3>1, <4>1, <1>1
    <3>2. ASSUME NEW k \in 1..Len(new), messageSeqs'[j] = r + c + k
          PROVE  messageSeqs'[i] < messageSeqs'[j]
      <4>1. Rank(i, Pending) \in 1..c
        BY <2>1, <1>6
      <4> QED BY <2>1, <3>2, <4>1, <1>1
    <3> QED BY <3>1, <3>2, <1>9, <1>12
  <2>2. ASSUME NEW l \in 1..Len(new), i = n + l, messageSeqs'[i] = r + c + l
        PROVE  messageSeqs'[i] < messageSeqs'[j]
    <3>1. j \notin Pending
      <4>1. j > n
        BY <1>1, <1>12, <2>2
      <4> QED BY <4>1, <1>1
    <3>2. PICK k \in 1..Len(new) : j = n + k /\ messageSeqs'[j] = r + c + k
      BY <3>1, <1>9, <1>12
    <3> QED BY <2>2, <3>2, <1>1, <1>12
  <2> QED BY <2>1, <2>2, <1>9, <1>12
<1>13. \A i \in 1..n : messageSeqs[i] # Null => messageSeqs'[i] = messageSeqs[i]
  BY <1>5, <1>7
<1>14. Grows(messages, messageSeqs, rows, messages', messageSeqs', rows')
  <2>1. n <= Len(messages') /\ Len(messageSeqs') = Len(messages') /\ r <= Len(rows')
    BY <1>1, <1>2
  <2> QED BY <2>1, <1>3, <1>4, <1>10, <1>11, <1>12, <1>13 DEF Grows, Fresh, n, r
<1>15. ASSUME NEW i \in (n + 1)..Len(messages') PROVE messages'[i].id = ids + (i - n)
  <2>1. ASSUME NEW k \in 1..Len(new), i = n + k PROVE messages'[i].id = ids + (i - n)
    BY <2>1, <1>1, <1>4
  <2>2. ASSUME NEW k \in 1..Len(pushed), i = n + Len(new) + k PROVE messages'[i].id = ids + (i - n)
    <3>1. messages'[i].id = ids + Len(new) + k
      BY <2>2, <1>4
    <3> QED BY <2>2, <3>1, <1>1
  <2> QED BY <2>1, <2>2, <1>8
<1>16. NewIds(messages, messages', ids)
  BY <1>15 DEF NewIds, n
<1> QED BY <1>14, <1>16

(* Two lists, one after the other.                                         *)
LEMMA TwoLists ==
  ASSUME NEW S, NEW s \in Seq(S), NEW t \in Seq(S)
  PROVE  /\ s \o t \in Seq(S) /\ Len(s \o t) = Len(s) + Len(t)
         /\ \A j \in 1..Len(s) : (s \o t)[j] = s[j]
         /\ \A j \in 1..Len(t) : (s \o t)[Len(s) + j] = t[j]
OBVIOUS

(* What joins the lists and is not stored.                                 *)
LEMMA PushIs ==
  ASSUME TranscriptTypes, NEW new \in Seq(Message), Push(new)
  PROVE  /\ messages' \in Seq(Message) /\ Len(messages') = Len(messages) + Len(new)
         /\ \A i \in 1..Len(messages) : messages'[i] = messages[i]
         /\ \A k \in 1..Len(new) : messages'[Len(messages) + k] = new[k]
         /\ messageSeqs' \in Seq(Nat) /\ Len(messageSeqs') = Len(messageSeqs) + Len(new)
         /\ \A i \in 1..Len(messageSeqs) : messageSeqs'[i] = messageSeqs[i]
         /\ \A k \in 1..Len(new) : messageSeqs'[Len(messageSeqs) + k] = Null
         /\ rows' = rows
<1> DEFINE waits == [k \in DOMAIN new |-> Null]
<1>1. messages \in Seq(Message) /\ messageSeqs \in Seq(Nat)
  BY DEF TranscriptTypes
<1>2. waits \in Seq(Nat) /\ Len(waits) = Len(new) /\ \A k \in 1..Len(new) : waits[k] = Null
  BY NullsTyped
<1>3. messages' = messages \o new /\ messageSeqs' = messageSeqs \o waits /\ rows' = rows
  BY DEF Push
<1> HIDE DEF waits
<1>4. /\ messages \o new \in Seq(Message) /\ Len(messages \o new) = Len(messages) + Len(new)
      /\ \A j \in 1..Len(messages) : (messages \o new)[j] = messages[j]
      /\ \A j \in 1..Len(new) : (messages \o new)[Len(messages) + j] = new[j]
  BY <1>1, TwoLists
<1>5. waits \in Seq(Nat)
  BY <1>2
<1>6. /\ messageSeqs \o waits \in Seq(Nat) /\ Len(messageSeqs \o waits) = Len(messageSeqs) + Len(waits)
      /\ \A j \in 1..Len(messageSeqs) : (messageSeqs \o waits)[j] = messageSeqs[j]
      /\ \A j \in 1..Len(waits) : (messageSeqs \o waits)[Len(messageSeqs) + j] = waits[j]
  BY <1>1, <1>5, TwoLists
<1> QED BY <1>2, <1>3, <1>4, <1>6

(* A message that is pushed lets the list grow, and the table stay.        *)
LEMMA PushedGrows ==
  ASSUME TranscriptTypes, Len(messageSeqs) = Len(messages), NEW new \in Seq(Message), Push(new),
         \A k \in 1..Len(new) : new[k].id = ids + k
  PROVE  /\ Grows(messages, messageSeqs, rows, messages', messageSeqs', rows')
         /\ NewIds(messages, messages', ids)
<1> DEFINE n == Len(messages)
<1>1. n \in Nat /\ Len(messageSeqs) = n /\ ids \in Nat /\ Len(new) \in Nat /\ Len(rows) \in Nat
  BY PendingArePlaces DEF TranscriptTypes
<1>2. /\ Len(messages') = n + Len(new) /\ Len(messageSeqs') = n + Len(new) /\ rows' = rows
      /\ \A i \in 1..n : messages'[i] = messages[i] /\ messageSeqs'[i] = messageSeqs[i]
      /\ \A k \in 1..Len(new) : messages'[n + k] = new[k] /\ messageSeqs'[n + k] = Null
  <2>1. /\ \A i \in 1..Len(messageSeqs) : messageSeqs'[i] = messageSeqs[i]
        /\ \A k \in 1..Len(new) : messageSeqs'[Len(messageSeqs) + k] = Null
    BY PushIs
  <2>2. /\ Len(messages') = n + Len(new) /\ Len(messageSeqs') = Len(messageSeqs) + Len(new)
        /\ rows' = rows
        /\ \A i \in 1..n : messages'[i] = messages[i]
        /\ \A k \in 1..Len(new) : messages'[n + k] = new[k]
    BY PushIs
  <2> QED BY <2>1, <2>2, <1>1
<1> HIDE DEF n
<1>3. ASSUME NEW i \in (n + 1)..Len(messages')
      PROVE  messages'[i].id = ids + (i - n) /\ messageSeqs'[i] = Null
  <2>1. i - n \in 1..Len(new) /\ n + (i - n) = i
    BY <1>1, <1>2
  <2>2. messages'[n + (i - n)] = new[i - n] /\ messageSeqs'[n + (i - n)] = Null
    BY <2>1, <1>2
  <2> QED BY <2>1, <2>2
<1>4. \A i \in 1..Len(messages') : i > n \/ messageSeqs[i] = Null => messageSeqs'[i] = Null
  <2> TAKE i \in 1..Len(messages')
  <2>1. i \in 1..n \/ i \in (n + 1)..Len(messages')
    BY <1>1, <1>2
  <2>2. i \in 1..n => ~(i > n)
    BY <1>1
  <2> QED BY <2>1, <2>2, <1>2, <1>3
<1>5. \A s \in (Len(rows) + 1)..Len(rows') : FALSE
  BY <1>1, <1>2
<1>6. n <= Len(messages') /\ Len(messageSeqs') = Len(messages') /\ Len(rows) <= Len(rows')
  BY <1>1, <1>2
<1>7. Grows(messages, messageSeqs, rows, messages', messageSeqs', rows')
  BY <1>2, <1>4, <1>5, <1>6 DEF Grows, Fresh, n
<1> QED BY <1>3, <1>7 DEF NewIds, n

(* A notice joins the lists and the table at once.                         *)
LEMMA NoticeIs ==
  ASSUME TranscriptTypes, Notice
  PROVE  /\ messages' \in Seq(Message) /\ Len(messages') = Len(messages) + 1
         /\ \A i \in 1..Len(messages) : messages'[i] = messages[i]
         /\ messages'[Len(messages) + 1].id = ids + 1
         /\ messageSeqs' \in Seq(Nat) /\ Len(messageSeqs') = Len(messageSeqs) + 1
         /\ \A i \in 1..Len(messageSeqs) : messageSeqs'[i] = messageSeqs[i]
         /\ messageSeqs'[Len(messageSeqs) + 1] = Len(rows) + 1
         /\ rows' \in Seq(Message) /\ Len(rows') = Len(rows) + 1
         /\ \A s \in 1..Len(rows) : rows'[s] = rows[s]
         /\ rows'[Len(rows) + 1] = messages'[Len(messages) + 1]
<1> DEFINE notice == Says("notice", 1)
<1>1. messages \in Seq(Message) /\ messageSeqs \in Seq(Nat) /\ rows \in Seq(Message) /\ Len(rows) \in Nat
  BY DEF TranscriptTypes
<1>2. notice \in Message /\ notice.id = ids + 1
  BY SaysMessage DEF Role
<1>3. /\ messages' = Append(messages, notice) /\ rows' = Append(rows, notice)
      /\ messageSeqs' = Append(messageSeqs, Len(rows) + 1)
  BY DEF Notice
<1> HIDE DEF notice
<1>4. /\ messages' \in Seq(Message) /\ Len(messages') = Len(messages) + 1
      /\ \A i \in 1..Len(messages) : messages'[i] = messages[i]
      /\ messages'[Len(messages) + 1] = notice
  BY <1>1, <1>2, <1>3
<1>5. /\ rows' \in Seq(Message) /\ Len(rows') = Len(rows) + 1
      /\ \A s \in 1..Len(rows) : rows'[s] = rows[s]
      /\ rows'[Len(rows) + 1] = notice
  BY <1>1, <1>2, <1>3
<1>6. /\ messageSeqs' \in Seq(Nat) /\ Len(messageSeqs') = Len(messageSeqs) + 1
      /\ \A i \in 1..Len(messageSeqs) : messageSeqs'[i] = messageSeqs[i]
      /\ messageSeqs'[Len(messageSeqs) + 1] = Len(rows) + 1
  BY <1>1, <1>3
<1> QED BY <1>2, <1>4, <1>5, <1>6

(* A notice is stored at once, or waits with the turn.                     *)
LEMMA NoticeGrows ==
  ASSUME TranscriptTypes, Len(messageSeqs) = Len(messages), Notice
  PROVE  /\ Grows(messages, messageSeqs, rows, messages', messageSeqs', rows')
         /\ NewIds(messages, messages', ids)
<1> DEFINE n == Len(messages)
           r == Len(rows)
<1>1. n \in Nat /\ r \in Nat /\ ids \in Nat /\ Len(messageSeqs) = n
  BY PendingArePlaces DEF TranscriptTypes
<1>2. /\ Len(messages') = n + 1 /\ Len(messageSeqs') = n + 1 /\ Len(rows') = r + 1
      /\ \A i \in 1..n : messages'[i] = messages[i]
      /\ \A s \in 1..r : rows'[s] = rows[s]
      /\ messages'[n + 1].id = ids + 1 /\ rows'[r + 1] = messages'[n + 1]
  BY <1>1, NoticeIs
<1>3. (\A i \in 1..n : messageSeqs'[i] = messageSeqs[i]) /\ messageSeqs'[n + 1] = r + 1
  <2>1. /\ \A i \in 1..Len(messageSeqs) : messageSeqs'[i] = messageSeqs[i]
        /\ messageSeqs'[Len(messageSeqs) + 1] = r + 1
    BY NoticeIs
  <2> QED BY <2>1, <1>1
<1> HIDE DEF n, r
<1>4. ASSUME NEW i \in 1..Len(messages'), i > n \/ messageSeqs[i] = Null, messageSeqs'[i] # Null
      PROVE  i = n + 1
  <2>1. i \in 1..n \/ i = n + 1
    BY <1>1, <1>2
  <2>2. i \in 1..n => ~(i > n)
    BY <1>1
  <2> QED BY <2>1, <2>2, <1>3, <1>4
<1>5. messageSeqs'[n + 1] \in (r + 1)..Len(rows') /\ messages'[n + 1].id # 0
  BY <1>1, <1>2, <1>3
<1>6. \A s \in (r + 1)..Len(rows') : s = r + 1 /\ n + 1 \in 1..Len(messages')
  BY <1>1, <1>2
<1>7. n <= Len(messages') /\ Len(messageSeqs') = Len(messages') /\ r <= Len(rows')
  BY <1>1, <1>2
<1>8. \A i \in (n + 1)..Len(messages') : i = n + 1 /\ ids + (i - n) = ids + 1
  BY <1>1, <1>2
<1>9. \A i, j \in 1..Len(messages') : i < j => i # n + 1 \/ j # n + 1
  BY <1>1, <1>2
<1>10. Grows(messages, messageSeqs, rows, messages', messageSeqs', rows')
  BY <1>2, <1>3, <1>4, <1>5, <1>6, <1>7, <1>9 DEF Grows, Fresh, n, r
<1> QED BY <1>2, <1>8, <1>10 DEF NewIds, n

-----------------------------------------------------------------------------
(* A verdict rewrites a reply where it is, or joins as one.                *)
Rewritten ==
    /\ messages' \in Seq(Message) /\ Len(messages') = Len(messages)
    /\ rows' \in Seq(Message) /\ Len(rows') = Len(rows)
    /\ \A i \in 1..Len(messages) : messages'[i].id = messages[i].id
    /\ messageSeqs' = messageSeqs /\ ids' = ids
    /\ Agrees(messages, messageSeqs, rows, ids) =>
         /\ \A s \in 1..Len(rows) : rows'[s].id = rows[s].id
         /\ \A i \in 1..Len(messages) : messageSeqs[i] # Null => rows'[messageSeqs[i]] = messages'[i]

(* A verdict rewrites one reply, in memory and in its row.                 *)
LEMMA VerdictIs ==
  ASSUME TranscriptTypes, RecordVerdict
  PROVE  \/ /\ \E m \in Message : m.id = ids + 1 /\ Push(<<m>>)
            /\ ids' = ids + 1
         \/ Rewritten
<1> DEFINE replies == {i \in DOMAIN messages : messages[i].role = "reply"}
           last    == CHOOSE i \in replies : \A j \in replies : j <= i
           updated == [messages[last] EXCEPT !.verdicts = @ \cup {turns}]
           seq     == IF last \in DOMAIN messageSeqs THEN messageSeqs[last] ELSE Null
<1>1. CASE replies = {}
  <2>1. Push(<<[Says("reply", 1) EXCEPT !.verdicts = {turns}]>>) /\ ids' = ids + 1
    BY <1>1 DEF RecordVerdict
  <2>2. /\ [Says("reply", 1) EXCEPT !.verdicts = {turns}] \in Message
        /\ [Says("reply", 1) EXCEPT !.verdicts = {turns}].id = ids + 1
    BY SaysMessage DEF Role
  <2> QED BY <2>1, <2>2
<1>2. CASE replies # {}
  <2>1. /\ messages' = [messages EXCEPT ![last] = updated]
        /\ rows' = IF seq \in DOMAIN rows THEN [rows EXCEPT ![seq] = updated] ELSE rows
        /\ messageSeqs' = messageSeqs /\ ids' = ids
    BY <1>2 DEF RecordVerdict
  <2>2. /\ DOMAIN messages = 1..Len(messages) /\ Len(messages) \in Nat
        /\ DOMAIN messageSeqs = 1..Len(messageSeqs) /\ Len(messageSeqs) \in Nat
        /\ DOMAIN rows = 1..Len(rows) /\ Len(rows) \in Nat
        /\ messages \in Seq(Message) /\ rows \in Seq(Message) /\ messageSeqs \in Seq(Nat)
        /\ turns \in Nat
    BY PendingArePlaces DEF TranscriptTypes
  <2>3. last \in replies
    <3>1. replies \in SUBSET (1..Len(messages)) /\ replies \in SUBSET Nat
      BY <2>2
    <3>2. IsFiniteSet(replies)
      <4>1. IsFiniteSet(1..Len(messages))
        BY <2>2, FS_Interval
      <4> HIDE DEF replies
      <4> QED BY <3>1, <4>1, FS_Subset
    <3> HIDE DEF replies
    <3>3. \E i \in replies : \A j \in replies : j <= i
      BY <1>2, <3>1, <3>2, LastIsHighest
    <3> QED BY <3>3
  <2>4. last \in 1..Len(messages)
    BY <2>2, <2>3
  <2> HIDE DEF last, replies
  <2>5. messages[last] \in Message
    BY <2>2, <2>4
  <2>6. updated \in Message /\ updated.id = messages[last].id
    BY <2>2, <2>5 DEF Message
  <2>7. seq \in Nat
    BY <2>2 DEF Null
  <2> HIDE DEF updated, seq
  <2>8. /\ messages' \in Seq(Message) /\ Len(messages') = Len(messages)
        /\ \A i \in 1..Len(messages) : messages'[i] = IF i = last THEN updated ELSE messages[i]
    BY <2>1, <2>2, <2>4, <2>6
  <2>9. /\ rows' \in Seq(Message) /\ Len(rows') = Len(rows)
        /\ \A s \in 1..Len(rows) : rows'[s] = IF s = seq THEN updated ELSE rows[s]
    BY <2>1, <2>2, <2>6
  <2>10. ASSUME Agrees(messages, messageSeqs, rows, ids)
         PROVE  /\ seq = messageSeqs[last]
                /\ seq \in 1..Len(rows) => rows[seq].id = updated.id
                /\ \A i \in 1..Len(messages) :
                     messageSeqs[i] # Null => rows'[messageSeqs[i]] = messages'[i]
    <3>1. seq = messageSeqs[last]
      BY <2>2, <2>4, <2>10 DEF seq, Agrees
    <3>2. seq \in 1..Len(rows) => rows[seq] = messages[last]
      BY <2>2, <2>4, <2>10, <3>1 DEF Agrees, Null
    <3>3. ASSUME NEW i \in 1..Len(messages), messageSeqs[i] # Null
          PROVE  rows'[messageSeqs[i]] = messages'[i]
      <4>1. messageSeqs[i] \in 1..Len(rows) /\ rows[messageSeqs[i]] = messages[i]
        BY <2>10, <3>3 DEF Agrees
      <4>2. CASE i = last
        BY <2>8, <2>9, <3>1, <4>1, <4>2
      <4>3. CASE i # last
        <5>1. messages[i].id # messages[last].id
          BY <2>4, <2>10, <4>3 DEF Agrees
        <5>2. messageSeqs[i] # seq
          BY <3>2, <4>1, <5>1
        <5> QED BY <2>8, <2>9, <4>1, <4>3, <5>2
      <4> QED BY <4>2, <4>3
    <3> QED BY <2>6, <3>1, <3>2, <3>3
  <2>11. ASSUME Agrees(messages, messageSeqs, rows, ids)
         PROVE  \A s \in 1..Len(rows) : rows'[s].id = rows[s].id
    BY <2>9, <2>10, <2>11
  <2> QED BY <2>1, <2>6, <2>8, <2>9, <2>10, <2>11 DEF Rewritten
<1> QED BY <1>1, <1>2

-----------------------------------------------------------------------------
(* Lists that are cut.                                                     *)
LEMMA RestIs ==
  ASSUME NEW S, NEW s \in Seq(S), NEW cut \in 1..(Len(s) + 1)
  PROVE  /\ SubSeq(s, cut, Len(s)) \in Seq(S) /\ Len(SubSeq(s, cut, Len(s))) = Len(s) - cut + 1
         /\ \A j \in 1..(Len(s) - cut + 1) : SubSeq(s, cut, Len(s))[j] = s[j + cut - 1]
OBVIOUS

(* A list without one of its members.                                      *)
LEMMA RemovedIs ==
  ASSUME NEW S, NEW s \in Seq(S), NEW i \in 1..Len(s)
  PROVE  /\ RemoveAt(s, i) \in Seq(S) /\ Len(RemoveAt(s, i)) = Len(s) - 1
         /\ \A j \in 1..(Len(s) - 1) : RemoveAt(s, i)[j] = s[IF j < i THEN j ELSE j + 1]
<1> DEFINE before == SubSeq(s, 1, i - 1)
           after  == SubSeq(s, i + 1, Len(s))
<1>1. Len(s) \in Nat /\ i \in Nat
  OBVIOUS
<1>2. before \in Seq(S) /\ Len(before) = i - 1 /\ \A j \in 1..(i - 1) : before[j] = s[j]
  OBVIOUS
<1>3. /\ after \in Seq(S) /\ Len(after) = Len(s) - i
      /\ \A j \in 1..(Len(s) - i) : after[j] = s[j + i]
  OBVIOUS
<1>4. RemoveAt(s, i) = before \o after
  BY DEF RemoveAt
<1> HIDE DEF before, after
<1>5. before \in Seq(S) /\ after \in Seq(S)
  BY <1>2, <1>3
<1>6. /\ before \o after \in Seq(S) /\ Len(before \o after) = Len(before) + Len(after)
      /\ \A j \in 1..Len(before) : (before \o after)[j] = before[j]
      /\ \A j \in 1..Len(after) : (before \o after)[Len(before) + j] = after[j]
  BY <1>5, TwoLists
<1>7. ASSUME NEW j \in 1..(Len(s) - 1)
      PROVE  RemoveAt(s, i)[j] = s[IF j < i THEN j ELSE j + 1]
  <2>1. CASE j < i
    BY <1>1, <1>2, <1>4, <1>6, <2>1
  <2>2. CASE ~(j < i)
    <3>1. j - (i - 1) \in 1..(Len(s) - i) /\ i - 1 + (j - (i - 1)) = j /\ j - (i - 1) + i = j + 1
      BY <1>1, <2>2
    <3>2. (before \o after)[Len(before) + (j - (i - 1))] = after[j - (i - 1)]
      BY <1>3, <1>6, <3>1
    <3>3. after[j - (i - 1)] = s[j - (i - 1) + i]
      BY <1>3, <3>1
    <3> QED BY <1>2, <1>4, <2>2, <3>1, <3>2, <3>3
  <2> QED BY <2>1, <2>2
<1> QED BY <1>1, <1>2, <1>3, <1>4, <1>6, <1>7

(* A list without a part in its middle.                                    *)
LEMMA TrimmedIs ==
  ASSUME NEW S, NEW s \in Seq(S), NEW first \in 1..2, NEW cut \in (first + 1)..Len(s)
  PROVE  LET t == SubSeq(s, 1, first - 1) \o SubSeq(s, cut, Len(s)) IN
         /\ t \in Seq(S) /\ Len(t) = first + Len(s) - cut
         /\ \A j \in 1..(first + Len(s) - cut) : t[j] = s[IF j < first THEN j ELSE j + (cut - first)]
<1> DEFINE before == SubSeq(s, 1, first - 1)
           after  == SubSeq(s, cut, Len(s))
           t      == before \o after
<1>1. Len(s) \in Nat /\ cut \in Nat /\ cut \in 1..(Len(s) + 1) /\ first \in Nat /\ first < cut /\ cut <= Len(s)
  OBVIOUS
<1>2. before \in Seq(S) /\ Len(before) = first - 1 /\ \A j \in 1..(first - 1) : before[j] = s[j]
  OBVIOUS
<1>3. /\ after \in Seq(S) /\ Len(after) = Len(s) - cut + 1
      /\ \A j \in 1..(Len(s) - cut + 1) : after[j] = s[j + cut - 1]
  BY <1>1, RestIs
<1> HIDE DEF before, after
<1>5. before \in Seq(S) /\ after \in Seq(S)
  BY <1>2, <1>3
<1>6. /\ before \o after \in Seq(S) /\ Len(before \o after) = Len(before) + Len(after)
      /\ \A j \in 1..Len(before) : (before \o after)[j] = before[j]
      /\ \A j \in 1..Len(after) : (before \o after)[Len(before) + j] = after[j]
  BY <1>5, TwoLists
<1>7. ASSUME NEW j \in 1..(first + Len(s) - cut)
      PROVE  t[j] = s[IF j < first THEN j ELSE j + (cut - first)]
  <2>1. CASE j < first
    BY <1>1, <1>2, <1>6, <2>1
  <2>2. CASE ~(j < first)
    <3>1. /\ j - (first - 1) \in 1..(Len(s) - cut + 1) /\ first - 1 + (j - (first - 1)) = j
          /\ j - (first - 1) + cut - 1 = j + (cut - first)
      BY <1>1, <2>2
    <3>2. (before \o after)[Len(before) + (j - (first - 1))] = after[j - (first - 1)]
      BY <1>3, <1>6, <3>1
    <3>3. after[j - (first - 1)] = s[j - (first - 1) + cut - 1]
      BY <1>3, <3>1
    <3> QED BY <1>2, <2>2, <3>1, <3>2, <3>3
  <2> QED BY <2>1, <2>2
<1>8. Len(t) = first + Len(s) - cut
  BY <1>1, <1>2, <1>3, <1>6
<1> QED BY <1>6, <1>7, <1>8 DEF before, after

(* A list behind one more.                                                 *)
LEMMA BehindIs ==
  ASSUME NEW S, NEW x \in S, NEW s \in Seq(S)
  PROVE  /\ <<x>> \o s \in Seq(S) /\ Len(<<x>> \o s) = Len(s) + 1
         /\ (<<x>> \o s)[1] = x
         /\ \A j \in 1..Len(s) : (<<x>> \o s)[j + 1] = s[j]
<1>1. <<x>> \in Seq(S) /\ Len(<<x>>) = 1 /\ <<x>>[1] = x
  OBVIOUS
<1>2. /\ <<x>> \o s \in Seq(S) /\ Len(<<x>> \o s) = Len(<<x>>) + Len(s)
      /\ \A j \in 1..Len(<<x>>) : (<<x>> \o s)[j] = <<x>>[j]
      /\ \A j \in 1..Len(s) : (<<x>> \o s)[Len(<<x>>) + j] = s[j]
  BY <1>1, TwoLists
<1>3. \A j \in 1..Len(s) : 1 + j = j + 1
  OBVIOUS
<1> QED BY <1>1, <1>2, <1>3

-----------------------------------------------------------------------------
(* What holds of the lists whatever notices got between: every message has *)
(* a place or Null, and no place is past the end of the table.             *)
Bounded ==
    /\ Len(messages) <= Len(messageSeqs)
    /\ \A i \in 1..Len(messageSeqs) : messageSeqs[i] <= Len(rows)
    /\ phase = "hook" =>
        /\ prepared.index \in 2..Len(messages)
        /\ Len(prepared.kept) + prepared.index - 1 <= Len(messages)
    /\ phase = "summary" =>
        /\ Len(prepared.kept) <= Len(prepared.keptSeqs)
        /\ \A i \in 1..Len(prepared.keptSeqs) : prepared.keptSeqs[i] <= Len(rows)
        /\ prepared.firstKeptSeq # 0

(* Messages are taken from memory, and from nowhere else.                  *)
Taken ==
    /\ messages' \in Seq(Message) /\ messageSeqs' \in Seq(Nat)
    /\ Len(messageSeqs') - Len(messages') = Len(messageSeqs) - Len(messages)
    /\ \A i \in 1..Len(messageSeqs') : \E j \in 1..Len(messageSeqs) : messageSeqs'[i] = messageSeqs[j]
    /\ \E at : /\ Within(messages, messageSeqs, messages', messageSeqs', at)
               /\ \A j \in 1..Len(messages) : \/ \E i \in 1..Len(messages') : at[i] = j
                                              \/ messages[j].id \in dropped'
    /\ dropped \subseteq dropped' /\ dropped' \subseteq Nat

(* A turn that is discarded takes its message from memory, if it is there. *)
LEMMA DiscardTakes ==
  ASSUME TranscriptTypes, Bounded, Discarded
  PROVE  \/ Taken
         \/ messages' = messages /\ messageSeqs' = messageSeqs /\ dropped' = dropped
<1> DEFINE i  == IndexOf(user, messages)
           at == [j \in 1..(Len(messages) - 1) |-> IF j < i THEN j ELSE j + 1]
<1>1. /\ messages \in Seq(Message) /\ messageSeqs \in Seq(Nat) /\ DOMAIN messages = 1..Len(messages)
      /\ Len(messages) \in Nat /\ Len(messageSeqs) \in Nat /\ Len(messages) <= Len(messageSeqs)
      /\ dropped \subseteq Nat /\ user \in Nat
  BY PendingArePlaces DEF TranscriptTypes, Bounded
<1>2. CASE i = 0
  BY <1>2 DEF Discarded
<1>3. CASE i # 0
  <2>1. i \in 1..Len(messages) /\ messages[i].id = user
    <3>1. {j \in DOMAIN messages : messages[j].id = user} # {}
      BY <1>3 DEF IndexOf
    <3>2. i = CHOOSE j \in {j \in DOMAIN messages : messages[j].id = user} : TRUE
      BY <3>1 DEF IndexOf
    <3>3. i \in {j \in DOMAIN messages : messages[j].id = user}
      BY <3>1, <3>2
    <3> QED BY <1>1, <3>3
  <2>2. /\ messages' = RemoveAt(messages, i) /\ messageSeqs' = RemoveAt(messageSeqs, i)
        /\ dropped' = dropped \cup {user}
    BY <1>3 DEF Discarded
  <2> HIDE DEF i
  <2>3. i \in 1..Len(messageSeqs) /\ i \in Nat
    BY <1>1, <2>1
  <2>4. /\ messages' \in Seq(Message) /\ Len(messages') = Len(messages) - 1
        /\ \A j \in 1..(Len(messages) - 1) : messages'[j] = messages[IF j < i THEN j ELSE j + 1]
    BY <1>1, <2>1, <2>2, RemovedIs
  <2>5. /\ messageSeqs' \in Seq(Nat) /\ Len(messageSeqs') = Len(messageSeqs) - 1
        /\ \A j \in 1..(Len(messageSeqs) - 1) : messageSeqs'[j] = messageSeqs[IF j < i THEN j ELSE j + 1]
    BY <1>1, <2>2, <2>3, RemovedIs
  <2>6. ASSUME NEW j \in 1..Len(messages')
        PROVE  /\ at[j] \in 1..Len(messages)
               /\ messages'[j] = messages[at[j]] /\ messageSeqs'[j] = messageSeqs[at[j]]
    <3>1. j \in 1..(Len(messages) - 1) /\ j \in 1..(Len(messageSeqs) - 1)
      BY <1>1, <2>4
    <3>2. at[j] = IF j < i THEN j ELSE j + 1
      BY <3>1
    <3>3. at[j] \in 1..Len(messages)
      BY <1>1, <2>1, <3>1, <3>2
    <3> QED BY <2>4, <2>5, <3>1, <3>2, <3>3
  <2>7. \A j, k \in 1..Len(messages') : j < k => at[j] < at[k]
    BY <1>1, <2>3, <2>4
  <2>8. ASSUME NEW j \in 1..Len(messages), j # i PROVE \E k \in 1..Len(messages') : at[k] = j
    <3>1. CASE j < i
      <4>1. j \in 1..(Len(messages) - 1) /\ at[j] = j
        BY <1>1, <2>1, <3>1
      <4> QED BY <2>4, <4>1
    <3>2. CASE j > i
      <4>1. j - 1 \in 1..(Len(messages) - 1) /\ at[j - 1] = j
        BY <1>1, <2>1, <2>3, <3>2
      <4> QED BY <2>4, <4>1
    <3>3. j < i \/ j > i
      <4>1. j \in Nat
        BY <1>1
      <4> QED BY <4>1, <2>3, <2>8
    <3> QED BY <3>1, <3>2, <3>3
  <2>9. ASSUME NEW k \in 1..Len(messageSeqs')
        PROVE  \E j \in 1..Len(messageSeqs) : messageSeqs'[k] = messageSeqs[j]
    <3>1. k \in 1..(Len(messageSeqs) - 1)
      BY <2>5
    <3>2. (IF k < i THEN k ELSE k + 1) \in 1..Len(messageSeqs)
      BY <1>1, <2>3, <3>1
    <3> QED BY <2>5, <3>1, <3>2
  <2>10. Len(messageSeqs') - Len(messages') = Len(messageSeqs) - Len(messages)
    BY <1>1, <2>4, <2>5
  <2> HIDE DEF at
  <2>11. Within(messages, messageSeqs, messages', messageSeqs', at)
    BY <2>6, <2>7 DEF Within
  <2>12. \A j \in 1..Len(messages) : (\E k \in 1..Len(messages') : at[k] = j) \/ messages[j].id \in dropped'
    BY <2>1, <2>2, <2>8
  <2>13. dropped \subseteq dropped' /\ dropped' \subseteq Nat
    BY <1>1, <2>2
  <2> QED BY <2>4, <2>5, <2>9, <2>10, <2>11, <2>12, <2>13 DEF Taken
<1> QED BY <1>2, <1>3

(* The oldest turns are taken, behind a summary if there is one.           *)
LEMMA TrimTakes ==
  ASSUME TranscriptTypes, Bounded, NEW turnsToKeep, Trims(turnsToKeep)
  PROVE  Taken
<1>1. /\ messages \in Seq(Message) /\ messageSeqs \in Seq(Nat) /\ DOMAIN messages = 1..Len(messages)
      /\ Len(messages) \in Nat /\ Len(messageSeqs) \in Nat /\ Len(messages) <= Len(messageSeqs)
      /\ dropped \subseteq Nat
  BY PendingArePlaces DEF TranscriptTypes, Bounded
<1>2. First \in 1..2 /\ First \in Nat
  BY DEF First
<1>3. PICK cut \in First..Len(messages) :
        /\ cut > First
        /\ messages' = SubSeq(messages, 1, First - 1) \o SubSeq(messages, cut, Len(messages))
        /\ messageSeqs' = SubSeq(messageSeqs, 1, First - 1)
                          \o SubSeq(messageSeqs, cut, Len(messageSeqs))
        /\ dropped' = dropped \cup {messages[i].id : i \in First..(cut - 1)}
  BY DEF Trims
<1> DEFINE f  == First
           d  == cut - f
           at == [j \in 1..(f + Len(messages) - cut) |-> IF j < f THEN j ELSE j + d]
<1>4. /\ f \in 1..2 /\ f \in Nat /\ cut \in (f + 1)..Len(messages) /\ cut \in (f + 1)..Len(messageSeqs)
      /\ cut \in Nat /\ d \in Nat /\ d > 0
  BY <1>1, <1>2, <1>3
<1>5. /\ messages' = SubSeq(messages, 1, f - 1) \o SubSeq(messages, cut, Len(messages))
      /\ messageSeqs' = SubSeq(messageSeqs, 1, f - 1) \o SubSeq(messageSeqs, cut, Len(messageSeqs))
      /\ dropped' = dropped \cup {messages[i].id : i \in f..(cut - 1)}
  BY <1>3
<1> HIDE DEF f
<1>6. /\ messages' \in Seq(Message) /\ Len(messages') = f + Len(messages) - cut
      /\ \A j \in 1..(f + Len(messages) - cut) : messages'[j] = messages[IF j < f THEN j ELSE j + (cut - f)]
  <2> DEFINE t == SubSeq(messages, 1, f - 1) \o SubSeq(messages, cut, Len(messages))
  <2>1. messages \in Seq(Message) /\ f \in 1..2 /\ cut \in (f + 1)..Len(messages)
    BY <1>1, <1>4
  <2>2. /\ t \in Seq(Message) /\ Len(t) = f + Len(messages) - cut
        /\ \A j \in 1..(f + Len(messages) - cut) : t[j] = messages[IF j < f THEN j ELSE j + (cut - f)]
    BY <2>1, TrimmedIs
  <2>3. messages' = t
    BY <1>5
  <2> HIDE DEF t
  <2> QED BY <2>2, <2>3
<1>7. /\ messageSeqs' \in Seq(Nat) /\ Len(messageSeqs') = f + Len(messageSeqs) - cut
      /\ \A j \in 1..(f + Len(messageSeqs) - cut) :
           messageSeqs'[j] = messageSeqs[IF j < f THEN j ELSE j + (cut - f)]
  <2> DEFINE t == SubSeq(messageSeqs, 1, f - 1) \o SubSeq(messageSeqs, cut, Len(messageSeqs))
  <2>1. messageSeqs \in Seq(Nat) /\ f \in 1..2 /\ cut \in (f + 1)..Len(messageSeqs)
    BY <1>1, <1>4
  <2>2. /\ t \in Seq(Nat) /\ Len(t) = f + Len(messageSeqs) - cut
        /\ \A j \in 1..(f + Len(messageSeqs) - cut) :
             t[j] = messageSeqs[IF j < f THEN j ELSE j + (cut - f)]
    BY <2>1, TrimmedIs
  <2>3. messageSeqs' = t
    BY <1>5
  <2> QED BY <2>2, <2>3
<1>8. ASSUME NEW j \in 1..Len(messages')
      PROVE  /\ at[j] \in 1..Len(messages)
             /\ messages'[j] = messages[at[j]] /\ messageSeqs'[j] = messageSeqs[at[j]]
  <2>1. j \in 1..(f + Len(messages) - cut) /\ j \in 1..(f + Len(messageSeqs) - cut)
    BY <1>1, <1>4, <1>6
  <2>2. at[j] = IF j < f THEN j ELSE j + (cut - f)
    BY <2>1
  <2>3. at[j] \in 1..Len(messages)
    BY <1>1, <1>4, <2>1, <2>2
  <2> QED BY <1>6, <1>7, <2>1, <2>2, <2>3
<1>9. \A j, k \in 1..Len(messages') : j < k => at[j] < at[k]
  BY <1>1, <1>4, <1>6
<1>10. ASSUME NEW j \in 1..Len(messages)
       PROVE  (\E k \in 1..Len(messages') : at[k] = j) \/ messages[j].id \in dropped'
  <2>1. CASE j < f
    <3>1. j \in 1..(f + Len(messages) - cut) /\ at[j] = j
      BY <1>1, <1>4, <2>1
    <3> QED BY <1>6, <3>1
  <2>2. CASE j >= cut
    <3>1. j - d \in 1..(f + Len(messages) - cut) /\ ~(j - d < f) /\ (j - d) + d = j
      BY <1>1, <1>4, <2>2
    <3>2. at[j - d] = j
      BY <3>1
    <3> QED BY <1>6, <3>1, <3>2
  <2>3. CASE j \in f..(cut - 1)
    BY <1>5, <2>3
  <2>4. j < f \/ j >= cut \/ j \in f..(cut - 1)
    <3>1. j \in Nat
      BY <1>1
    <3> QED BY <3>1, <1>4
  <2> QED BY <2>1, <2>2, <2>3, <2>4
<1>11. ASSUME NEW k \in 1..Len(messageSeqs')
       PROVE  \E j \in 1..Len(messageSeqs) : messageSeqs'[k] = messageSeqs[j]
  <2>1. k \in 1..(f + Len(messageSeqs) - cut)
    BY <1>7
  <2>2. (IF k < f THEN k ELSE k + (cut - f)) \in 1..Len(messageSeqs)
    BY <1>1, <1>4, <2>1
  <2> QED BY <1>7, <2>1, <2>2
<1>12. Len(messageSeqs') - Len(messages') = Len(messageSeqs) - Len(messages)
  BY <1>1, <1>4, <1>6, <1>7
<1>13. dropped \subseteq dropped' /\ dropped' \subseteq Nat
  <2>1. \A i \in f..(cut - 1) : messages[i].id \in Nat
    <3> TAKE i \in f..(cut - 1)
    <3>1. i \in 1..Len(messages)
      BY <1>1, <1>4
    <3> QED BY <1>1, <3>1, ListsAreLists DEF List
  <2> QED BY <1>1, <1>5, <2>1
<1> HIDE DEF at
<1>14. Within(messages, messageSeqs, messages', messageSeqs', at)
  BY <1>8, <1>9 DEF Within
<1> QED BY <1>6, <1>7, <1>10, <1>11, <1>12, <1>13, <1>14 DEF Taken

(* What a session that is opened again finds: the summary, when there is   *)
(* one, and the rows that are kept.                                        *)
LEMMA ReopenedIs ==
  ASSUME TranscriptTypes, Reopens
  PROVE  LET m == IF firstKeptSeq = 0 THEN 0 ELSE 1
             n == Len(rows) + 1 - FirstKept IN
         /\ FirstKept \in 1..(Len(rows) + 1) /\ n \in Nat
         /\ messages' \in Seq(Message) /\ Len(messages') = m + n
         /\ messageSeqs' \in Seq(Nat) /\ Len(messageSeqs') = m + n
         /\ m = 1 => messages'[1].id = 0 /\ messageSeqs'[1] = Null
         /\ \A k \in 1..n : /\ messages'[m + k] = rows[FirstKept + k - 1]
                            /\ messageSeqs'[m + k] = FirstKept + k - 1
<1> DEFINE m == IF firstKeptSeq = 0 THEN 0 ELSE 1
           n == Len(rows) + 1 - FirstKept
           summary == IF firstKeptSeq = 0 THEN <<>> ELSE <<Summary>>
           seqs == Places(FirstKept, n)
           kept == [k \in DOMAIN seqs |-> rows[seqs[k]]]
           none == [k \in DOMAIN summary |-> Null]
<1>1. /\ rows \in Seq(Message) /\ Len(rows) \in Nat
      /\ FirstKept \in 1..(Len(rows) + 1) /\ n \in Nat
  BY DEF TranscriptTypes, FirstKept
<1>2. messages' = summary \o kept /\ messageSeqs' = none \o seqs
  BY DEF Reopens
<1>3. seqs \in Seq(Nat) /\ Len(seqs) = n /\ DOMAIN seqs = 1..n
      /\ \A k \in 1..n : seqs[k] = FirstKept + k - 1
  <2>1. FirstKept \in Nat /\ n \in Nat
    BY <1>1
  <2> HIDE DEF n
  <2> QED BY <2>1, PlacesTyped
<1>4. kept \in Seq(Message) /\ Len(kept) = n /\ \A k \in 1..n : kept[k] = rows[FirstKept + k - 1]
  <2> HIDE DEF n, seqs
  <2>1. \A k \in 1..n : seqs[k] \in 1..Len(rows)
    BY <1>1, <1>3 DEF n
  <2>2. \A k \in 1..n : rows[seqs[k]] \in Message
    BY <1>1, <2>1
  <2> QED BY <1>1, <1>3, <2>2
<1>5. Summary \in Message /\ Summary.id = 0
  BY DEF Summary, Message, Role
<1>6. summary \in Seq(Message) /\ Len(summary) = m /\ (m = 1 => summary[1] = Summary)
  BY <1>5
<1>7. none \in Seq(Nat) /\ Len(none) = m /\ (m = 1 => none[1] = Null)
  <2>1. summary \in Seq(Message) /\ Len(summary) = m
    BY <1>6
  <2>2. none \in Seq(Nat) /\ Len(none) = Len(summary) /\ \A k \in 1..Len(summary) : none[k] = Null
    <3> HIDE DEF summary
    <3> QED BY <2>1, NullsTyped
  <2> HIDE DEF none, summary, m
  <2> QED BY <2>1, <2>2
<1>8. m \in {0, 1}
  OBVIOUS
<1> HIDE DEF m, n, summary, seqs, kept, none
<1>9. kept \in Seq(Message) /\ summary \in Seq(Message)
  BY <1>4, <1>6
<1>10. /\ summary \o kept \in Seq(Message) /\ Len(summary \o kept) = Len(summary) + Len(kept)
       /\ \A j \in 1..Len(summary) : (summary \o kept)[j] = summary[j]
       /\ \A j \in 1..Len(kept) : (summary \o kept)[Len(summary) + j] = kept[j]
  BY <1>9, TwoLists
<1>11. none \in Seq(Nat) /\ seqs \in Seq(Nat)
  BY <1>3, <1>7
<1>12. /\ none \o seqs \in Seq(Nat) /\ Len(none \o seqs) = Len(none) + Len(seqs)
       /\ \A j \in 1..Len(none) : (none \o seqs)[j] = none[j]
       /\ \A j \in 1..Len(seqs) : (none \o seqs)[Len(none) + j] = seqs[j]
  BY <1>11, TwoLists
<1>13. m = 1 => messages'[1].id = 0 /\ messageSeqs'[1] = Null
  BY <1>2, <1>5, <1>6, <1>7, <1>10, <1>12
<1>14. \A k \in 1..n : messages'[m + k] = rows[FirstKept + k - 1] /\ messageSeqs'[m + k] = FirstKept + k - 1
  BY <1>2, <1>3, <1>4, <1>6, <1>7, <1>10, <1>12
<1>15. Len(messages') = m + n /\ Len(messageSeqs') = m + n
  BY <1>2, <1>3, <1>4, <1>6, <1>7, <1>10, <1>12
<1>16. messages' \in Seq(Message) /\ messageSeqs' \in Seq(Nat)
  BY <1>2, <1>10, <1>12
<1> QED BY <1>1, <1>13, <1>14, <1>15, <1>16 DEF m, n
-----------------------------------------------------------------------------
(* Type correctness, with what holds of the lists whatever got between.    *)

(* The lists and the table grow, or stay as long as they are.              *)
Longer ==
    /\ messages' \in Seq(Message) /\ messageSeqs' \in Seq(Nat) /\ rows' \in Seq(Message)
    /\ Len(messages) <= Len(messages') /\ Len(rows) <= Len(rows')
    /\ Len(messages') <= Len(messageSeqs')
    /\ \A i \in 1..Len(messageSeqs') : messageSeqs'[i] <= Len(rows')

(* Lists that stay as they are,                                            *)
LEMMA SameIsLonger ==
  ASSUME TranscriptTypes, Bounded, UNCHANGED <<messages, messageSeqs, rows>>
  PROVE  Longer
<1>1. Len(messages) \in Nat /\ Len(rows) \in Nat
  BY PendingArePlaces
<1> QED BY <1>1 DEF TranscriptTypes, Bounded, Longer

(* a message that is pushed,                                               *)
LEMMA PushIsLonger ==
  ASSUME TranscriptTypes, Bounded, NEW new \in Seq(Message), Push(new)
  PROVE  Longer
<1>1. /\ Len(messages) \in Nat /\ Len(messageSeqs) \in Nat /\ Len(rows) \in Nat /\ Len(new) \in Nat
      /\ Len(messages) <= Len(messageSeqs)
  BY PendingArePlaces DEF Bounded
<1>2. /\ messages' \in Seq(Message) /\ Len(messages') = Len(messages) + Len(new)
      /\ messageSeqs' \in Seq(Nat) /\ Len(messageSeqs') = Len(messageSeqs) + Len(new)
      /\ \A i \in 1..Len(messageSeqs) : messageSeqs'[i] = messageSeqs[i]
      /\ \A k \in 1..Len(new) : messageSeqs'[Len(messageSeqs) + k] = Null
      /\ rows' = rows
  BY PushIs
<1>3. ASSUME NEW i \in 1..Len(messageSeqs') PROVE messageSeqs'[i] <= Len(rows')
  <2>1. CASE i \in 1..Len(messageSeqs)
    BY <1>2, <2>1 DEF Bounded
  <2>2. CASE i - Len(messageSeqs) \in 1..Len(new)
    <3>1. i = Len(messageSeqs) + (i - Len(messageSeqs))
      BY <1>1
    <3>2. messageSeqs'[i] = 0
      BY <1>2, <2>2, <3>1 DEF Null
    <3> QED BY <1>1, <1>2, <3>2
  <2> QED BY <1>1, <1>2, <2>1, <2>2
<1>4. rows \in Seq(Message)
  BY DEF TranscriptTypes
<1> QED BY <1>1, <1>2, <1>3, <1>4 DEF Longer

(* messages that are appended and stored,                                  *)
LEMMA AppendIsLonger ==
  ASSUME TranscriptTypes, Bounded, NEW new \in Seq(Message), NEW pushed \in Seq(Message),
         AppendCompletedTurn(new, pushed)
  PROVE  Longer
<1> DEFINE c == Cardinality(Pending)
           l == Len(messageSeqs)
           r == Len(rows)
<1>1. /\ Len(messages) \in Nat /\ l \in Nat /\ r \in Nat /\ c \in Nat
      /\ Len(new) \in Nat /\ Len(pushed) \in Nat /\ Len(messages) <= l
      /\ Pending \in SUBSET Nat /\ IsFiniteSet(Pending)
  BY PendingArePlaces DEF Bounded
<1>2. /\ rows' \in Seq(Message) /\ Len(rows') = r + c + Len(new)
      /\ messages' \in Seq(Message) /\ Len(messages') = Len(messages) + Len(new) + Len(pushed)
      /\ messageSeqs' \in Seq(Nat) /\ Len(messageSeqs') = l + Len(new) + Len(pushed)
      /\ \A i \in 1..l : messageSeqs'[i] = IF i \in Pending THEN r + Rank(i, Pending) ELSE messageSeqs[i]
      /\ \A k \in 1..Len(new) : messageSeqs'[l + k] = r + c + k
      /\ \A k \in 1..Len(pushed) : messageSeqs'[l + Len(new) + k] = Null
  BY AppendedIs
<1>3. \A i \in Pending : Rank(i, Pending) \in 1..c
  BY <1>1, RankCounts
<1>4. \A i \in 1..l : messageSeqs[i] <= r /\ messageSeqs[i] \in Nat
  BY DEF Bounded, TranscriptTypes
<1> HIDE DEF c, l, r
<1>5. ASSUME NEW i \in 1..Len(messageSeqs') PROVE messageSeqs'[i] <= Len(rows')
  <2>1. CASE i \in 1..l
    <3>1. CASE i \in Pending
      BY <1>1, <1>2, <1>3, <2>1, <3>1
    <3>2. CASE i \notin Pending
      <4>1. messageSeqs'[i] = messageSeqs[i]
        BY <1>2, <2>1, <3>2
      <4>2. messageSeqs[i] <= r /\ messageSeqs[i] \in Nat
        BY <1>4, <2>1
      <4>3. r + c + Len(new) >= r
        BY <1>1
      <4> QED BY <1>1, <1>2, <4>1, <4>2, <4>3
    <3> QED BY <3>1, <3>2
  <2>2. CASE i - l \in 1..Len(new)
    <3>1. i = l + (i - l)
      BY <1>1
    <3>2. messageSeqs'[i] = r + c + (i - l)
      BY <1>2, <2>2, <3>1
    <3> QED BY <1>1, <1>2, <2>2, <3>2
  <2>3. CASE i - l - Len(new) \in 1..Len(pushed)
    <3>1. i = l + Len(new) + (i - l - Len(new))
      BY <1>1
    <3>2. messageSeqs'[i] = 0
      BY <1>2, <2>3, <3>1 DEF Null
    <3> QED BY <1>1, <1>2, <3>2
  <2> QED BY <1>1, <1>2, <2>1, <2>2, <2>3
<1>6. Len(messages') <= Len(messageSeqs') /\ Len(messages) <= Len(messages') /\ r <= Len(rows')
  BY <1>1, <1>2
<1> QED BY <1>2, <1>5, <1>6 DEF Longer, r

(* a notice,                                                               *)
LEMMA NoticeIsLonger ==
  ASSUME TranscriptTypes, Bounded, Notice
  PROVE  Longer
<1>1. /\ Len(messages) \in Nat /\ Len(messageSeqs) \in Nat /\ Len(rows) \in Nat
      /\ Len(messages) <= Len(messageSeqs)
      /\ \A i \in 1..Len(messageSeqs) : messageSeqs[i] <= Len(rows) /\ messageSeqs[i] \in Nat
  <2>1. Len(messages) \in Nat /\ Len(messageSeqs) \in Nat /\ Len(rows) \in Nat
    BY PendingArePlaces
  <2>2. Len(messages) <= Len(messageSeqs) /\ \A i \in 1..Len(messageSeqs) : messageSeqs[i] <= Len(rows)
    BY DEF Bounded
  <2>3. messageSeqs \in Seq(Nat)
    BY DEF TranscriptTypes
  <2>4. \A i \in 1..Len(messageSeqs) : messageSeqs[i] \in Nat
    BY <2>3
  <2> QED BY <2>1, <2>2, <2>4
<1>2. /\ messages' \in Seq(Message) /\ Len(messages') = Len(messages) + 1
      /\ messageSeqs' \in Seq(Nat) /\ Len(messageSeqs') = Len(messageSeqs) + 1
      /\ \A i \in 1..Len(messageSeqs) : messageSeqs'[i] = messageSeqs[i]
      /\ messageSeqs'[Len(messageSeqs) + 1] = Len(rows) + 1
      /\ rows' \in Seq(Message) /\ Len(rows') = Len(rows) + 1
  BY NoticeIs
<1>3. ASSUME NEW i \in 1..Len(messageSeqs') PROVE messageSeqs'[i] <= Len(rows')
  <2>1. i \in 1..Len(messageSeqs) \/ i = Len(messageSeqs) + 1
    BY <1>1, <1>2
  <2> QED BY <1>1, <1>2, <2>1
<1> QED BY <1>1, <1>2, <1>3 DEF Longer

(* and a verdict.                                                          *)
LEMMA VerdictIsLonger ==
  ASSUME TranscriptTypes, Bounded, RecordVerdict
  PROVE  Longer /\ ids' \in {ids, ids + 1}
<1>1. CASE Rewritten
  <2>1. Len(messages) \in Nat /\ Len(rows) \in Nat /\ messageSeqs \in Seq(Nat)
    BY PendingArePlaces DEF TranscriptTypes
  <2>2. /\ messages' \in Seq(Message) /\ Len(messages') = Len(messages)
        /\ rows' \in Seq(Message) /\ Len(rows') = Len(rows)
        /\ messageSeqs' = messageSeqs /\ ids' = ids
    BY <1>1 DEF Rewritten
  <2>3. /\ Len(messages) <= Len(messageSeqs)
        /\ \A i \in 1..Len(messageSeqs) : messageSeqs[i] <= Len(rows)
    BY DEF Bounded
  <2>4. Len(messages) <= Len(messages') /\ Len(rows) <= Len(rows')
    BY <2>1, <2>2
  <2> QED BY <2>1, <2>2, <2>3, <2>4 DEF Longer
<1>2. ASSUME NEW m \in Message, Push(<<m>>), ids' = ids + 1
      PROVE  Longer /\ ids' \in {ids, ids + 1}
  <2>1. <<m>> \in Seq(Message)
    OBVIOUS
  <2> QED BY <1>2, <2>1, PushIsLonger
<1> QED BY <1>1, <1>2, VerdictIs

(* With that, what is counted and the phase decide.                        *)
LEMMA LongerKeepsTypes ==
  ASSUME TranscriptTypes, Bounded, Longer,
         UNCHANGED <<firstKeptSeq, prepared, compactions>>,
         phase' \in Phase, phase' \in {"hook", "summary"} => phase' = phase,
         turns' \in Nat, ids' \in Nat, user' \in Nat, user' <= ids',
         phase' \notin {"idle", "asked"} => user' # 0,
         ended' \in {"none", "declined", "stopped", "done"},
         raced' \subseteq {"compaction", "pending"}, dropped' \subseteq Nat
  PROVE  TranscriptTypes' /\ Bounded'
<1>1. /\ Len(rows) \in Nat /\ Len(rows') \in Nat /\ Len(rows) <= Len(rows')
      /\ Len(messages) \in Nat /\ Len(messages') \in Nat /\ Len(messages) <= Len(messages')
  BY PendingArePlaces DEF Longer
<1>2. firstKeptSeq \in Nat /\ firstKeptSeq <= Len(rows) + 1
      /\ prepared \in [kept : Seq(Message), index : Nat, keptSeqs : Seq(Nat), firstKeptSeq : Nat]
      /\ prepared.firstKeptSeq <= Len(rows) + 1 /\ compactions \in Nat
  BY DEF TranscriptTypes
<1>3. prepared.firstKeptSeq \in Nat /\ Len(prepared.kept) \in Nat /\ prepared.index \in Nat
      /\ \A i \in 1..Len(prepared.keptSeqs) : prepared.keptSeqs[i] \in Nat
  BY <1>2
<1>4. firstKeptSeq <= Len(rows') + 1 /\ prepared.firstKeptSeq <= Len(rows') + 1
  BY <1>1, <1>2, <1>3
<1>5. TranscriptTypes'
  BY <1>2, <1>4 DEF TranscriptTypes, Longer, Active
<1>6. phase' = "hook" => /\ prepared.index \in 2..Len(messages')
                         /\ Len(prepared.kept) + prepared.index - 1 <= Len(messages')
  BY <1>1, <1>3 DEF Bounded
<1>7. phase' = "summary" => /\ Len(prepared.kept) <= Len(prepared.keptSeqs)
                            /\ \A i \in 1..Len(prepared.keptSeqs) : prepared.keptSeqs[i] <= Len(rows')
                            /\ prepared.firstKeptSeq # 0
  <2> SUFFICES ASSUME phase' = "summary"
               PROVE  /\ Len(prepared.kept) <= Len(prepared.keptSeqs)
                      /\ \A i \in 1..Len(prepared.keptSeqs) : prepared.keptSeqs[i] <= Len(rows')
                      /\ prepared.firstKeptSeq # 0
    OBVIOUS
  <2>1. /\ Len(prepared.kept) <= Len(prepared.keptSeqs) /\ prepared.firstKeptSeq # 0
        /\ \A i \in 1..Len(prepared.keptSeqs) : prepared.keptSeqs[i] <= Len(rows)
    BY DEF Bounded
  <2>2. \A k \in Nat : k <= Len(rows) => k <= Len(rows')
    BY <1>1
  <2> QED BY <1>3, <2>1, <2>2
<1> QED BY <1>5, <1>6, <1>7 DEF Bounded, Longer

(* A list of one, and of two, new messages of the turn.                    *)
LEMMA SaysOne ==
  ASSUME TranscriptTypes, NEW role \in Role, NEW told \in Role
  PROVE  /\ <<Says(role, 1)>> \in Seq(Message) /\ Len(<<Says(role, 1)>>) = 1
         /\ <<Says(role, 1)>>[1].id = ids + 1
         /\ <<Says(told, 2)>> \in Seq(Message) /\ Len(<<Says(told, 2)>>) = 1
         /\ <<Says(told, 2)>>[1].id = ids + 2
         /\ <<>> \in Seq(Message) /\ Len(<<>>) = 0
<1>1. /\ Says(role, 1) \in Message /\ Says(role, 1).id = ids + 1
      /\ Says(told, 2) \in Message /\ Says(told, 2).id = ids + 2
  BY SaysMessage
<1>2. \A m \in Message : <<m>> \in Seq(Message) /\ Len(<<m>>) = 1 /\ <<m>>[1] = m
  OBVIOUS
<1> QED BY <1>1, <1>2

(* The steps of a turn keep the types.                                     *)
LEMMA TurnTypes ==
  ASSUME TranscriptTypes, Bounded,
         \/ TurnStarts \/ Declined \/ Asked \/ HostWorks
         \/ AsksModel \/ ToolStarts \/ RoundEnds \/ CutOff
         \/ GateAsks \/ EndsTurn
  PROVE  TranscriptTypes' /\ Bounded'
<1> USE DEF Phase
<1>0. /\ turns \in Nat /\ ids \in Nat /\ user \in Nat /\ user <= ids
      /\ ended \in {"none", "declined", "stopped", "done"}
      /\ raced \subseteq {"compaction", "pending"} /\ dropped \subseteq Nat
      /\ "user" \in Role /\ "reply" \in Role
      /\ Active => user # 0
  BY DEF TranscriptTypes, Role
<1>1. CASE TurnStarts
  <2>1. Longer
    BY <1>1, SameIsLonger DEF TurnStarts
  <2> QED BY <1>0, <1>1, <2>1, LongerKeepsTypes DEF TurnStarts
<1>2. CASE Declined
  <2>1. Longer /\ ids' \in {ids, ids + 1}
    BY <1>2, VerdictIsLonger DEF Declined
  <2> QED BY <1>0, <1>2, <2>1, LongerKeepsTypes DEF Declined, control
<1>3. CASE Asked
  <2>1. Longer
    BY <1>0, <1>3, SaysOne, PushIsLonger DEF Asked
  <2> QED BY <1>0, <1>3, <2>1, LongerKeepsTypes DEF Asked, control
<1>4. CASE HostWorks
  <2>1. Longer
    BY <1>0, <1>4, SaysOne, PushIsLonger, SameIsLonger DEF HostWorks
  <2>2. ids' \in {ids, ids + 1} /\ phase = "before" /\ phase' \in {"before", "between"}
    BY <1>4 DEF HostWorks
  <2>3. Active
    BY <2>2 DEF Active
  <2> QED BY <1>0, <1>4, <2>1, <2>2, <2>3, LongerKeepsTypes DEF HostWorks, control
<1>5. CASE AsksModel
  <2>1. Longer
    BY <1>5, SameIsLonger DEF AsksModel
  <2>2. Active
    BY <1>5 DEF AsksModel, Active
  <2> QED BY <1>0, <1>5, <2>1, <2>2, LongerKeepsTypes DEF AsksModel, control
<1>6. CASE ToolStarts
  <2>1. Longer
    BY <1>0, <1>6, SaysOne, AppendIsLonger DEF ToolStarts
  <2>2. Active
    BY <1>6 DEF ToolStarts, Active
  <2> QED BY <1>0, <1>6, <2>1, <2>2, LongerKeepsTypes DEF ToolStarts, control
<1>7. CASE RoundEnds
  <2>1. Longer
    BY <1>0, <1>7, SaysOne, AppendIsLonger DEF RoundEnds
  <2>2. Active
    BY <1>7 DEF RoundEnds, Active
  <2> QED BY <1>0, <1>7, <2>1, <2>2, LongerKeepsTypes DEF RoundEnds, control
<1>8. CASE CutOff
  <2>1. \/ UNCHANGED <<messages, messageSeqs, rows, ids>>
        \/ \E new, pushed \in Seq(Message) :
             AppendCompletedTurn(new, pushed) /\ ids' \in {ids + 1, ids + 2}
        \/ Push(<<Says("user", 1)>>) /\ ids' = ids + 1
    <3>1. ASSUME NEW told \in BOOLEAN,
                 AppendCompletedTurn(<<Says("reply", 1)>>, IF told THEN <<Says("user", 2)>> ELSE <<>>),
                 ids' = ids + (IF told THEN 2 ELSE 1)
          PROVE  \E new, pushed \in Seq(Message) :
                   AppendCompletedTurn(new, pushed) /\ ids' \in {ids + 1, ids + 2}
      <4>1. CASE told
        BY <1>0, <3>1, <4>1, SaysOne
      <4>2. CASE ~told
        BY <1>0, <3>1, <4>2, SaysOne
      <4> QED BY <4>1, <4>2
    <3> QED BY <1>8, <3>1 DEF CutOff
  <2>2. Longer /\ ids' \in {ids, ids + 1, ids + 2}
    <3>1. CASE Push(<<Says("user", 1)>>) /\ ids' = ids + 1
      BY <1>0, <3>1, SaysOne, PushIsLonger
    <3> QED BY <2>1, <3>1, AppendIsLonger, SameIsLonger
  <2>3. /\ phase = "round" /\ phase' \in {"between", "idle"} /\ ended' \in {ended, "stopped"}
        /\ UNCHANGED <<control, user, dropped>>
    BY <1>8 DEF CutOff
  <2>4. user # 0
    BY <1>0, <2>3 DEF Active
  <2> QED BY <1>0, <2>2, <2>3, <2>4, LongerKeepsTypes DEF control
<1>9. CASE GateAsks
  <2>1. Longer
    BY <1>0, <1>9, SaysOne, PushIsLonger DEF GateAsks
  <2>2. Active
    BY <1>9 DEF GateAsks, Active
  <2> QED BY <1>0, <1>9, <2>1, <2>2, LongerKeepsTypes DEF GateAsks, control
<1>10. CASE EndsTurn
  <2>1. Longer /\ ids' \in {ids, ids + 1}
    BY <1>10, VerdictIsLonger, SameIsLonger DEF EndsTurn
  <2> QED BY <1>0, <1>10, <2>1, LongerKeepsTypes DEF EndsTurn, control
<1> QED BY <1>1, <1>2, <1>3, <1>4, <1>5, <1>6, <1>7, <1>8, <1>9, <1>10

(* A notice keeps them, in whatever phase it comes.                        *)
LEMMA NoticeTypes ==
  ASSUME TranscriptTypes, Bounded, Notice
  PROVE  TranscriptTypes' /\ Bounded'
<1>1. /\ turns \in Nat /\ ids \in Nat /\ user \in Nat /\ user <= ids
      /\ ended \in {"none", "declined", "stopped", "done"} /\ phase \in Phase
      /\ raced \subseteq {"compaction", "pending"} /\ dropped \subseteq Nat
      /\ Active => user # 0
  BY DEF TranscriptTypes
<1>2. /\ UNCHANGED <<firstKeptSeq, turns, user, phase, prepared, compactions, ended>>
      /\ ids' = ids + 1
  BY DEF Notice
<1>3. raced' \subseteq {"compaction", "pending"} /\ dropped' \subseteq Nat
  <2>1. raced' \subseteq raced \cup {"compaction", "pending"} /\ dropped' \subseteq dropped \cup {ids + 1}
    BY DEF Notice
  <2>2. ids + 1 \in Nat
    BY <1>1
  <2> QED BY <1>1, <2>1, <2>2
<1>4. Longer
  BY NoticeIsLonger
<1>5. ids' \in Nat /\ user <= ids'
  BY <1>1, <1>2
<1> QED BY <1>1, <1>2, <1>3, <1>4, <1>5, LongerKeepsTypes DEF Active

(* Messages are taken from memory, and the phase is none of a compaction.  *)
LEMMA TakenKeepsTypes ==
  ASSUME TranscriptTypes, Bounded,
         \/ Taken
         \/ messages' = messages /\ messageSeqs' = messageSeqs /\ dropped' = dropped,
         UNCHANGED <<rows, firstKeptSeq, turns, ids, user, compactions, raced>>,
         prepared' \in {prepared, NotPrepared},
         phase' \in Phase, phase' \notin {"hook", "summary"},
         phase' \notin {"idle", "asked"} => Active,
         ended' \in {"none", "declined", "stopped", "done"}
  PROVE  TranscriptTypes' /\ Bounded'
<1>1. /\ Len(messages) \in Nat /\ Len(messageSeqs) \in Nat /\ Len(rows) \in Nat
      /\ Len(messages) <= Len(messageSeqs)
      /\ messages \in Seq(Message) /\ messageSeqs \in Seq(Nat) /\ dropped \subseteq Nat
  BY PendingArePlaces DEF Bounded, TranscriptTypes
<1>2. /\ prepared' \in [kept : Seq(Message), index : Nat, keptSeqs : Seq(Nat), firstKeptSeq : Nat]
      /\ prepared'.firstKeptSeq <= Len(rows) + 1
  <2>1. CASE prepared' = prepared
    BY <2>1 DEF TranscriptTypes
  <2>2. CASE prepared' = NotPrepared
    BY <1>1, <2>2 DEF NotPrepared
  <2> QED BY <2>1, <2>2
<1>3. /\ messages' \in Seq(Message) /\ messageSeqs' \in Seq(Nat) /\ dropped' \subseteq Nat
      /\ Len(messages') <= Len(messageSeqs')
      /\ \A i \in 1..Len(messageSeqs') : messageSeqs'[i] <= Len(rows)
  <2>1. CASE Taken
    <3>1. /\ messages' \in Seq(Message) /\ messageSeqs' \in Seq(Nat) /\ dropped' \subseteq Nat
          /\ Len(messageSeqs') - Len(messages') = Len(messageSeqs) - Len(messages)
          /\ \A i \in 1..Len(messageSeqs') :
               \E j \in 1..Len(messageSeqs) : messageSeqs'[i] = messageSeqs[j]
      BY <2>1 DEF Taken
    <3>2. Len(messages') \in Nat /\ Len(messageSeqs') \in Nat
      BY <3>1
    <3>3. Len(messages') <= Len(messageSeqs')
      BY <1>1, <3>1, <3>2
    <3>4. \A j \in 1..Len(messageSeqs) : messageSeqs[j] <= Len(rows)
      BY DEF Bounded
    <3> QED BY <3>1, <3>3, <3>4
  <2>2. CASE messages' = messages /\ messageSeqs' = messageSeqs /\ dropped' = dropped
    BY <1>1, <2>2 DEF Bounded
  <2> QED BY <2>1, <2>2
<1>4. TranscriptTypes'
  BY <1>2, <1>3 DEF TranscriptTypes, Active
<1> QED BY <1>3, <1>4 DEF Bounded

(* So do the steps that make room: a compaction, a trim, a turn that is    *)
(* discarded.                                                              *)
LEMMA MakingRoomTypes ==
  ASSUME TranscriptTypes, Bounded,
         \/ Discarded \/ CompactionStarts \/ HookReturns \/ Compacted \/ CompactionFails \/ TooLong
  PROVE  TranscriptTypes' /\ Bounded'
<1> USE DEF Phase
<1>0. /\ turns \in Nat /\ ids \in Nat /\ user \in Nat /\ user <= ids /\ compactions \in Nat
      /\ ended \in {"none", "declined", "stopped", "done"}
      /\ raced \subseteq {"compaction", "pending"} /\ dropped \subseteq Nat
      /\ messages \in Seq(Message) /\ messageSeqs \in Seq(Nat) /\ rows \in Seq(Message)
      /\ Len(messages) \in Nat /\ Len(messageSeqs) \in Nat /\ Len(rows) \in Nat
      /\ Len(messages) <= Len(messageSeqs)
      /\ firstKeptSeq \in Nat /\ firstKeptSeq <= Len(rows) + 1
      /\ Active => user # 0
      /\ prepared \in [kept : Seq(Message), index : Nat, keptSeqs : Seq(Nat), firstKeptSeq : Nat]
      /\ prepared.firstKeptSeq <= Len(rows) + 1
  BY PendingArePlaces DEF TranscriptTypes, Bounded
<1>1. CASE Discarded
  <2>1. /\ UNCHANGED <<rows, firstKeptSeq, turns, ids, user, compactions, raced>>
        /\ phase' = "idle" /\ ended' = "stopped" /\ prepared' = NotPrepared
    BY <1>1 DEF Discarded
  <2> QED BY <1>1, <2>1, DiscardTakes, TakenKeepsTypes
<1>2. CASE TooLong
  <2>1. Taken
    BY <1>2, TrimTakes DEF TooLong
  <2>2. /\ UNCHANGED <<rows, control, ids, user, ended>>
        /\ phase = "round" /\ phase' = "between"
    BY <1>2 DEF TooLong
  <2> QED BY <1>0, <2>1, <2>2, TakenKeepsTypes DEF control, Active
<1>3. CASE CompactionStarts
  <2>1. PICK cut \in (First + 1)..Len(messages) :
          prepared' = [NotPrepared EXCEPT !.kept = SubSeq(messages, cut, Len(messages)), !.index = cut]
    BY <1>3 DEF CompactionStarts
  <2>2. cut \in 2..Len(messages) /\ cut \in 1..(Len(messages) + 1) /\ cut \in Nat
    BY <1>0 DEF First
  <2>3. prepared' = [kept |-> SubSeq(messages, cut, Len(messages)), index |-> cut,
                     keptSeqs |-> <<>>, firstKeptSeq |-> 0]
    BY <2>1 DEF NotPrepared
  <2>4. /\ SubSeq(messages, cut, Len(messages)) \in Seq(Message)
        /\ Len(SubSeq(messages, cut, Len(messages))) = Len(messages) - cut + 1
    BY <1>0, <2>2, RestIs
  <2>5. /\ UNCHANGED <<messages, messageSeqs, rows, firstKeptSeq, turns, ids, user, compactions, ended,
                       raced, dropped>>
        /\ phase = "between" /\ phase' = "hook"
    BY <1>3 DEF CompactionStarts
  <2>6. /\ prepared' \in [kept : Seq(Message), index : Nat, keptSeqs : Seq(Nat), firstKeptSeq : Nat]
        /\ prepared'.firstKeptSeq <= Len(rows) + 1
        /\ prepared'.index \in 2..Len(messages)
        /\ Len(prepared'.kept) + prepared'.index - 1 <= Len(messages)
    BY <1>0, <2>2, <2>3, <2>4
  <2>7. TranscriptTypes'
    BY <1>0, <2>5, <2>6 DEF TranscriptTypes, Active
  <2> QED BY <2>5, <2>6, <2>7 DEF Bounded
<1>4. CASE HookReturns
  <2> DEFINE keptSeqs == SubSeq(messageSeqs, prepared.index, Len(messageSeqs))
             stored   == {k \in DOMAIN keptSeqs : keptSeqs[k] # Null}
             kept     == IF stored = {} THEN Len(rows) + 1 ELSE keptSeqs[Nth(1, stored)]
  <2>1. /\ prepared' = [prepared EXCEPT !.keptSeqs = keptSeqs, !.firstKeptSeq = kept]
        /\ UNCHANGED <<messages, messageSeqs, rows, firstKeptSeq, turns, ids, user, compactions, ended,
                       raced, dropped>>
        /\ phase = "hook" /\ phase' = "summary"
    BY <1>4 DEF HookReturns
  <2>2. /\ prepared.index \in 2..Len(messages) /\ prepared.index \in Nat
        /\ Len(prepared.kept) + prepared.index - 1 <= Len(messages) /\ Len(prepared.kept) \in Nat
    BY <1>0, <2>1 DEF Bounded
  <2>3. prepared.index \in 1..(Len(messageSeqs) + 1) /\ messageSeqs \in Seq(Nat)
    <3>1. Len(messages) \in Nat /\ Len(messageSeqs) \in Nat /\ Len(messages) <= Len(messageSeqs)
      BY <1>0
    <3>2. messageSeqs \in Seq(Nat)
      BY <1>0
    <3> QED BY <2>2, <3>1, <3>2
  <2> DEFINE x == prepared.index
             l == Len(messageSeqs)
  <2>4. /\ keptSeqs \in Seq(Nat) /\ Len(keptSeqs) = l - x + 1
        /\ \A j \in 1..(l - x + 1) : keptSeqs[j] = messageSeqs[j + x - 1]
    BY <2>3, RestIs
  <2>41. x \in Nat /\ x >= 1 /\ l \in Nat
    BY <1>0, <2>2
  <2>42. \A j \in 1..l : messageSeqs[j] <= Len(rows) /\ messageSeqs[j] \in Nat
    BY <1>0 DEF Bounded
  <2> HIDE DEF keptSeqs
  <2>5. ASSUME NEW j \in 1..Len(keptSeqs) PROVE keptSeqs[j] <= Len(rows) /\ keptSeqs[j] \in Nat
    <3> HIDE DEF x, l
    <3>1. j + x - 1 \in 1..l /\ j \in 1..(l - x + 1)
      BY <2>4, <2>41
    <3>2. keptSeqs[j] = messageSeqs[j + x - 1]
      BY <2>4, <3>1
    <3> QED BY <2>42, <3>1, <3>2
  <2>6. kept \in Nat /\ kept <= Len(rows) + 1 /\ kept # 0
    <3>1. CASE stored = {}
      BY <1>0, <3>1
    <3>2. CASE stored # {}
      <4>1. stored \in SUBSET (1..Len(keptSeqs)) /\ stored \in SUBSET Nat /\ IsFiniteSet(stored)
        <5>1. Len(keptSeqs) \in Nat /\ DOMAIN keptSeqs = 1..Len(keptSeqs)
          BY <2>4
        <5>2. stored \in SUBSET (1..Len(keptSeqs)) /\ stored \in SUBSET Nat
          BY <5>1
        <5>3. IsFiniteSet(1..Len(keptSeqs))
          BY <5>1, FS_Interval
        <5> HIDE DEF stored
        <5> QED BY <5>2, <5>3, FS_Subset
      <4>2. Nth(1, stored) \in stored
        <5> HIDE DEF stored
        <5> QED BY <3>2, <4>1, FirstIsLowest
      <4>3. Nth(1, stored) \in 1..Len(keptSeqs) /\ keptSeqs[Nth(1, stored)] # 0
        BY <4>1, <4>2 DEF Null
      <4>4. keptSeqs[Nth(1, stored)] <= Len(rows) /\ keptSeqs[Nth(1, stored)] \in Nat
        BY <2>5, <4>3
      <4> HIDE DEF stored
      <4> QED BY <1>0, <3>2, <4>3, <4>4
    <3> QED BY <3>1, <3>2
  <2> HIDE DEF kept, stored
  <2>7. /\ prepared' \in [kept : Seq(Message), index : Nat, keptSeqs : Seq(Nat), firstKeptSeq : Nat]
        /\ prepared'.kept = prepared.kept /\ prepared'.keptSeqs = keptSeqs /\ prepared'.firstKeptSeq = kept
    BY <1>0, <2>1, <2>4, <2>6
  <2>8. TranscriptTypes'
    BY <1>0, <2>1, <2>6, <2>7 DEF TranscriptTypes, Active
  <2>9. Len(prepared.kept) <= Len(keptSeqs)
    BY <1>0, <2>2, <2>4
  <2>10. /\ Len(messages) <= Len(messageSeqs)
         /\ \A i \in 1..Len(messageSeqs) : messageSeqs[i] <= Len(rows)
    BY DEF Bounded
  <2> QED BY <2>1, <2>5, <2>6, <2>7, <2>8, <2>9, <2>10 DEF Bounded
<1>5. CASE Compacted
  <2>1. /\ messages' = <<Summary>> \o prepared.kept /\ messageSeqs' = <<Null>> \o prepared.keptSeqs
        /\ firstKeptSeq' = prepared.firstKeptSeq /\ compactions' = compactions + 1
        /\ UNCHANGED <<rows, turns, ids, user, ended, raced, dropped>>
        /\ phase = "summary" /\ phase' = "between" /\ prepared' = NotPrepared
    BY <1>5 DEF Compacted
  <2>2. /\ prepared.kept \in Seq(Message) /\ prepared.keptSeqs \in Seq(Nat) /\ prepared.firstKeptSeq \in Nat
        /\ Len(prepared.kept) \in Nat /\ Len(prepared.keptSeqs) \in Nat
        /\ Summary \in Message /\ Null \in Nat
    BY <1>0 DEF Summary, Message, Role, Null
  <2>3. messages' \in Seq(Message) /\ Len(messages') = Len(prepared.kept) + 1
    BY <2>1, <2>2, BehindIs
  <2>4. /\ messageSeqs' \in Seq(Nat) /\ Len(messageSeqs') = Len(prepared.keptSeqs) + 1
        /\ messageSeqs'[1] = Null
        /\ \A j \in 1..Len(prepared.keptSeqs) : messageSeqs'[j + 1] = prepared.keptSeqs[j]
    BY <2>1, <2>2, BehindIs
  <2>5. /\ Len(prepared.kept) <= Len(prepared.keptSeqs)
        /\ \A i \in 1..Len(prepared.keptSeqs) : prepared.keptSeqs[i] <= Len(rows)
    BY <2>1 DEF Bounded
  <2>6. ASSUME NEW i \in 1..Len(messageSeqs') PROVE messageSeqs'[i] <= Len(rows)
    <3>1. CASE i = 1
      BY <1>0, <2>4, <3>1 DEF Null
    <3>2. CASE i - 1 \in 1..Len(prepared.keptSeqs)
      <4>1. i - 1 + 1 = i
        BY <2>2, <2>4
      <4> QED BY <2>4, <2>5, <3>2, <4>1
    <3> QED BY <2>2, <2>4, <3>1, <3>2
  <2>7. Len(messages') <= Len(messageSeqs')
    BY <2>2, <2>3, <2>4, <2>5
  <2>8. /\ prepared' \in [kept : Seq(Message), index : Nat, keptSeqs : Seq(Nat), firstKeptSeq : Nat]
        /\ prepared'.firstKeptSeq <= Len(rows) + 1
    BY <1>0, <2>1 DEF NotPrepared
  <2>9. TranscriptTypes'
    BY <1>0, <2>1, <2>2, <2>3, <2>4, <2>8 DEF TranscriptTypes, Active
  <2> QED BY <2>1, <2>6, <2>7, <2>9 DEF Bounded
<1>6. CASE CompactionFails
  <2>1. /\ UNCHANGED <<messages, messageSeqs, rows, firstKeptSeq, turns, ids, user, compactions, ended,
                       raced, dropped>>
        /\ phase = "summary" /\ phase' = "between" /\ prepared' = NotPrepared
    BY <1>6 DEF CompactionFails
  <2> QED BY <1>0, <2>1, TakenKeepsTypes DEF Active
<1> QED BY <1>1, <1>2, <1>3, <1>4, <1>5, <1>6

(* So does a session that is opened again.                                 *)
LEMMA ReopensTypes ==
  ASSUME TranscriptTypes, Bounded, Reopens
  PROVE  TranscriptTypes' /\ Bounded'
<1> DEFINE m == IF firstKeptSeq = 0 THEN 0 ELSE 1
           n == Len(rows) + 1 - FirstKept
<1>1. /\ FirstKept \in 1..(Len(rows) + 1) /\ n \in Nat /\ m \in {0, 1}
      /\ messages' \in Seq(Message) /\ Len(messages') = m + n
      /\ messageSeqs' \in Seq(Nat) /\ Len(messageSeqs') = m + n
      /\ m = 1 => messageSeqs'[1] = Null
      /\ \A k \in 1..n : messageSeqs'[m + k] = FirstKept + k - 1
  BY ReopenedIs
<1>2. /\ UNCHANGED <<rows, firstKeptSeq, turns, ids, compactions>>
      /\ user' = 0 /\ phase' = "idle" /\ prepared' = NotPrepared /\ ended' = "none"
      /\ raced' \subseteq raced /\ dropped' = {}
  BY DEF Reopens
<1>3. Len(rows) \in Nat
  BY PendingArePlaces
<1> DEFINE f == FirstKept
<1>4. n = Len(rows) + 1 - f /\ f \in 1..(Len(rows) + 1) /\ f \in Nat
  BY <1>1, <1>3
<1> HIDE DEF m, n, f
<1>5. ASSUME NEW i \in 1..Len(messageSeqs') PROVE messageSeqs'[i] <= Len(rows)
  <2>1. CASE m = 1 /\ i = 1
    BY <1>1, <1>3, <2>1 DEF Null
  <2>2. CASE i - m \in 1..n
    <3>1. m + (i - m) = i
      BY <1>1
    <3>2. messageSeqs'[i] = f + (i - m) - 1
      BY <1>1, <2>2, <3>1 DEF f
    <3>3. i - m <= n /\ i - m \in Nat
      BY <1>1, <2>2
    <3> QED BY <1>3, <1>4, <3>2, <3>3
  <2> QED BY <1>1, <2>1, <2>2
<1>6. /\ prepared' \in [kept : Seq(Message), index : Nat, keptSeqs : Seq(Nat), firstKeptSeq : Nat]
      /\ prepared'.firstKeptSeq <= Len(rows) + 1
  BY <1>2, <1>3 DEF NotPrepared
<1>7. Len(messages') <= Len(messageSeqs')
  BY <1>1
<1>8. TranscriptTypes'
  BY <1>1, <1>2, <1>6 DEF TranscriptTypes, Active, Phase
<1> QED BY <1>2, <1>5, <1>7, <1>8 DEF Bounded

(* A new session is typed.                                                 *)
LEMMA TranscriptTypesInit ==
  ASSUME TranscriptInit PROVE TranscriptTypes /\ Bounded
<1>1. \A S : <<>> \in Seq(S) /\ Len(<<>>) = 0
  OBVIOUS
<1> QED BY <1>1 DEF TranscriptInit, TranscriptTypes, Bounded, Phase, Active, NotPrepared

(* Every step keeps the types.                                             *)
LEMMA TranscriptTypesStep ==
  ASSUME TranscriptTypes, Bounded, [TranscriptNext]_transcriptVars
  PROVE  TranscriptTypes' /\ Bounded'
<1>1. CASE UNCHANGED transcriptVars
  BY <1>1 DEF transcriptVars, TranscriptTypes, Bounded, Active
<1>2. CASE TranscriptNext
  BY <1>2, TurnTypes, NoticeTypes, MakingRoomTypes, ReopensTypes DEF TranscriptNext
<1> QED BY <1>1, <1>2

-----------------------------------------------------------------------------
(* Memory and the table agree, unless a notice came between the reads of a *)
(* compaction.                                                             *)
Aligned ==
    "compaction" \notin raced =>
        /\ Stores(rows, ids) /\ Agrees(messages, messageSeqs, rows, ids) /\ NamedByFirst
        /\ phase = "hook" => prepared.kept = SubSeq(messages, prepared.index, Len(messages))
        /\ phase = "summary" =>
            /\ Agrees(prepared.kept, prepared.keptSeqs, rows, ids)
            /\ \A i \in 1..Len(prepared.kept) : prepared.kept[i].id # 0

(* The lists and the table grow, and each new message has a new id.        *)
Grown ==
    /\ Grows(messages, messageSeqs, rows, messages', messageSeqs', rows')
    /\ NewIds(messages, messages', ids)
    /\ ids' = ids + (Len(messages') - Len(messages))

(* The lists of the session, before and after a step, are lists.           *)
LEMMA TranscriptLists ==
  ASSUME TranscriptTypes, Bounded, TranscriptTypes', Bounded'
  PROVE  /\ List(messages) /\ List(rows) /\ List(messages') /\ List(rows') /\ List(prepared.kept)
         /\ Len(messageSeqs) = Len(messages) => PlacesOf(messages, messageSeqs)
         /\ Len(messageSeqs') = Len(messages') => PlacesOf(messages', messageSeqs')
         /\ Len(prepared.keptSeqs) = Len(prepared.kept) => PlacesOf(prepared.kept, prepared.keptSeqs)
<1>1. /\ messages \in Seq(Message) /\ rows \in Seq(Message) /\ messageSeqs \in Seq(Nat)
      /\ messages' \in Seq(Message) /\ rows' \in Seq(Message) /\ messageSeqs' \in Seq(Nat)
      /\ prepared.kept \in Seq(Message) /\ prepared.keptSeqs \in Seq(Nat)
  BY DEF TranscriptTypes
<1> QED BY <1>1, ListsAreLists

(* Lists that grow stay aligned.                                           *)
LEMMA GrownKeepsAligned ==
  ASSUME TranscriptTypes, Bounded, TranscriptTypes', Bounded', Aligned,
         "compaction" \notin raced, Grown
  PROVE  Stores(rows', ids') /\ Agrees(messages', messageSeqs', rows', ids') /\ NamedByFirst'
<1>1. Stores(rows, ids) /\ Agrees(messages, messageSeqs, rows, ids) /\ NamedByFirst
  BY DEF Aligned
<1>2. Len(messageSeqs) = Len(messages)
  BY <1>1 DEF Agrees
<1>3. Len(messageSeqs') = Len(messages')
  BY DEF Grown, Grows
<1>4. /\ List(messages) /\ List(rows) /\ List(messages') /\ List(rows')
      /\ PlacesOf(messages, messageSeqs) /\ PlacesOf(messages', messageSeqs')
  BY <1>2, <1>3, TranscriptLists
<1>5. ids \in Nat
  BY DEF TranscriptTypes
<1>6. Agrees(messages', messageSeqs', rows', ids') /\ Stores(rows', ids')
  <2>1. /\ Grows(messages, messageSeqs, rows, messages', messageSeqs', rows')
        /\ NewIds(messages, messages', ids)
        /\ ids' = ids + (Len(messages') - Len(messages))
    BY DEF Grown
  <2> QED BY <1>1, <1>4, <1>5, <2>1, GrownAgrees
<1>7. ASSUME NEW i \in 2..Len(messages') PROVE messages'[i].id # 0
  <2>0. Len(messages) \in Nat /\ Len(messages') \in Nat
    BY <1>4 DEF List
  <2>1. CASE i \in (Len(messages) + 1)..Len(messages')
    <3>1. messages'[i].id = ids + (i - Len(messages))
      BY <2>1 DEF Grown, NewIds
    <3> QED BY <1>5, <2>0, <2>1, <3>1
  <2>2. CASE i \in 2..Len(messages)
    <3>1. i \in 1..Len(messages)
      BY <2>0, <2>2
    <3>2. messages'[i] = messages[i]
      BY <3>1 DEF Grown, Grows
    <3>3. messages[i].id # 0
      BY <1>1, <2>2 DEF NamedByFirst
    <3> QED BY <3>2, <3>3
  <2> QED BY <2>0, <2>1, <2>2
<1> QED BY <1>6, <1>7 DEF NamedByFirst

(* What the turn's own steps do to the lists.                              *)
TurnStep ==
    \/ TurnStarts \/ Declined \/ Asked \/ HostWorks
    \/ AsksModel \/ ToolStarts \/ RoundEnds \/ CutOff
    \/ GateAsks \/ EndsTurn

(* A message that is pushed,                                               *)
LEMMA PushIsGrown ==
  ASSUME TranscriptTypes, Len(messageSeqs) = Len(messages),
         NEW m \in Message, m.id = ids + 1, Push(<<m>>), ids' = ids + 1
  PROVE  Grown
<1>1. <<m>> \in Seq(Message) /\ Len(<<m>>) = 1 /\ \A k \in 1..1 : <<m>>[k].id = ids + k
  OBVIOUS
<1>2. /\ Grows(messages, messageSeqs, rows, messages', messageSeqs', rows')
      /\ NewIds(messages, messages', ids)
  BY <1>1, PushedGrows
<1>3. Len(messages') = Len(messages) + 1
  BY <1>1, PushIs
<1>4. Len(messages) \in Nat
  BY PendingArePlaces
<1> QED BY <1>2, <1>3, <1>4 DEF Grown

(* and messages that are appended, let the lists grow.                     *)
LEMMA AppendIsGrown ==
  ASSUME TranscriptTypes, Len(messageSeqs) = Len(messages), NamedByFirst,
         NEW new \in Seq(Message), NEW pushed \in Seq(Message),
         AppendCompletedTurn(new, pushed),
         \A k \in 1..Len(new) : new[k].id = ids + k,
         \A k \in 1..Len(pushed) : pushed[k].id = ids + Len(new) + k,
         ids' = ids + Len(new) + Len(pushed)
  PROVE  Grown
<1>1. /\ Grows(messages, messageSeqs, rows, messages', messageSeqs', rows')
      /\ NewIds(messages, messages', ids)
  BY AppendedGrows
<1>2. Len(messages') = Len(messages) + Len(new) + Len(pushed)
  BY AppendedIs
<1>3. Len(messages) \in Nat /\ Len(new) \in Nat /\ Len(pushed) \in Nat /\ ids \in Nat
  BY PendingArePlaces DEF TranscriptTypes
<1> QED BY <1>1, <1>2, <1>3 DEF Grown

(* The three forms a step of the turn has.                                 *)
Appends ==
    \E new, pushed \in Seq(Message) :
        /\ AppendCompletedTurn(new, pushed)
        /\ \A k \in 1..Len(new) : new[k].id = ids + k
        /\ \A k \in 1..Len(pushed) : pushed[k].id = ids + Len(new) + k
        /\ ids' = ids + Len(new) + Len(pushed)

(* One new message waits.                                                  *)
Pushes == \E m \in Message : m.id = ids + 1 /\ Push(<<m>>) /\ ids' = ids + 1

(* Nothing joins the lists.                                                *)
Stays == UNCHANGED <<messages, messageSeqs, rows, ids>>

(* What is appended, in the form above.                                    *)
LEMMA AppendsBy ==
  ASSUME NEW new \in Seq(Message), NEW pushed \in Seq(Message), AppendCompletedTurn(new, pushed),
         \A k \in 1..Len(new) : new[k].id = ids + k,
         \A k \in 1..Len(pushed) : pushed[k].id = ids + Len(new) + k,
         ids' = ids + Len(new) + Len(pushed)
  PROVE  Appends
BY Zenon DEF Appends

(* Every step of the turn has one of the forms.                            *)
LEMMA TurnForms ==
  ASSUME TranscriptTypes, TurnStep
  PROVE  /\ \/ Appends /\ ToolStarts
            \/ Appends /\ RoundEnds
            \/ Appends /\ CutOff
            \/ Pushes /\ phase = "asked" /\ phase' = "before" /\ user' = ids + 1
            \/ Pushes /\ phase \notin {"idle", "asked"} /\ user' = user
            \/ Pushes /\ phase' = "idle"
            \/ Rewritten /\ phase' = "idle"
            \/ Stays /\ phase' \in {"idle", "asked"}
            \/ Stays /\ phase \notin {"idle", "asked"} /\ user' = user
         /\ UNCHANGED <<firstKeptSeq, prepared, raced, dropped>>
         /\ phase' \notin {"hook", "summary"}
<1>0. ids \in Nat /\ "user" \in Role /\ "reply" \in Role
  BY DEF TranscriptTypes, Role
<1>1. \A role \in Role : /\ Says(role, 1) \in Message /\ Says(role, 1).id = ids + 1
                         /\ Says(role, 2) \in Message /\ Says(role, 2).id = ids + 2
  BY SaysMessage
<1>2. ASSUME NEW m \in Message, m.id = ids + 1
      PROVE  /\ <<m>> \in Seq(Message) /\ Len(<<m>>) = 1
             /\ \A k \in 1..Len(<<m>>) : <<m>>[k].id = ids + k
  BY <1>2
<1>3. /\ <<>> \in Seq(Message) /\ Len(<<>>) = 0
      /\ \A n : \A k \in 1..Len(<<>>) : <<>>[k].id = n + k
  OBVIOUS
<1>4. CASE TurnStarts
  BY <1>4 DEF TurnStarts, Stays
<1>5. CASE Declined
  BY <1>5, VerdictIs DEF Declined, control, Pushes
<1>6. CASE Asked
  BY <1>0, <1>1, <1>6 DEF Asked, control, Pushes
<1>7. CASE HostWorks
  BY <1>0, <1>1, <1>7 DEF HostWorks, control, Pushes, Stays
<1>8. CASE AsksModel
  BY <1>8 DEF AsksModel, control, Stays
<1>9. CASE ToolStarts
  <2>1. AppendCompletedTurn(<<>>, <<>>) /\ ids' = ids
    BY <1>9 DEF ToolStarts, control
  <2>2. Appends
    <3>1. /\ <<>> \in Seq(Message) /\ ids' = ids + Len(<<>>) + Len(<<>>)
          /\ \A k \in 1..Len(<<>>) : <<>>[k].id = ids + k
          /\ \A k \in 1..Len(<<>>) : <<>>[k].id = ids + Len(<<>>) + k
      BY <1>0, <1>3, <2>1
    <3> QED BY <2>1, <3>1, AppendsBy, Zenon
  <2> QED BY <1>9, <2>2 DEF ToolStarts, control
<1>10. CASE RoundEnds
  <2>1. AppendCompletedTurn(<<Says("reply", 1)>>, <<>>) /\ ids' = ids + 1
    BY <1>10 DEF RoundEnds, control
  <2> DEFINE one == <<Says("reply", 1)>>
  <2>2. one \in Seq(Message) /\ Len(one) = 1 /\ \A k \in 1..Len(one) : one[k].id = ids + k
    BY <1>0, <1>1, <1>2
  <2> HIDE DEF one
  <2>3. Appends
    <3>1. AppendCompletedTurn(one, <<>>)
      BY <2>1 DEF one
    <3>2. /\ <<>> \in Seq(Message) /\ ids' = ids + Len(one) + Len(<<>>)
          /\ \A k \in 1..Len(<<>>) : <<>>[k].id = ids + Len(one) + k
      BY <1>0, <1>3, <2>1, <2>2
    <3> QED BY <2>2, <3>1, <3>2, AppendsBy, Zenon
  <2> QED BY <1>10, <2>3 DEF RoundEnds, control
<1>11. CASE CutOff
  <2>1. \/ Appends \/ Stays
        \/ Push(<<Says("user", 1)>>) /\ ids' = ids + 1
    <3>1. ASSUME NEW told \in BOOLEAN,
                 AppendCompletedTurn(<<Says("reply", 1)>>, IF told THEN <<Says("user", 2)>> ELSE <<>>),
                 ids' = ids + (IF told THEN 2 ELSE 1)
          PROVE  Appends
      <4> DEFINE one == <<Says("reply", 1)>>
                 two == IF told THEN <<Says("user", 2)>> ELSE <<>>
      <4>1. one \in Seq(Message) /\ Len(one) = 1 /\ \A k \in 1..Len(one) : one[k].id = ids + k
        BY <1>0, <1>1, <1>2
      <4>2. /\ two \in Seq(Message) /\ Len(two) = (IF told THEN 1 ELSE 0)
            /\ \A k \in 1..Len(two) : two[k].id = ids + 1 + k
        BY <1>0, <1>1, <1>3
      <4>3. AppendCompletedTurn(one, two)
        BY <3>1
      <4> HIDE DEF one, two
      <4>4. /\ ids' = ids + Len(one) + Len(two)
            /\ \A k \in 1..Len(two) : two[k].id = ids + Len(one) + k
        BY <1>0, <3>1, <4>1, <4>2
      <4> QED BY <4>1, <4>2, <4>3, <4>4, AppendsBy, Zenon
    <3> QED BY <1>11, <3>1 DEF CutOff, Stays
  <2>2. /\ phase = "round" /\ phase' \in {"between", "idle"} /\ user' = user
        /\ UNCHANGED <<firstKeptSeq, prepared, raced, dropped>>
    BY <1>11 DEF CutOff, control
  <2>3. CASE Push(<<Says("user", 1)>>) /\ ids' = ids + 1
    <3>1. Pushes
      BY <1>0, <1>1, <2>3 DEF Pushes
    <3> QED BY <2>2, <3>1
  <2> QED BY <1>11, <2>1, <2>2, <2>3
<1>12. CASE GateAsks
  BY <1>0, <1>1, <1>12 DEF GateAsks, control, Pushes
<1>13. CASE EndsTurn
  BY <1>13, VerdictIs DEF EndsTurn, control, Pushes, Stays
<1> QED BY <1>4, <1>5, <1>6, <1>7, <1>8, <1>9, <1>10, <1>11, <1>12, <1>13 DEF TurnStep

(* Lists that stay grow by nothing.                                        *)
LEMMA StaysIsGrown ==
  ASSUME TranscriptTypes, Len(messageSeqs) = Len(messages), Stays
  PROVE  Grown
<1>1. Len(messages) \in Nat /\ Len(rows) \in Nat /\ ids \in Nat
  BY PendingArePlaces DEF TranscriptTypes
<1>2. messages' = messages /\ messageSeqs' = messageSeqs /\ rows' = rows /\ ids' = ids
  BY DEF Stays
<1>3. /\ \A i \in 1..Len(messages) : ~(i > Len(messages))
      /\ (Len(messages) + 1)..Len(messages) = {} /\ (Len(rows) + 1)..Len(rows) = {}
      /\ Len(messages) <= Len(messages) /\ Len(rows) <= Len(rows)
  BY <1>1
<1>4. Grows(messages, messageSeqs, rows, messages', messageSeqs', rows')
  BY <1>2, <1>3 DEF Grows, Fresh
<1>5. NewIds(messages, messages', ids) /\ ids' = ids + (Len(messages') - Len(messages))
  BY <1>1, <1>2, <1>3 DEF NewIds
<1> QED BY <1>4, <1>5 DEF Grown

(* So a step of the turn lets the lists grow, or is a verdict.             *)
LEMMA TurnGrows ==
  ASSUME TranscriptTypes, Len(messageSeqs) = Len(messages), NamedByFirst, TurnStep
  PROVE  Grown \/ Rewritten
<1>1. CASE Appends
  <2>1. PICK new, pushed \in Seq(Message) :
          /\ AppendCompletedTurn(new, pushed)
          /\ \A k \in 1..Len(new) : new[k].id = ids + k
          /\ \A k \in 1..Len(pushed) : pushed[k].id = ids + Len(new) + k
          /\ ids' = ids + Len(new) + Len(pushed)
    BY <1>1 DEF Appends
  <2> QED BY <2>1, AppendIsGrown
<1>2. CASE Pushes
  BY <1>2, PushIsGrown DEF Pushes
<1>3. CASE Stays
  BY <1>3, StaysIsGrown
<1> QED BY <1>1, <1>2, <1>3, TurnForms

(* A verdict keeps the lists aligned,                                      *)
LEMMA RewrittenKeepsAligned ==
  ASSUME TranscriptTypes, Aligned, "compaction" \notin raced, Rewritten
  PROVE  Stores(rows', ids') /\ Agrees(messages', messageSeqs', rows', ids') /\ NamedByFirst'
<1>1. Stores(rows, ids) /\ Agrees(messages, messageSeqs, rows, ids) /\ NamedByFirst
  BY DEF Aligned
<1>2. /\ Len(messages') = Len(messages) /\ Len(rows') = Len(rows)
      /\ \A i \in 1..Len(messages) : messages'[i].id = messages[i].id
      /\ \A s \in 1..Len(rows) : rows'[s].id = rows[s].id
      /\ \A i \in 1..Len(messages) : messageSeqs[i] # Null => rows'[messageSeqs[i]] = messages'[i]
      /\ messageSeqs' = messageSeqs /\ ids' = ids
  BY <1>1 DEF Rewritten
<1>3. Agrees(messages', messageSeqs, rows', ids) /\ Stores(rows', ids)
  BY <1>1, <1>2, RewrittenAgrees
<1>4. \A i \in 2..Len(messages) : i \in 1..Len(messages)
  BY PendingArePlaces
<1> QED BY <1>1, <1>2, <1>3, <1>4 DEF NamedByFirst

(* and so does every step of the turn.                                     *)
LEMMA TurnAligned ==
  ASSUME TranscriptTypes, Bounded, TranscriptTypes', Bounded', Aligned, TurnStep
  PROVE  Aligned'
<1>1. raced' = raced /\ phase' \notin {"hook", "summary"}
  BY TurnForms
<1> SUFFICES ASSUME "compaction" \notin raced
             PROVE  Stores(rows', ids') /\ Agrees(messages', messageSeqs', rows', ids') /\ NamedByFirst'
  BY <1>1 DEF Aligned
<1>2. Len(messageSeqs) = Len(messages) /\ NamedByFirst
  BY DEF Aligned, Agrees
<1> QED BY <1>2, TurnGrows, GrownKeepsAligned, RewrittenKeepsAligned

(* A notice lets the lists grow.                                           *)
LEMMA NoticeIsGrown ==
  ASSUME TranscriptTypes, Len(messageSeqs) = Len(messages), Notice
  PROVE  Grown
<1>1. /\ Grows(messages, messageSeqs, rows, messages', messageSeqs', rows')
      /\ NewIds(messages, messages', ids)
  BY NoticeGrows
<1>2. Len(messages') = Len(messages) + 1 /\ ids' = ids + 1
  BY NoticeIs DEF Notice
<1>3. Len(messages) \in Nat
  BY PendingArePlaces
<1> QED BY <1>1, <1>2, <1>3 DEF Grown

(* It keeps them aligned; when it comes while a compaction waits for its   *)
(* hook, that is marked.                                                   *)
LEMMA NoticeAligned ==
  ASSUME TranscriptTypes, Bounded, TranscriptTypes', Bounded', Aligned, Notice
  PROVE  Aligned'
<1>1. /\ phase' = phase /\ prepared' = prepared /\ ids' = ids + 1
      /\ "compaction" \notin raced' => "compaction" \notin raced /\ phase # "hook"
  BY DEF Notice
<1> SUFFICES ASSUME "compaction" \notin raced, phase # "hook"
             PROVE  /\ Stores(rows', ids') /\ Agrees(messages', messageSeqs', rows', ids') /\ NamedByFirst'
                    /\ phase = "summary" =>
                         /\ Agrees(prepared.kept, prepared.keptSeqs, rows', ids')
                         /\ \A i \in 1..Len(prepared.kept) : prepared.kept[i].id # 0
  BY <1>1 DEF Aligned
<1>2. Len(messageSeqs) = Len(messages)
  BY DEF Aligned, Agrees
<1>3. Stores(rows', ids') /\ Agrees(messages', messageSeqs', rows', ids') /\ NamedByFirst'
  BY <1>2, NoticeIsGrown, GrownKeepsAligned
<1>4. ASSUME phase = "summary"
      PROVE  /\ Agrees(prepared.kept, prepared.keptSeqs, rows', ids + 1)
             /\ \A i \in 1..Len(prepared.kept) : prepared.kept[i].id # 0
  <2> DEFINE kept == prepared.kept
             seqs == prepared.keptSeqs
  <2>1. Agrees(kept, seqs, rows, ids) /\ \A i \in 1..Len(kept) : kept[i].id # 0
    BY <1>4 DEF Aligned
  <2>2. List(kept) /\ Len(seqs) = Len(kept)
    BY <2>1, TranscriptLists DEF Agrees
  <2> HIDE DEF kept, seqs
  <2>3. /\ Len(rows) \in Nat /\ Len(rows') = Len(rows) + 1 /\ ids \in Nat
        /\ \A s \in 1..Len(rows) : rows'[s] = rows[s]
        /\ rows'[Len(rows) + 1].id = ids + 1
    <3>1. /\ Len(rows') = Len(rows) + 1 /\ \A s \in 1..Len(rows) : rows'[s] = rows[s]
          /\ rows'[Len(rows) + 1] = messages'[Len(messages) + 1]
          /\ messages'[Len(messages) + 1].id = ids + 1
      BY NoticeIs
    <3>2. Len(rows) \in Nat /\ ids \in Nat
      BY PendingArePlaces DEF TranscriptTypes
    <3> QED BY <3>1, <3>2
  <2>4. \A i \in 1..Len(kept) : kept[i].id <= ids + 1 /\ kept[i].id # ids + 1
    BY <2>1, <2>2, <2>3 DEF Agrees, List
  <2>5. ASSUME NEW i \in 1..Len(kept), seqs[i] # Null
        PROVE  seqs[i] \in 1..Len(rows') /\ rows'[seqs[i]] = kept[i]
    <3>1. seqs[i] \in 1..Len(rows) /\ rows[seqs[i]] = kept[i]
      BY <2>1, <2>5 DEF Agrees
    <3> QED BY <2>3, <3>1
  <2>6. ASSUME NEW i \in 1..Len(kept), NEW s \in 1..Len(rows'), seqs[i] = Null
        PROVE  rows'[s].id # kept[i].id
    <3>1. CASE s \in 1..Len(rows)
      BY <2>1, <2>3, <2>6, <3>1 DEF Agrees
    <3>2. CASE s = Len(rows) + 1
      BY <2>3, <2>4, <3>2
    <3> QED BY <2>3, <3>1, <3>2
  <2>7. Agrees(kept, seqs, rows', ids + 1)
    BY <2>1, <2>2, <2>4, <2>5, <2>6 DEF Agrees
  <2> QED BY <2>1, <2>7 DEF kept, seqs
<1> QED BY <1>1, <1>3, <1>4

(* What is taken from memory leaves the rest aligned.                      *)
LEMMA TakenAligned ==
  ASSUME TranscriptTypes, Bounded, TranscriptTypes', Bounded', Aligned,
         \/ Taken
         \/ messages' = messages /\ messageSeqs' = messageSeqs,
         UNCHANGED <<rows, ids, raced>>, phase' \notin {"hook", "summary"}
  PROVE  Aligned'
<1> SUFFICES ASSUME "compaction" \notin raced
             PROVE  Stores(rows, ids) /\ Agrees(messages', messageSeqs', rows, ids) /\ NamedByFirst'
  BY DEF Aligned
<1>1. Stores(rows, ids) /\ Agrees(messages, messageSeqs, rows, ids) /\ NamedByFirst
  BY DEF Aligned
<1>2. CASE messages' = messages /\ messageSeqs' = messageSeqs
  BY <1>1, <1>2 DEF NamedByFirst
<1>3. CASE Taken
  <2>1. PICK at : Within(messages, messageSeqs, messages', messageSeqs', at)
    BY <1>3 DEF Taken
  <2>2. Len(messageSeqs) = Len(messages) /\ Len(messageSeqs') = Len(messages')
    <3>1. Len(messageSeqs) = Len(messages) /\ Len(messages) \in Nat
      BY <1>1, PendingArePlaces DEF Agrees
    <3>2. /\ Len(messageSeqs') - Len(messages') = Len(messageSeqs) - Len(messages)
          /\ Len(messageSeqs') \in Nat /\ Len(messages') \in Nat
      BY <1>3 DEF Taken
    <3> QED BY <3>1, <3>2
  <2>3. /\ List(messages) /\ List(rows) /\ List(messages')
        /\ PlacesOf(messages, messageSeqs) /\ PlacesOf(messages', messageSeqs')
    BY <2>2, TranscriptLists
  <2>4. Agrees(messages', messageSeqs', rows, ids)
    BY <1>1, <2>1, <2>3, PartAgrees
  <2>5. ASSUME NEW i \in 2..Len(messages') PROVE messages'[i].id # 0
    <3>1. i \in 1..Len(messages') /\ 1 \in 1..Len(messages') /\ 1 < i /\ Len(messages) \in Nat
      BY <2>3 DEF List
    <3>2. /\ at[1] \in 1..Len(messages) /\ at[i] \in 1..Len(messages) /\ at[1] < at[i]
          /\ messages'[i] = messages[at[i]]
      BY <2>1, <3>1 DEF Within
    <3>3. at[i] \in 2..Len(messages)
      BY <3>1, <3>2
    <3> QED BY <1>1, <3>2, <3>3 DEF NamedByFirst
  <2> QED BY <1>1, <2>4, <2>5 DEF NamedByFirst
<1> QED BY <1>2, <1>3

(* What a compaction keeps is part of what there was.                      *)
LEMMA RestIsPart ==
  ASSUME TranscriptTypes, Len(messageSeqs) = Len(messages), NEW cut \in 2..Len(messages)
  PROVE  LET kept == SubSeq(messages, cut, Len(messages))
             seqs == SubSeq(messageSeqs, cut, Len(messageSeqs)) IN
         /\ List(kept) /\ PlacesOf(kept, seqs) /\ Len(kept) = Len(messages) - cut + 1
         /\ Len(messages) \in Nat /\ cut \in Nat
         /\ \A i \in 1..Len(kept) : /\ i + cut - 1 \in 2..Len(messages)
                                    /\ kept[i] = messages[i + cut - 1]
                                    /\ seqs[i] = messageSeqs[i + cut - 1]
         /\ \E at : Within(messages, messageSeqs, kept, seqs, at)
<1> DEFINE kept == SubSeq(messages, cut, Len(messages))
           seqs == SubSeq(messageSeqs, cut, Len(messageSeqs))
           at   == [i \in 1..Len(kept) |-> i + cut - 1]
<1>1. /\ messages \in Seq(Message) /\ messageSeqs \in Seq(Nat) /\ Len(messages) \in Nat
      /\ cut \in 1..(Len(messages) + 1) /\ cut \in 1..(Len(messageSeqs) + 1) /\ cut \in Nat /\ cut > 1
  BY PendingArePlaces DEF TranscriptTypes
<1>2. /\ kept \in Seq(Message) /\ Len(kept) = Len(messages) - cut + 1
      /\ \A j \in 1..(Len(messages) - cut + 1) : kept[j] = messages[j + cut - 1]
  BY <1>1, RestIs
<1>3. /\ seqs \in Seq(Nat) /\ Len(seqs) = Len(messageSeqs) - cut + 1
      /\ \A j \in 1..(Len(messageSeqs) - cut + 1) : seqs[j] = messageSeqs[j + cut - 1]
  BY <1>1, RestIs
<1> HIDE DEF kept, seqs
<1>4. Len(seqs) = Len(kept)
  BY <1>2, <1>3
<1>5. List(kept) /\ PlacesOf(kept, seqs)
  BY <1>2, <1>3, <1>4, ListsAreLists
<1>6. \A i \in 1..Len(kept) : /\ i + cut - 1 \in 2..Len(messages)
                              /\ kept[i] = messages[i + cut - 1]
                              /\ seqs[i] = messageSeqs[i + cut - 1]
  <2> TAKE i \in 1..Len(kept)
  <2>1. i \in 1..(Len(messages) - cut + 1) /\ i \in 1..(Len(messageSeqs) - cut + 1)
    BY <1>2
  <2>2. i + cut - 1 \in 2..Len(messages)
    BY <1>1, <2>1
  <2> QED BY <1>2, <1>3, <2>1, <2>2
<1>7. Within(messages, messageSeqs, kept, seqs, at)
  <2>1. \A i \in 1..Len(kept) : at[i] = i + cut - 1
    OBVIOUS
  <2>2. \A i, j \in 1..Len(kept) : i < j => at[i] < at[j]
    BY <1>1, <1>2
  <2>3. \A i \in 2..Len(messages) : i \in 1..Len(messages)
    BY <1>1
  <2> HIDE DEF at
  <2> QED BY <1>6, <2>1, <2>2, <2>3 DEF Within
<1> QED BY <1>1, <1>2, <1>5, <1>6, <1>7 DEF kept, seqs

(* A compaction cuts the lists where it found the turn, and puts a summary *)
(* in front.                                                               *)
LEMMA CompactionAligned ==
  ASSUME TranscriptTypes, Bounded, Aligned,
         CompactionStarts \/ HookReturns \/ Compacted \/ CompactionFails
  PROVE  Aligned'
<1>0. raced' = raced /\ ids' = ids /\ rows' = rows
  BY DEF CompactionStarts, HookReturns, Compacted, CompactionFails
<1> SUFFICES ASSUME "compaction" \notin raced
             PROVE  Aligned'
  BY <1>0 DEF Aligned
<1>1. Stores(rows, ids) /\ Agrees(messages, messageSeqs, rows, ids) /\ NamedByFirst
  BY DEF Aligned
<1>2. CASE CompactionFails
  BY <1>0, <1>1, <1>2 DEF CompactionFails, Aligned, NamedByFirst
<1>3. CASE CompactionStarts
  <2>1. /\ messages' = messages /\ messageSeqs' = messageSeqs /\ phase' = "hook"
        /\ \E cut \in (First + 1)..Len(messages) :
             prepared' = [NotPrepared EXCEPT !.kept = SubSeq(messages, cut, Len(messages)), !.index = cut]
    BY <1>3 DEF CompactionStarts
  <2>2. prepared'.kept = SubSeq(messages, prepared'.index, Len(messages))
    BY <2>1 DEF NotPrepared
  <2> QED BY <1>0, <1>1, <2>1, <2>2 DEF Aligned, NamedByFirst
<1>4. CASE HookReturns
  <2> DEFINE x == prepared.index
             kept == SubSeq(messages, x, Len(messages))
             seqs == SubSeq(messageSeqs, x, Len(messageSeqs))
  <2>1. /\ messages' = messages /\ messageSeqs' = messageSeqs /\ phase = "hook" /\ phase' = "summary"
        /\ prepared'.kept = prepared.kept /\ prepared'.keptSeqs = seqs
    BY <1>4 DEF HookReturns, TranscriptTypes
  <2>2. prepared.kept = kept /\ x \in 2..Len(messages) /\ Len(messageSeqs) = Len(messages)
    BY <1>1, <2>1 DEF Aligned, Bounded, Agrees
  <2> HIDE DEF x
  <2>3. /\ List(kept) /\ PlacesOf(kept, seqs)
        /\ \A i \in 1..Len(kept) : i + x - 1 \in 2..Len(messages) /\ kept[i] = messages[i + x - 1]
        /\ \E at : Within(messages, messageSeqs, kept, seqs, at)
    BY <2>2, RestIsPart
  <2> HIDE DEF kept, seqs
  <2>4. List(messages) /\ PlacesOf(messages, messageSeqs) /\ List(rows)
    BY <2>2, ListsAreLists DEF TranscriptTypes
  <2>5. Agrees(kept, seqs, rows, ids)
    <3>1. PICK at : Within(messages, messageSeqs, kept, seqs, at)
      BY <2>3
    <3> QED BY <1>1, <2>3, <2>4, <3>1, PartAgrees
  <2>6. \A i \in 1..Len(kept) : kept[i].id # 0
    BY <1>1, <2>3 DEF NamedByFirst
  <2> QED BY <1>0, <1>1, <2>1, <2>2, <2>5, <2>6 DEF Aligned, NamedByFirst
<1>5. CASE Compacted
  <2> DEFINE kept == prepared.kept
             seqs == prepared.keptSeqs
  <2>1. /\ messages' = <<Summary>> \o kept /\ messageSeqs' = <<Null>> \o seqs
        /\ phase = "summary" /\ phase' = "between"
    BY <1>5 DEF Compacted
  <2>2. /\ Agrees(kept, seqs, rows, ids) /\ \A i \in 1..Len(kept) : kept[i].id # 0
    BY <2>1 DEF Aligned
  <2>3. /\ kept \in Seq(Message) /\ seqs \in Seq(Nat) /\ List(kept) /\ List(rows) /\ ids \in Nat
        /\ Summary \in Message /\ Summary.id = 0 /\ Null \in Nat
    BY ListsAreLists DEF TranscriptTypes, Summary, Message, Role, Null
  <2> HIDE DEF kept, seqs
  <2>4. /\ messages' \in Seq(Message) /\ Len(messages') = Len(kept) + 1 /\ messages'[1] = Summary
        /\ \A j \in 1..Len(kept) : messages'[j + 1] = kept[j]
    BY <2>1, <2>3, BehindIs
  <2>5. /\ Len(messageSeqs') = Len(seqs) + 1 /\ messageSeqs'[1] = Null
        /\ \A j \in 1..Len(seqs) : messageSeqs'[j + 1] = seqs[j]
    BY <2>1, <2>3, BehindIs
  <2>6. Len(seqs) = Len(kept) /\ Len(kept) \in Nat
    BY <2>2, <2>3 DEF Agrees, List
  <2>7. ASSUME NEW i \in 2..Len(messages')
        PROVE  /\ i - 1 \in 1..Len(kept) /\ messages'[i] = kept[i - 1] /\ messageSeqs'[i] = seqs[i - 1]
    <3>1. i - 1 \in 1..Len(kept) /\ (i - 1) + 1 = i
      BY <2>4, <2>6
    <3> QED BY <2>4, <2>5, <2>6, <3>1
  <2>8. \A i \in 1..Len(messages') : i = 1 \/ i \in 2..Len(messages')
    BY <2>4, <2>6
  <2>9. \A i \in 2..Len(messages') : messages'[i].id # 0 /\ messages'[i].id <= ids
    BY <2>2, <2>7 DEF Agrees
  <2>10. ASSUME NEW i \in 1..Len(messages'), NEW j \in 1..Len(messages'), messages'[i].id = messages'[j].id
         PROVE  i = j
    <3>1. CASE i = 1 \/ j = 1
      BY <2>3, <2>4, <2>8, <2>9, <2>10, <3>1
    <3>2. CASE i \in 2..Len(messages') /\ j \in 2..Len(messages')
      <4>1. i - 1 = j - 1
        <5>1. /\ i - 1 \in 1..Len(kept) /\ j - 1 \in 1..Len(kept)
              /\ kept[i - 1].id = kept[j - 1].id
          BY <2>7, <2>10, <3>2
        <5>2. \A k, l \in 1..Len(kept) : kept[k].id = kept[l].id => k = l
          BY <2>2 DEF Agrees
        <5> QED BY <5>1, <5>2
      <4> QED BY <2>4, <2>6, <3>2, <4>1
    <3> QED BY <2>8, <3>1, <3>2
  <2>11. ASSUME NEW i \in 1..Len(messages')
         PROVE  /\ messages'[i].id <= ids
                /\ messageSeqs'[i] # Null => /\ messageSeqs'[i] \in 1..Len(rows)
                                             /\ rows[messageSeqs'[i]] = messages'[i]
                /\ \A s \in 1..Len(rows) : messageSeqs'[i] = Null => rows[s].id # messages'[i].id
    <3>1. CASE i = 1
      BY <1>1, <2>3, <2>4, <2>5, <3>1 DEF Stores
    <3>2. CASE i \in 2..Len(messages')
      BY <2>2, <2>7, <2>9, <3>2 DEF Agrees
    <3> QED BY <2>8, <3>1, <3>2
  <2>12. Len(messageSeqs') = Len(messages')
    BY <2>4, <2>5, <2>6
  <2>13. Agrees(messages', messageSeqs', rows, ids)
    BY <2>10, <2>11, <2>12 DEF Agrees
  <2> QED BY <1>0, <1>1, <2>1, <2>9, <2>13 DEF Aligned, NamedByFirst
<1> QED BY <1>2, <1>3, <1>4, <1>5

(* A session that is opened again has its lists from the table.            *)
LEMMA ReopensAligned ==
  ASSUME TranscriptTypes, Bounded, Aligned, Reopens
  PROVE  Aligned'
<1>1. /\ rows' = rows /\ ids' = ids /\ phase' = "idle"
      /\ "compaction" \notin raced' => "compaction" \notin raced
  BY DEF Reopens
<1> SUFFICES ASSUME "compaction" \notin raced
             PROVE  Stores(rows, ids) /\ Agrees(messages', messageSeqs', rows, ids) /\ NamedByFirst'
  BY <1>1 DEF Aligned
<1>2. Stores(rows, ids)
  BY DEF Aligned
<1> DEFINE m == IF firstKeptSeq = 0 THEN 0 ELSE 1
           f == FirstKept
           n == Len(rows) + 1 - f
<1>3. /\ f \in 1..(Len(rows) + 1) /\ n \in Nat /\ m \in {0, 1}
      /\ Len(messages') = m + n /\ Len(messageSeqs') = m + n
      /\ m = 1 => messages'[1].id = 0 /\ messageSeqs'[1] = Null
      /\ \A k \in 1..n : messages'[m + k] = rows[f + k - 1] /\ messageSeqs'[m + k] = f + k - 1
  BY ReopenedIs
<1>4. Len(rows) \in Nat /\ ids \in Nat
  BY PendingArePlaces DEF TranscriptTypes
<1> HIDE DEF m, f
<1>5. ASSUME NEW i \in 1..Len(messages'), i # 1 \/ m # 1
      PROVE  /\ messageSeqs'[i] = i - m + f - 1 /\ messageSeqs'[i] \in 1..Len(rows)
             /\ messages'[i] = rows[messageSeqs'[i]]
             /\ messageSeqs'[i] # Null
             /\ messages'[i].id \in 1..ids
  <2>1. i - m \in 1..n /\ m + (i - m) = i
    BY <1>3, <1>5
  <2>2. f + (i - m) - 1 \in 1..Len(rows) /\ f + (i - m) - 1 = i - m + f - 1
    BY <1>3, <1>4, <2>1
  <2>3. messages'[i] = rows[f + (i - m) - 1] /\ messageSeqs'[i] = f + (i - m) - 1
    BY <1>3, <2>1
  <2> QED BY <1>2, <2>2, <2>3 DEF Stores, Null
<1>6. \A i \in 1..Len(messages') : i = 1 /\ m = 1 => messages'[i].id = 0 /\ messageSeqs'[i] = Null
  BY <1>3
<1> HIDE DEF n
<1>7. ASSUME NEW i \in 1..Len(messages'), NEW j \in 1..Len(messages'), messages'[i].id = messages'[j].id
      PROVE  i = j
  <2>1. CASE (i = 1 /\ m = 1) \/ (j = 1 /\ m = 1)
    <3>1. \A k \in 1..Len(messages') : messages'[k].id = 0 => k = 1 /\ m = 1
      BY <1>4, <1>5
    <3> QED BY <1>6, <1>7, <2>1, <3>1
  <2>2. CASE (i # 1 \/ m # 1) /\ (j # 1 \/ m # 1)
    <3>1. messageSeqs'[i] = messageSeqs'[j]
      <4>1. /\ messageSeqs'[i] \in 1..Len(rows) /\ messageSeqs'[j] \in 1..Len(rows)
            /\ rows[messageSeqs'[i]].id = rows[messageSeqs'[j]].id
        BY <1>5, <1>7, <2>2
      <4>2. \A s, t \in 1..Len(rows) : rows[s].id = rows[t].id => s = t
        BY <1>2 DEF Stores
      <4> QED BY <4>1, <4>2
    <3>2. i - m + f - 1 = j - m + f - 1 /\ i \in Int /\ j \in Int /\ m \in Int /\ f \in Int
      BY <1>3, <1>5, <2>2, <3>1
    <3> QED BY <3>2
  <2> QED BY <2>1, <2>2
<1>8. ASSUME NEW i \in 1..Len(messages')
      PROVE  /\ messages'[i].id <= ids
             /\ messageSeqs'[i] # Null => /\ messageSeqs'[i] \in 1..Len(rows)
                                          /\ rows[messageSeqs'[i]] = messages'[i]
             /\ \A s \in 1..Len(rows) : messageSeqs'[i] = Null => rows[s].id # messages'[i].id
  <2>1. CASE i = 1 /\ m = 1
    BY <1>2, <1>4, <1>6, <2>1 DEF Stores
  <2>2. CASE i # 1 \/ m # 1
    BY <1>4, <1>5, <2>2
  <2> QED BY <2>1, <2>2
<1>9. \A i \in 2..Len(messages') : messages'[i].id # 0
  <2> TAKE i \in 2..Len(messages')
  <2>1. i \in 1..Len(messages') /\ i # 1
    BY <1>3
  <2> QED BY <1>4, <1>5, <2>1
<1> QED BY <1>2, <1>3, <1>7, <1>8, <1>9 DEF Agrees, NamedByFirst

(* Every step keeps memory and table aligned.                              *)
LEMMA AlignedStep ==
  ASSUME TranscriptTypes, Bounded, TranscriptTypes', Bounded', Aligned, [TranscriptNext]_transcriptVars
  PROVE  Aligned'
<1>1. CASE UNCHANGED transcriptVars
  BY <1>1 DEF transcriptVars, Aligned, NamedByFirst
<1>2. CASE TurnStep
  BY <1>2, TurnAligned
<1>3. CASE Notice
  BY <1>3, NoticeAligned
<1>4. CASE Reopens
  BY <1>4, ReopensAligned
<1>5. CASE CompactionStarts \/ HookReturns \/ Compacted \/ CompactionFails
  BY <1>5, CompactionAligned
<1>6. CASE Discarded
  <2>1. UNCHANGED <<rows, ids, raced>> /\ phase' = "idle"
    BY <1>6 DEF Discarded
  <2> QED BY <1>6, <2>1, DiscardTakes, TakenAligned
<1>7. CASE TooLong
  <2>1. UNCHANGED <<rows, ids, raced>> /\ phase' = "between" /\ Taken
    BY <1>7, TrimTakes DEF TooLong, control
  <2> QED BY <2>1, TakenAligned
<1> QED BY <1>1, <1>2, <1>3, <1>4, <1>5, <1>6, <1>7 DEF TranscriptNext, TurnStep

(* What the lists hold, and the places they name, whatever came between:   *)
(* the lists may then differ in length, and every place is still one of    *)
(* the table (messages, messageSeqs and the rows of storage/transcript.ts).*)
THEOREM TranscriptTyped == TranscriptSpec => [](TranscriptTypes /\ Bounded)
<1>1. TranscriptInit => TranscriptTypes /\ Bounded
  BY TranscriptTypesInit
<1>2. TranscriptTypes /\ Bounded /\ [TranscriptNext]_transcriptVars => (TranscriptTypes /\ Bounded)'
  BY TranscriptTypesStep
<1> QED BY <1>1, <1>2, PTL DEF TranscriptSpec

(* Memory and the table of messages agree: each message with a place is    *)
(* what the table has there, and nothing is stored twice, unless a notice  *)
(* came while the PreCompact hook was waited for (appendCompletedTurn,     *)
(* compactOnce, trimToRecentTurns, discardAbortedTurn, recordVerdict).     *)
THEOREM TranscriptAlignedWithStore == TranscriptSpec => []AlignedWithStore
<1>1. TranscriptInit => TranscriptTypes /\ Bounded /\ Aligned
  <2>1. TranscriptInit => Aligned
    <3>1. Len(<<>>) = 0 /\ 1..0 = {} /\ 2..0 = {}
      OBVIOUS
    <3> QED BY <3>1 DEF TranscriptInit, Aligned, Stores, Agrees, NamedByFirst
  <2> QED BY <2>1, TranscriptTypesInit
<1>2. TranscriptTypes /\ Bounded /\ Aligned /\ [TranscriptNext]_transcriptVars
      => (TranscriptTypes /\ Bounded /\ Aligned)'
  BY TranscriptTypesStep, AlignedStep
<1>3. TranscriptTypes /\ Bounded /\ Aligned => AlignedWithStore
  <2> SUFFICES ASSUME TranscriptTypes, Aligned, "compaction" \notin raced
               PROVE  /\ Len(messages) = Len(messageSeqs)
                      /\ \A i \in DOMAIN messages : messageSeqs[i] # Null =>
                           messageSeqs[i] \in DOMAIN rows /\ rows[messageSeqs[i]] = messages[i]
                      /\ \A s, t \in DOMAIN rows : rows[s].id = rows[t].id => s = t
    BY DEF AlignedWithStore
  <2>1. DOMAIN messages = 1..Len(messages) /\ DOMAIN rows = 1..Len(rows)
    BY PendingArePlaces
  <2> QED BY <2>1 DEF Aligned, Agrees, Stores
<1> QED BY <1>1, <1>2, <1>3, PTL DEF TranscriptSpec

-----------------------------------------------------------------------------
(* The rows that are kept are what memory shows, in the same order, unless *)
(* a notice was stored ahead of a message of the turn that still waited.   *)
Shown ==
    raced = {} =>
        /\ Ascends(messageSeqs) /\ Shows(messageSeqs, rows, FirstKept, dropped)
        /\ Active => NoneBehind(messages, messageSeqs, user)
        /\ phase = "summary" =>
            /\ Ascends(prepared.keptSeqs)
            /\ Shows(prepared.keptSeqs, rows, prepared.firstKeptSeq, dropped)
            /\ NoneBehind(prepared.kept, prepared.keptSeqs, user)

(* The first row that is kept is one of the table, or the next.            *)
LEMMA FirstKeptType ==
  ASSUME TranscriptTypes
  PROVE  FirstKept \in Nat \ {0} /\ FirstKept <= Len(rows) + 1
<1>1. firstKeptSeq \in Nat /\ firstKeptSeq <= Len(rows) + 1 /\ Len(rows) \in Nat
  BY PendingArePlaces DEF TranscriptTypes
<1> QED BY <1>1 DEF FirstKept

(* What waits of the turn is all that waits from its message on.           *)
LEMMA PendingIsRest ==
  ASSUME TranscriptTypes, Agrees(messages, messageSeqs, rows, ids), user # 0,
         NEW k \in 1..Len(messages), messages[k].id = user,
         NEW i \in 1..Len(messages), k <= i, messageSeqs[i] = Null
  PROVE  i \in Pending
<1>1. DOMAIN messages = 1..Len(messages) /\ Len(messages) \in Nat
  BY PendingArePlaces
<1>2. IndexOf(user, messages) = k
  <2>1. \A j \in 1..Len(messages) : messages[j].id = user => j = k
    BY DEF Agrees
  <2>2. {j \in DOMAIN messages : messages[j].id = user} = {k}
    BY <1>1, <2>1
  <2> QED BY <2>2 DEF IndexOf
<1>3. k # 0 /\ i >= k
  BY <1>1
<1> QED BY <1>1, <1>2, <1>3 DEF Pending

(* Lists that grow show the rows as before, and the new ones.              *)
LEMMA GrownKeepsShown ==
  ASSUME TranscriptTypes, Bounded, TranscriptTypes', Bounded', Aligned, Shown,
         raced = {}, Grown,
         \A i, j \in 1..Len(messages) :
             i < j /\ messageSeqs[i] = Null /\ messageSeqs[j] # Null => messageSeqs'[i] = Null
  PROVE  Ascends(messageSeqs') /\ Shows(messageSeqs', rows', FirstKept, dropped)
<1>1. Agrees(messages, messageSeqs, rows, ids)
  BY DEF Aligned
<1>2. Len(messageSeqs) = Len(messages) /\ Len(messageSeqs') = Len(messages')
  BY <1>1 DEF Agrees, Grown, Grows
<1>3. /\ List(messages) /\ List(rows) /\ List(messages') /\ List(rows')
      /\ PlacesOf(messages, messageSeqs) /\ PlacesOf(messages', messageSeqs')
  BY <1>2, TranscriptLists
<1>4. Ascends(messageSeqs) /\ Shows(messageSeqs, rows, FirstKept, dropped)
  BY DEF Shown
<1>5. Grows(messages, messageSeqs, rows, messages', messageSeqs', rows') /\ ids \in Nat
  BY DEF Grown, TranscriptTypes
<1>6. FirstKept \in Nat \ {0} /\ FirstKept <= Len(rows) + 1
  BY FirstKeptType
<1> QED BY <1>1, <1>3, <1>4, <1>5, <1>6, GrownShows

(* A message of the turn that is pushed waits behind the others,           *)
LEMMA PushShows ==
  ASSUME TranscriptTypes, Bounded, TranscriptTypes', Bounded', Aligned, Shown, raced = {}, Pushes
  PROVE  /\ Ascends(messageSeqs') /\ Shows(messageSeqs', rows', FirstKept, dropped)
         /\ Active /\ user' = user => NoneBehind(messages', messageSeqs', user')
         /\ user' = ids + 1 => NoneBehind(messages', messageSeqs', user')
<1> DEFINE n == Len(messages)
<1>1. PICK m \in Message : m.id = ids + 1 /\ Push(<<m>>) /\ ids' = ids + 1
  BY DEF Pushes
<1>2. <<m>> \in Seq(Message) /\ Len(<<m>>) = 1 /\ <<m>>[1] = m
  OBVIOUS
<1>3. Agrees(messages, messageSeqs, rows, ids) /\ ids \in Nat /\ user \in Nat /\ user <= ids
  BY DEF Aligned, TranscriptTypes
<1>4. Len(messageSeqs) = n /\ n \in Nat
  BY <1>3, PendingArePlaces DEF Agrees
<1>5. /\ Len(messages') = n + 1
      /\ \A i \in 1..n : messages'[i] = messages[i] /\ messageSeqs'[i] = messageSeqs[i]
      /\ messages'[n + 1] = m /\ messageSeqs'[n + 1] = Null
  <2>1. /\ Len(messages') = Len(messages) + Len(<<m>>)
        /\ \A i \in 1..Len(messages) : messages'[i] = messages[i]
        /\ \A k \in 1..Len(<<m>>) : messages'[Len(messages) + k] = <<m>>[k]
        /\ \A i \in 1..Len(messageSeqs) : messageSeqs'[i] = messageSeqs[i]
        /\ \A k \in 1..Len(<<m>>) : messageSeqs'[Len(messageSeqs) + k] = Null
    BY <1>1, <1>2, PushIs
  <2> QED BY <1>2, <1>4, <2>1
<1>6. Grown
  BY <1>1, <1>4, PushIsGrown
<1>7. Ascends(messageSeqs') /\ Shows(messageSeqs', rows', FirstKept, dropped)
  BY <1>5, <1>6, GrownKeepsShown
<1> HIDE DEF n
<1>8. \A i \in 1..Len(messages') : i \in 1..n \/ i = n + 1
  BY <1>4, <1>5
<1>9. \A k \in 1..n : messages'[k].id <= ids /\ messages'[k].id \in Nat
  <2>1. List(messages)
    BY TranscriptLists
  <2> QED BY <1>3, <1>5, <2>1 DEF Agrees, List, n
<1>10. ASSUME Active, user' = user PROVE NoneBehind(messages', messageSeqs', user)
  <2>1. NoneBehind(messages, messageSeqs, user)
    BY <1>10 DEF Shown
  <2> SUFFICES ASSUME NEW k \in 1..Len(messages'), NEW i \in 1..Len(messages'), NEW j \in 1..Len(messages'),
                      messages'[k].id = user, k <= i, i < j, messageSeqs'[i] = Null
               PROVE  messageSeqs'[j] = Null
    BY DEF NoneBehind
  <2>2. CASE j = n + 1
    BY <1>5, <2>2
  <2>3. CASE j \in 1..n
    <3>1. k \in 1..n /\ i \in 1..n
      BY <1>4, <1>5, <2>3
    <3> QED BY <1>5, <2>1, <2>3, <3>1 DEF NoneBehind, n
  <2> QED BY <1>8, <2>2, <2>3
<1>11. ASSUME user' = ids + 1 PROVE NoneBehind(messages', messageSeqs', ids + 1)
  <2>1. \A k \in 1..Len(messages') : messages'[k].id = ids + 1 => k = n + 1
    BY <1>3, <1>8, <1>9
  <2>2. \A i, j \in 1..Len(messages') : n + 1 <= i => ~(i < j)
    BY <1>4, <1>5
  <2> QED BY <2>1, <2>2 DEF NoneBehind
<1> QED BY <1>7, <1>10, <1>11

(* and what is appended leaves none of the turn behind but what it pushes. *)
LEMMA AppendShows ==
  ASSUME TranscriptTypes, Bounded, TranscriptTypes', Bounded', Aligned, Shown, raced = {},
         Active, Appends
  PROVE  /\ Ascends(messageSeqs') /\ Shows(messageSeqs', rows', FirstKept, dropped)
         /\ NoneBehind(messages', messageSeqs', user)
<1> DEFINE n == Len(messages)
<1>1. PICK new, pushed \in Seq(Message) :
        /\ AppendCompletedTurn(new, pushed)
        /\ \A k \in 1..Len(new) : new[k].id = ids + k
        /\ \A k \in 1..Len(pushed) : pushed[k].id = ids + Len(new) + k
        /\ ids' = ids + Len(new) + Len(pushed)
  BY DEF Appends
<1>2. Agrees(messages, messageSeqs, rows, ids) /\ NamedByFirst
  BY DEF Aligned
<1>3. ids \in Nat /\ user \in Nat /\ user <= ids /\ user # 0
  BY DEF TranscriptTypes
<1>4. /\ Len(messageSeqs) = n /\ n \in Nat /\ Len(new) \in Nat /\ Len(pushed) \in Nat
      /\ Len(rows) \in Nat /\ Cardinality(Pending) \in Nat
  BY <1>2, PendingArePlaces DEF Agrees
<1>5. NoneBehind(messages, messageSeqs, user)
  BY DEF Shown
<1>6. Grown
  BY <1>1, <1>2, <1>4, AppendIsGrown
<1>7. /\ Len(messages') = n + Len(new) + Len(pushed)
      /\ \A i \in 1..n : messages'[i] = messages[i]
      /\ \A i \in 1..n : messageSeqs'[i] = IF i \in Pending THEN Len(rows) + Rank(i, Pending)
                                           ELSE messageSeqs[i]
      /\ \A k \in 1..Len(new) : messageSeqs'[n + k] = Len(rows) + Cardinality(Pending) + k
      /\ \A k \in 1..Len(pushed) : messageSeqs'[n + Len(new) + k] = Null
  <2>1. /\ Len(messages') = n + Len(new) + Len(pushed)
        /\ \A i \in 1..n : messages'[i] = messages[i]
        /\ \A i \in 1..Len(messageSeqs) :
             messageSeqs'[i] = IF i \in Pending THEN Len(rows) + Rank(i, Pending) ELSE messageSeqs[i]
        /\ \A k \in 1..Len(new) :
             messageSeqs'[Len(messageSeqs) + k] = Len(rows) + Cardinality(Pending) + k
        /\ \A k \in 1..Len(pushed) : messageSeqs'[Len(messageSeqs) + Len(new) + k] = Null
    BY <1>1, AppendedIs
  <2> QED BY <1>4, <2>1
<1> HIDE DEF n
<1>8. ASSUME NEW i \in 1..n, NEW j \in 1..n, i < j, messageSeqs[i] = Null, messageSeqs[j] # Null
      PROVE  messageSeqs'[i] = Null
  <2>1. i \notin Pending
    <3> SUFFICES ASSUME i \in Pending PROVE FALSE
      OBVIOUS
    <3>1. PICK k \in 1..Len(messages) : messages[k].id = user /\ k <= i
      BY PendingIsOfTurn
    <3> QED BY <1>5, <1>8, <3>1 DEF NoneBehind, n
  <2> QED BY <1>7, <1>8, <2>1
<1>9. Ascends(messageSeqs') /\ Shows(messageSeqs', rows', FirstKept, dropped)
  BY <1>6, <1>8, GrownKeepsShown DEF n
<1>10. ASSUME NEW i \in 1..Len(messages')
       PROVE  \/ i \in 1..n
              \/ \E k \in 1..Len(new) : i = n + k
              \/ \E k \in 1..Len(pushed) : i = n + Len(new) + k
  <2>1. \/ i \in 1..n \/ i - n \in 1..Len(new) \/ i - n - Len(new) \in 1..Len(pushed)
    BY <1>4, <1>7
  <2>2. i = n + (i - n) /\ i = n + Len(new) + (i - n - Len(new))
    BY <1>4
  <2> QED BY <2>1, <2>2
<1>11. ASSUME NEW k \in 1..Len(messages'), messages'[k].id = user
       PROVE  k \in 1..n /\ messages[k].id = user
  <2>1. k \in 1..n
    <3> SUFFICES ASSUME k \in (n + 1)..Len(messages') PROVE FALSE
      BY <1>4, <1>7
    <3>1. messages'[k].id = ids + (k - n)
      BY <1>6 DEF Grown, NewIds, n
    <3> QED BY <1>3, <1>4, <1>11, <3>1
  <2> QED BY <1>7, <1>11, <2>1
<1>12. ASSUME NEW k \in 1..n, messages[k].id = user, NEW i \in 1..Len(messages'), k <= i,
              messageSeqs'[i] = Null
       PROVE  \E l \in 1..Len(pushed) : i = n + Len(new) + l
  <2>1. CASE i \in 1..n
    <3>1. CASE i \in Pending
      <4>1. Rank(i, Pending) \in 1..Cardinality(Pending)
        BY <3>1, PendingArePlaces, RankCounts
      <4>2. messageSeqs'[i] = Len(rows) + Rank(i, Pending)
        BY <1>7, <2>1, <3>1
      <4> QED BY <1>4, <1>12, <4>1, <4>2 DEF Null
    <3>2. CASE i \notin Pending
      <4>1. messageSeqs[i] = Null
        BY <1>7, <1>12, <2>1, <3>2
      <4> QED BY <1>2, <1>3, <1>12, <2>1, <3>2, <4>1, PendingIsRest DEF n
    <3> QED BY <3>1, <3>2
  <2>2. ASSUME NEW l \in 1..Len(new), i = n + l PROVE FALSE
    <3>1. messageSeqs'[i] = Len(rows) + Cardinality(Pending) + l
      BY <1>7, <2>2
    <3> QED BY <1>4, <1>12, <2>2, <3>1 DEF Null
  <2> QED BY <1>10, <2>1, <2>2
<1>13. NoneBehind(messages', messageSeqs', user)
  <2> SUFFICES ASSUME NEW k \in 1..Len(messages'), NEW i \in 1..Len(messages'), NEW j \in 1..Len(messages'),
                      messages'[k].id = user, k <= i, i < j, messageSeqs'[i] = Null
               PROVE  messageSeqs'[j] = Null
    BY DEF NoneBehind
  <2>1. PICK l \in 1..Len(pushed) : i = n + Len(new) + l
    BY <1>11, <1>12
  <2>2. j - n - Len(new) \in 1..Len(pushed) /\ j = n + Len(new) + (j - n - Len(new))
    BY <1>4, <1>7, <2>1
  <2> QED BY <1>7, <2>2
<1> QED BY <1>9, <1>13

(* Lists that stay show what they showed.                                  *)
LEMMA StaysShows ==
  ASSUME Shown, raced = {}, Stays
  PROVE  /\ Ascends(messageSeqs') /\ Shows(messageSeqs', rows', FirstKept, dropped)
         /\ Active /\ user' = user => NoneBehind(messages', messageSeqs', user)
BY DEF Shown, Stays

(* A verdict changes no row that is shown for another.                     *)
LEMMA RewriteShows ==
  ASSUME TranscriptTypes, Aligned, Shown, raced = {}, Rewritten
  PROVE  Ascends(messageSeqs') /\ Shows(messageSeqs', rows', FirstKept, dropped)
<1>1. Agrees(messages, messageSeqs, rows, ids)
  BY DEF Aligned
<1>2. /\ Len(messages') = Len(messages) /\ Len(rows') = Len(rows)
      /\ \A i \in 1..Len(messages) : messages'[i].id = messages[i].id
      /\ \A s \in 1..Len(rows) : rows'[s].id = rows[s].id
      /\ messageSeqs' = messageSeqs
  BY <1>1 DEF Rewritten
<1>3. Ascends(messageSeqs) /\ Shows(messageSeqs, rows, FirstKept, dropped)
  BY DEF Shown
<1>4. Shows(messageSeqs, rows', FirstKept, dropped)
  BY <1>2, <1>3, FirstKeptType, RewrittenShows
<1> QED BY <1>2, <1>3, <1>4

(* Every step of the turn keeps what is shown.                             *)
LEMMA TurnShown ==
  ASSUME TranscriptTypes, Bounded, TranscriptTypes', Bounded', Aligned, Shown, TurnStep
  PROVE  Shown'
<1>1. /\ UNCHANGED <<firstKeptSeq, prepared, raced, dropped>>
      /\ phase' \notin {"hook", "summary"}
  BY TurnForms
<1> SUFFICES ASSUME raced = {}
             PROVE  /\ Ascends(messageSeqs') /\ Shows(messageSeqs', rows', FirstKept, dropped)
                    /\ phase' \notin {"idle", "asked"} => NoneBehind(messages', messageSeqs', user')
  BY <1>1 DEF Shown, FirstKept, Active
<1>2. CASE Appends /\ (ToolStarts \/ RoundEnds \/ CutOff)
  <2>1. Active /\ user' = user
    BY <1>2 DEF ToolStarts, RoundEnds, CutOff, Active
  <2> QED BY <1>2, <2>1, AppendShows
<1>3. CASE Pushes /\ phase = "asked" /\ phase' = "before" /\ user' = ids + 1
  BY <1>3, PushShows
<1>4. CASE Pushes /\ phase \notin {"idle", "asked"} /\ user' = user
  BY <1>4, PushShows DEF Active
<1>5. CASE Pushes /\ phase' = "idle"
  BY <1>5, PushShows
<1>6. CASE Rewritten /\ phase' = "idle"
  BY <1>6, RewriteShows
<1>7. CASE Stays /\ phase' \in {"idle", "asked"}
  BY <1>7, StaysShows
<1>8. CASE Stays /\ phase \notin {"idle", "asked"} /\ user' = user
  BY <1>8, StaysShows DEF Active
<1> QED BY <1>2, <1>3, <1>4, <1>5, <1>6, <1>7, <1>8, TurnForms

(* What is dropped besides changes nothing of what is shown.               *)
LEMMA DroppedMore ==
  ASSUME NEW seqs, NEW table, NEW first, NEW gone, NEW gone2, gone \subseteq gone2,
         Shows(seqs, table, first, gone)
  PROVE  Shows(seqs, table, first, gone2)
BY DEF Shows

(* A notice does, unless it is stored ahead of what waits: that is marked. *)
LEMMA NoticeShown ==
  ASSUME TranscriptTypes, Bounded, TranscriptTypes', Bounded', Aligned, Shown, Notice
  PROVE  Shown'
<1> DEFINE n == Len(messages)
<1>1. /\ UNCHANGED <<firstKeptSeq, user, phase, prepared>> /\ ids' = ids + 1
      /\ dropped' = dropped \cup (IF phase = "summary" THEN {ids + 1} ELSE {})
      /\ raced' = {} => raced = {} /\ phase # "hook" /\ (phase # "idle" => Pending = {})
  BY DEF Notice
<1> SUFFICES ASSUME raced = {}, phase # "hook", phase # "idle" => Pending = {}
             PROVE  /\ Ascends(messageSeqs') /\ Shows(messageSeqs', rows', FirstKept, dropped')
                    /\ Active => NoneBehind(messages', messageSeqs', user)
                    /\ phase = "summary" =>
                        /\ Ascends(prepared.keptSeqs)
                        /\ Shows(prepared.keptSeqs, rows', prepared.firstKeptSeq, dropped')
                        /\ NoneBehind(prepared.kept, prepared.keptSeqs, user)
  BY <1>1 DEF Shown, FirstKept, Active
<1>2. Agrees(messages, messageSeqs, rows, ids)
  BY DEF Aligned
<1>3. Len(messageSeqs) = n /\ n \in Nat /\ Len(rows) \in Nat /\ ids \in Nat /\ user <= ids /\ user \in Nat
  BY <1>2, PendingArePlaces DEF Agrees, TranscriptTypes
<1>4. /\ Len(messages') = n + 1
      /\ \A i \in 1..n : messages'[i] = messages[i]
      /\ messages'[n + 1].id = ids + 1
      /\ \A i \in 1..n : messageSeqs'[i] = messageSeqs[i]
      /\ messageSeqs'[n + 1] = Len(rows) + 1
      /\ Len(rows') = Len(rows) + 1
      /\ \A s \in 1..Len(rows) : rows'[s] = rows[s]
      /\ rows'[Len(rows) + 1] = messages'[n + 1]
  <2>1. /\ \A i \in 1..Len(messageSeqs) : messageSeqs'[i] = messageSeqs[i]
        /\ messageSeqs'[Len(messageSeqs) + 1] = Len(rows) + 1
    BY NoticeIs
  <2>2. /\ Len(messages') = n + 1
        /\ \A i \in 1..n : messages'[i] = messages[i]
        /\ messages'[n + 1].id = ids + 1
        /\ Len(rows') = Len(rows) + 1
        /\ \A s \in 1..Len(rows) : rows'[s] = rows[s]
        /\ rows'[Len(rows) + 1] = messages'[n + 1]
    BY NoticeIs
  <2> QED BY <1>3, <2>1, <2>2
<1> HIDE DEF n
<1>5. Ascends(messageSeqs') /\ Shows(messageSeqs', rows', FirstKept, dropped')
  <2>1. Grown
    BY <1>3, NoticeIsGrown DEF n
  <2>2. Ascends(messageSeqs') /\ Shows(messageSeqs', rows', FirstKept, dropped)
    BY <1>4, <2>1, GrownKeepsShown DEF n
  <2> QED BY <1>1, <2>2, DroppedMore
<1>6. ASSUME Active PROVE NoneBehind(messages', messageSeqs', user)
  <2> SUFFICES ASSUME NEW k \in 1..Len(messages'), NEW i \in 1..Len(messages'), NEW j \in 1..Len(messages'),
                      messages'[k].id = user, k <= i, i < j, messageSeqs'[i] = Null
               PROVE  FALSE
    BY DEF NoneBehind
  <2>1. i \in 1..n /\ k \in 1..n
    BY <1>3, <1>4
  <2>2. messages[k].id = user /\ messageSeqs[i] = Null
    BY <1>4, <2>1
  <2>3. user # 0 /\ Pending = {}
    BY <1>6 DEF Active, TranscriptTypes
  <2> QED BY <1>2, <2>1, <2>2, <2>3, PendingIsRest DEF n
<1>7. ASSUME phase = "summary"
      PROVE  /\ Ascends(prepared.keptSeqs)
             /\ Shows(prepared.keptSeqs, rows', prepared.firstKeptSeq, dropped')
             /\ NoneBehind(prepared.kept, prepared.keptSeqs, user)
  <2> DEFINE seqs == prepared.keptSeqs
             first == prepared.firstKeptSeq
  <2>1. /\ Ascends(seqs) /\ Shows(seqs, rows, first, dropped)
        /\ NoneBehind(prepared.kept, seqs, user)
    BY <1>7 DEF Shown
  <2>2. first \in Nat /\ first # 0
    BY <1>7 DEF TranscriptTypes, Bounded
  <2>3. ids + 1 \in dropped' /\ dropped \subseteq dropped'
    BY <1>1, <1>7
  <2> HIDE DEF seqs, first
  <2>4. ASSUME NEW s \in first..Len(rows')
        PROVE  rows'[s].id \in dropped' \/ \E i \in 1..Len(seqs) : seqs[i] = s
    <3>1. CASE s = Len(rows) + 1
      BY <1>4, <2>3, <3>1
    <3>2. CASE s \in first..Len(rows)
      <4>1. rows'[s] = rows[s]
        BY <1>3, <1>4, <2>2, <3>2
      <4> QED BY <2>1, <2>3, <3>2, <4>1 DEF Shows
    <3> QED BY <1>3, <1>4, <2>2, <3>1, <3>2
  <2>5. Shows(seqs, rows', first, dropped')
    BY <2>1, <2>4 DEF Shows
  <2> QED BY <2>1, <2>5 DEF seqs, first
<1> QED BY <1>5, <1>6, <1>7

(* What is taken from memory is dropped: the other rows are still shown.   *)
LEMMA TakenShown ==
  ASSUME TranscriptTypes, Bounded, TranscriptTypes', Bounded', Aligned, Shown,
         \/ Taken
         \/ messages' = messages /\ messageSeqs' = messageSeqs /\ dropped' = dropped,
         UNCHANGED <<rows, firstKeptSeq, user, raced>>,
         phase' \notin {"hook", "summary"}, phase' \notin {"idle", "asked"} => Active
  PROVE  Shown'
<1> SUFFICES ASSUME raced = {}
             PROVE  /\ Ascends(messageSeqs') /\ Shows(messageSeqs', rows, FirstKept, dropped')
                    /\ Active => NoneBehind(messages', messageSeqs', user)
  BY DEF Shown, FirstKept, Active
<1>1. /\ Agrees(messages, messageSeqs, rows, ids)
      /\ Ascends(messageSeqs) /\ Shows(messageSeqs, rows, FirstKept, dropped)
      /\ Active => NoneBehind(messages, messageSeqs, user)
  BY DEF Aligned, Shown
<1>2. CASE messages' = messages /\ messageSeqs' = messageSeqs /\ dropped' = dropped
  BY <1>1, <1>2
<1>3. CASE Taken
  <2>1. PICK at : /\ Within(messages, messageSeqs, messages', messageSeqs', at)
                  /\ \A j \in 1..Len(messages) : \/ \E i \in 1..Len(messages') : at[i] = j
                                                 \/ messages[j].id \in dropped'
    BY <1>3 DEF Taken
  <2>2. Len(messageSeqs) = Len(messages) /\ Len(messageSeqs') = Len(messages')
    <3>1. Len(messageSeqs) = Len(messages) /\ Len(messages) \in Nat
      BY <1>1, PendingArePlaces DEF Agrees
    <3>2. /\ Len(messageSeqs') - Len(messages') = Len(messageSeqs) - Len(messages)
          /\ Len(messageSeqs') \in Nat /\ Len(messages') \in Nat
      BY <1>3 DEF Taken
    <3> QED BY <3>1, <3>2
  <2>3. /\ List(messages) /\ List(rows) /\ List(messages')
        /\ PlacesOf(messages, messageSeqs) /\ PlacesOf(messages', messageSeqs')
    BY <2>2, TranscriptLists
  <2>4. Ascends(messageSeqs') /\ (Active => NoneBehind(messages', messageSeqs', user))
    BY <1>1, <2>1, <2>3, PartAscends
  <2>5. \A j \in 1..Len(messages) : \/ \E i \in 1..Len(messages') : at[i] = j
                                    \/ messageSeqs[j] = Null
                                    \/ rows[messageSeqs[j]].id \in dropped'
    BY <1>1, <2>1 DEF Agrees
  <2>6. Shows(messageSeqs', rows, FirstKept, dropped')
    <3>1. FirstKept \in Nat \ {0} /\ dropped \subseteq dropped'
      BY <1>3, FirstKeptType DEF Taken
    <3> QED BY <1>1, <2>1, <2>3, <2>5, <3>1, PartShows
  <2> QED BY <2>4, <2>6
<1> QED BY <1>2, <1>3

(* A compaction keeps the rows from the first of the kept messages on.     *)
LEMMA CompactionShown ==
  ASSUME TranscriptTypes, Bounded, Aligned, Shown,
         CompactionStarts \/ HookReturns \/ Compacted \/ CompactionFails
  PROVE  Shown'
<1>0. UNCHANGED <<raced, dropped, rows, user>>
  BY DEF CompactionStarts, HookReturns, Compacted, CompactionFails
<1> SUFFICES ASSUME raced = {}
             PROVE  Shown'
  BY <1>0 DEF Shown
<1>1. /\ Agrees(messages, messageSeqs, rows, ids)
      /\ Ascends(messageSeqs) /\ Shows(messageSeqs, rows, FirstKept, dropped)
      /\ Active => NoneBehind(messages, messageSeqs, user)
  BY DEF Aligned, Shown
<1>2. CASE CompactionFails
  BY <1>0, <1>1, <1>2 DEF CompactionFails, Shown, FirstKept, Active
<1>3. CASE CompactionStarts
  BY <1>0, <1>1, <1>3 DEF CompactionStarts, Shown, FirstKept, Active
<1>4. CASE HookReturns
  <2> DEFINE x == prepared.index
             kept == SubSeq(messages, x, Len(messages))
             seqs == SubSeq(messageSeqs, x, Len(messageSeqs))
             stored == {k \in DOMAIN seqs : seqs[k] # Null}
             first == IF stored = {} THEN Len(rows) + 1 ELSE seqs[Nth(1, stored)]
  <2>1. /\ messages' = messages /\ messageSeqs' = messageSeqs /\ firstKeptSeq' = firstKeptSeq
        /\ phase = "hook" /\ phase' = "summary"
        /\ prepared'.kept = prepared.kept /\ prepared'.keptSeqs = seqs /\ prepared'.firstKeptSeq = first
    BY <1>4 DEF HookReturns, TranscriptTypes
  <2>2. prepared.kept = kept /\ x \in 2..Len(messages) /\ Len(messageSeqs) = Len(messages)
    BY <1>1, <2>1 DEF Aligned, Bounded, Agrees
  <2> HIDE DEF x
  <2>3. /\ List(kept) /\ PlacesOf(kept, seqs) /\ Len(kept) = Len(messages) - x + 1
        /\ \A i \in 1..Len(kept) : seqs[i] = messageSeqs[i + x - 1]
        /\ \E at : Within(messages, messageSeqs, kept, seqs, at)
    BY <2>2, RestIsPart
  <2>4. DOMAIN seqs = 1..Len(kept)
    <3>1. messageSeqs \in Seq(Nat) /\ x \in 1..(Len(messageSeqs) + 1)
      <4>1. Len(messages) \in Nat
        BY PendingArePlaces
      <4>2. messageSeqs \in Seq(Nat)
        BY DEF TranscriptTypes
      <4> QED BY <2>2, <4>1, <4>2
    <3>2. seqs \in Seq(Nat)
      BY <3>1, RestIs
    <3> HIDE DEF seqs
    <3> QED BY <2>3, <3>2 DEF PlacesOf
  <2> HIDE DEF kept, seqs
  <2>5. List(messages) /\ PlacesOf(messages, messageSeqs) /\ List(rows)
    BY <2>2, ListsAreLists DEF TranscriptTypes
  <2>6. Active
    BY <2>1 DEF Active
  <2>7. Ascends(seqs) /\ NoneBehind(kept, seqs, user)
    <3>1. PICK at : Within(messages, messageSeqs, kept, seqs, at)
      BY <2>3
    <3> QED BY <1>1, <2>3, <2>5, <2>6, <3>1, PartAscends
  <2>8. Shows(seqs, rows, first, dropped)
    <3>1. CASE stored = {}
      <4>1. \A i \in 1..Len(seqs) : seqs[i] = Null
        BY <2>3, <2>4, <3>1 DEF PlacesOf
      <4>2. (Len(rows) + 1)..Len(rows) = {}
        BY PendingArePlaces
      <4> QED BY <3>1, <4>1, <4>2 DEF Shows
    <3>2. CASE stored # {}
      <4> DEFINE k == Nth(1, stored)
      <4>1. Len(kept) \in Nat
        BY <2>3 DEF List
      <4>2. stored \in SUBSET (1..Len(kept)) /\ stored \in SUBSET Nat /\ IsFiniteSet(stored)
        <5>1. stored \in SUBSET (1..Len(kept)) /\ stored \in SUBSET Nat
          BY <2>4, <4>1
        <5>2. IsFiniteSet(1..Len(kept))
          BY <4>1, FS_Interval
        <5> HIDE DEF stored
        <5> QED BY <5>1, <5>2, FS_Subset
      <4>3. k \in stored /\ \A j \in stored : k <= j
        <5> HIDE DEF stored
        <5> QED BY <3>2, <4>2, FirstIsLowest
      <4>4. first = seqs[k]
        BY <3>2
      <4> HIDE DEF k, first
      <4>5. /\ k \in 1..Len(kept) /\ seqs[k] # Null
            /\ \A i \in 1..Len(kept) : seqs[i] # Null => k <= i
        BY <2>4, <4>2, <4>3
      <4>6. x \in 1..Len(messages) /\ FirstKept \in Nat
        BY <2>2, FirstKeptType, PendingArePlaces
      <4> QED BY <1>1, <2>3, <2>5, <4>4, <4>5, <4>6, RestShows
    <3> QED BY <3>1, <3>2
  <2> HIDE DEF first, stored
  <2> QED BY <1>0, <1>1, <2>1, <2>2, <2>6, <2>7, <2>8 DEF Shown, FirstKept
<1>5. CASE Compacted
  <2> DEFINE kept == prepared.kept
             seqs == prepared.keptSeqs
             first == prepared.firstKeptSeq
  <2>1. /\ messages' = <<Summary>> \o kept /\ messageSeqs' = <<Null>> \o seqs
        /\ phase = "summary" /\ phase' = "between" /\ firstKeptSeq' = first
    BY <1>5 DEF Compacted
  <2>2. /\ Agrees(kept, seqs, rows, ids)
        /\ Ascends(seqs) /\ Shows(seqs, rows, first, dropped) /\ NoneBehind(kept, seqs, user)
        /\ first # 0
    BY <2>1 DEF Aligned, Shown, Bounded
  <2>3. /\ kept \in Seq(Message) /\ seqs \in Seq(Nat) /\ Len(kept) \in Nat /\ first \in Nat
        /\ Summary \in Message /\ Summary.id = 0 /\ Null \in Nat
    BY DEF TranscriptTypes, Summary, Message, Role, Null
  <2>4. user # 0
    BY <2>1 DEF TranscriptTypes, Active
  <2>5. FirstKept' = first
    BY <2>1, <2>2 DEF FirstKept
  <2> HIDE DEF kept, seqs, first
  <2>6. /\ Len(messages') = Len(kept) + 1 /\ messages'[1] = Summary
        /\ \A j \in 1..Len(kept) : messages'[j + 1] = kept[j]
    BY <2>1, <2>3, BehindIs
  <2>7. /\ Len(messageSeqs') = Len(seqs) + 1 /\ messageSeqs'[1] = Null
        /\ \A j \in 1..Len(seqs) : messageSeqs'[j + 1] = seqs[j]
    BY <2>1, <2>3, BehindIs
  <2>8. Len(seqs) = Len(kept)
    BY <2>2 DEF Agrees
  <2>9. ASSUME NEW i \in 2..Len(messages')
        PROVE  /\ i - 1 \in 1..Len(kept) /\ messages'[i] = kept[i - 1] /\ messageSeqs'[i] = seqs[i - 1]
    <3>1. i - 1 \in 1..Len(kept) /\ (i - 1) + 1 = i
      BY <2>3, <2>6
    <3> QED BY <2>6, <2>7, <2>8, <3>1
  <2>10. \A i \in 1..Len(messages') : i = 1 \/ i \in 2..Len(messages')
    BY <2>3, <2>6
  <2>11. Len(messageSeqs') = Len(messages')
    BY <2>6, <2>7, <2>8
  <2>12. ASSUME NEW i \in 1..Len(messages'), NEW j \in 1..Len(messages'), i < j,
                messageSeqs'[i] # Null, messageSeqs'[j] # Null
         PROVE  messageSeqs'[i] < messageSeqs'[j]
    <3>1. i \in 2..Len(messages') /\ j \in 2..Len(messages')
      BY <2>7, <2>10, <2>12
    <3>2. /\ i - 1 \in 1..Len(seqs) /\ j - 1 \in 1..Len(seqs) /\ i - 1 < j - 1
          /\ messageSeqs'[i] = seqs[i - 1] /\ messageSeqs'[j] = seqs[j - 1]
      BY <2>3, <2>6, <2>8, <2>9, <2>12, <3>1
    <3> QED BY <2>2, <2>12, <3>2 DEF Ascends
  <2>13. Ascends(messageSeqs')
    BY <2>11, <2>12 DEF Ascends
  <2>14. Shows(messageSeqs', rows, first, dropped)
    <3>1. ASSUME NEW i \in 1..Len(messages'), messageSeqs'[i] # Null PROVE messageSeqs'[i] >= first
      <4>1. i \in 2..Len(messages')
        BY <2>7, <2>10, <3>1
      <4> QED BY <2>2, <2>8, <2>9, <3>1, <4>1 DEF Shows
    <3>2. ASSUME NEW s \in first..Len(rows)
          PROVE  rows[s].id \in dropped \/ \E i \in 1..Len(messages') : messageSeqs'[i] = s
      <4>1. ASSUME NEW j \in 1..Len(seqs), seqs[j] = s
            PROVE  \E i \in 1..Len(messages') : messageSeqs'[i] = s
        <5>1. j + 1 \in 1..Len(messages')
          BY <2>3, <2>6, <2>8
        <5> QED BY <2>7, <4>1, <5>1
      <4> QED BY <2>2, <4>1 DEF Shows
    <3> QED BY <2>11, <3>1, <3>2 DEF Shows
  <2>15. NoneBehind(messages', messageSeqs', user)
    <3> SUFFICES ASSUME NEW k \in 1..Len(messages'), NEW i \in 1..Len(messages'), NEW j \in 1..Len(messages'),
                        messages'[k].id = user, k <= i, i < j, messageSeqs'[i] = Null
                 PROVE  messageSeqs'[j] = Null
      BY DEF NoneBehind
    <3>1. k \in 2..Len(messages')
      BY <2>3, <2>4, <2>6, <2>10
    <3>2. i \in 2..Len(messages') /\ j \in 2..Len(messages')
      BY <3>1
    <3>3. /\ k - 1 \in 1..Len(kept) /\ i - 1 \in 1..Len(kept) /\ j - 1 \in 1..Len(kept)
          /\ kept[k - 1].id = user /\ seqs[i - 1] = Null /\ messageSeqs'[j] = seqs[j - 1]
      BY <2>9, <3>1, <3>2
    <3>4. k - 1 <= i - 1 /\ i - 1 < j - 1
      BY <3>1, <3>2
    <3> QED BY <2>2, <3>3, <3>4 DEF NoneBehind
  <2> QED BY <1>0, <2>1, <2>5, <2>13, <2>14, <2>15 DEF Shown
<1> QED BY <1>2, <1>3, <1>4, <1>5

(* A session that is opened again shows the rows that are kept.            *)
LEMMA ReopensShown ==
  ASSUME TranscriptTypes, Bounded, Aligned, Shown, Reopens
  PROVE  Shown'
<1> DEFINE m == IF firstKeptSeq = 0 THEN 0 ELSE 1
           f == FirstKept
           n == Len(rows) + 1 - f
<1>1. /\ rows' = rows /\ firstKeptSeq' = firstKeptSeq /\ phase' = "idle" /\ dropped' = {}
      /\ FirstKept' = f
  BY DEF Reopens, FirstKept
<1>2. /\ f \in 1..(Len(rows) + 1) /\ n \in Nat /\ m \in {0, 1}
      /\ Len(messageSeqs') = m + n
      /\ m = 1 => messageSeqs'[1] = Null
      /\ \A k \in 1..n : messageSeqs'[m + k] = f + k - 1
  BY ReopenedIs
<1>3. Len(rows) \in Nat
  BY PendingArePlaces
<1> HIDE DEF m, f
<1>4. ASSUME NEW i \in 1..Len(messageSeqs'), messageSeqs'[i] # Null
      PROVE  messageSeqs'[i] = i - m + f - 1 /\ i - m >= 1
  <2>1. i - m \in 1..n /\ m + (i - m) = i
    BY <1>2, <1>4
  <2>2. messageSeqs'[m + (i - m)] = f + (i - m) - 1
    BY <1>2, <2>1
  <2> QED BY <1>2, <2>1, <2>2
<1>5. Ascends(messageSeqs')
  <2> SUFFICES ASSUME NEW i \in 1..Len(messageSeqs'), NEW j \in 1..Len(messageSeqs'), i < j,
                      messageSeqs'[i] # Null, messageSeqs'[j] # Null
               PROVE  messageSeqs'[i] < messageSeqs'[j]
    BY DEF Ascends
  <2> QED BY <1>2, <1>4
<1>6. Shows(messageSeqs', rows, f, {})
  <2>1. \A i \in 1..Len(messageSeqs') : messageSeqs'[i] # Null => messageSeqs'[i] >= f
    BY <1>2, <1>4
  <2>2. ASSUME NEW s \in f..Len(rows) PROVE \E i \in 1..Len(messageSeqs') : messageSeqs'[i] = s
    <3>1. s - f + 1 \in 1..n /\ m + (s - f + 1) \in 1..Len(messageSeqs')
      BY <1>2, <1>3
    <3>2. messageSeqs'[m + (s - f + 1)] = f + (s - f + 1) - 1
      BY <1>2, <3>1
    <3> QED BY <1>2, <3>1, <3>2
  <2> QED BY <2>1, <2>2 DEF Shows
<1> QED BY <1>1, <1>5, <1>6 DEF Shown, Active

(* Every step keeps what is shown.                                         *)
LEMMA ShownStep ==
  ASSUME TranscriptTypes, Bounded, TranscriptTypes', Bounded', Aligned, Shown,
         [TranscriptNext]_transcriptVars
  PROVE  Shown'
<1>1. CASE UNCHANGED transcriptVars
  BY <1>1 DEF transcriptVars, Shown, FirstKept, Active
<1>2. CASE TurnStep
  BY <1>2, TurnShown
<1>3. CASE Notice
  BY <1>3, NoticeShown
<1>4. CASE Reopens
  BY <1>4, ReopensShown
<1>5. CASE CompactionStarts \/ HookReturns \/ Compacted \/ CompactionFails
  BY <1>5, CompactionShown
<1>6. CASE Discarded
  <2>1. UNCHANGED <<rows, firstKeptSeq, user, raced>> /\ phase' = "idle"
    BY <1>6 DEF Discarded
  <2> QED BY <1>6, <2>1, DiscardTakes, TakenShown
<1>7. CASE TooLong
  <2>1. /\ UNCHANGED <<rows, firstKeptSeq, user, raced>> /\ phase = "round" /\ phase' = "between"
        /\ Taken
    BY <1>7, TrimTakes DEF TooLong, control
  <2> QED BY <2>1, TakenShown DEF Active
<1> QED BY <1>1, <1>2, <1>3, <1>4, <1>5, <1>6, <1>7 DEF TranscriptNext, TurnStep

(* The invariant of the transcript.                                        *)
LEMMA TranscriptInvariant ==
  TranscriptSpec => [](TranscriptTypes /\ Bounded /\ Aligned /\ Shown)
<1>1. TranscriptInit => TranscriptTypes /\ Bounded /\ Aligned /\ Shown
  <2>1. /\ Len(<<>>) = 0 /\ 1..0 = {} /\ 2..0 = {}
    OBVIOUS
  <2>2. TranscriptInit => Aligned
    BY <2>1 DEF TranscriptInit, Aligned, Stores, Agrees, NamedByFirst
  <2>3. TranscriptInit => Shown
    BY <2>1 DEF TranscriptInit, Shown, Ascends, Shows, FirstKept, Active
  <2> QED BY <2>2, <2>3, TranscriptTypesInit
<1>2. TranscriptTypes /\ Bounded /\ Aligned /\ Shown /\ [TranscriptNext]_transcriptVars
      => (TranscriptTypes /\ Bounded /\ Aligned /\ Shown)'
  BY TranscriptTypesStep, AlignedStep, ShownStep
<1> QED BY <1>1, <1>2, PTL DEF TranscriptSpec

(* Memory has its stored messages in the order of the table, with the same *)
(* excuses as below (appendMessages, buildEffectiveTranscript).            *)
THEOREM TranscriptKeepsItsOrder ==
  TranscriptSpec => [](raced = {} => \A i, j \in 1..Len(messageSeqs) :
      i < j /\ messageSeqs[i] # Null /\ messageSeqs[j] # Null => messageSeqs[i] < messageSeqs[j])
<1>1. Shown => (raced = {} => \A i, j \in 1..Len(messageSeqs) :
          i < j /\ messageSeqs[i] # Null /\ messageSeqs[j] # Null => messageSeqs[i] < messageSeqs[j])
  BY DEF Shown, Ascends
<1> QED BY <1>1, TranscriptInvariant, PTL

(* A session that is opened again shows what this one shows, but for what  *)
(* was taken from memory alone, unless a notice came between the reads of  *)
(* a compaction or ahead of a message that waited (firstKeptSeq of         *)
(* compactOnce, buildEffectiveTranscript).                                 *)
THEOREM TranscriptResumes == TranscriptSpec => []ResumeSeesTheSame
<1>1. TranscriptTypes /\ Bounded /\ Aligned /\ Shown => ResumeSeesTheSame
  <2> SUFFICES ASSUME TranscriptTypes, Bounded, Aligned, Shown, raced = {}
               PROVE  {rows[s].id : s \in Kept} \ dropped
                      = {messages[i].id : i \in {k \in DOMAIN messageSeqs : messageSeqs[k] # Null}} \ dropped
    BY DEF ResumeSeesTheSame
  <2>1. /\ Agrees(messages, messageSeqs, rows, ids) /\ Shows(messageSeqs, rows, FirstKept, dropped)
    BY DEF Aligned, Shown
  <2>2. DOMAIN messageSeqs = 1..Len(messages) /\ Len(messageSeqs) = Len(messages)
    BY <2>1, PendingArePlaces DEF Agrees
  <2>3. ASSUME NEW s \in Kept, rows[s].id \notin dropped
        PROVE  \E i \in 1..Len(messages) : messageSeqs[i] # Null /\ messages[i].id = rows[s].id
    <3>1. s \in FirstKept..Len(rows) /\ s # Null
      BY FirstKeptType DEF Kept, Null
    <3>2. PICK i \in 1..Len(messages) : messageSeqs[i] = s
      BY <2>1, <2>2, <2>3, <3>1 DEF Shows
    <3> QED BY <2>1, <3>1, <3>2 DEF Agrees
  <2>4. ASSUME NEW i \in 1..Len(messages), messageSeqs[i] # Null
        PROVE  \E s \in Kept : rows[s].id = messages[i].id
    <3>1. messageSeqs[i] \in 1..Len(rows) /\ rows[messageSeqs[i]] = messages[i]
      BY <2>1, <2>4 DEF Agrees
    <3>2. messageSeqs[i] >= FirstKept
      BY <2>1, <2>2, <2>4 DEF Shows
    <3>3. messageSeqs[i] \in Kept
      BY <3>1, <3>2, FirstKeptType, PendingArePlaces DEF Kept
    <3> QED BY <3>1, <3>3
  <2> QED BY <2>2, <2>3, <2>4
<1> QED BY <1>1, TranscriptInvariant, PTL
================================================================================
