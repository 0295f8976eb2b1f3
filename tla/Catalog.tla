-------------------------------- MODULE Catalog --------------------------------
(***************************************************************************)
(* The catalogue of models: src/routing/catalog-service.ts and the calls of*)
(* routing/runtime.ts.  A pass asks the providers that are due, a few at a *)
(* time; calls that overlap share it.  Meanwhile the user may add or remove*)
(* a provider's key, and the start may still be reading the cache.         *)
(*                                                                         *)
(* Time is left open: the age of an answer and the wait after a failure may*)
(* or may not be over.  No caller passes a signal, so no pass is cancelled.*)
(***************************************************************************)
EXTENDS Naturals, FiniteSets

CONSTANTS
    Provider, Caller,
    Concurrency,     \* providers asked at a time
    AtStart,         \* which providers may have a key at the start
    MaxChanges,      \* bound: keys added or removed
    NoPass

ASSUME CatalogAssumption ==
    /\ Concurrency \in Nat \ {0} /\ MaxChanges \in Nat
    /\ IsFiniteSet(Provider) /\ AtStart \subseteq SUBSET Provider

VARIABLES
    configured,      \* providers with a key
    changes,
    states,          \* what is known of each provider
    snapshot,        \* providers whose models the catalogue shows
    inflight,        \* the pass under way
    callers,
    loader,          \* providers whose cache is still being read, by the start
    crossed          \* history: the cache was read while a pass was under way

catalogVars == <<configured, changes, states, snapshot, inflight, callers, loader, crossed>>

Answer == {"none", "loading", "ready", "stale", "unavailable"}

(* The models that are known; a provider that answered keeps them while it *)
(* does not answer.                                                        *)
Known(status) == status \in {"ready", "stale"}

Shown(known) == {p \in Provider : Known(known[p])}

(* `open`: providers with a key at the time of a forced call, not asked    *)
(* since.                                                                  *)
Call    == [stage : {"idle", "waiting", "queued", "again", "answered"}, forced : BOOLEAN,
            shared : BOOLEAN, open : SUBSET Provider]
Pass    == [forced : BOOLEAN, queue : SUBSET Provider, asked : SUBSET Provider,
            before : [Provider -> Answer], changed : BOOLEAN]
NoCall  == [stage |-> "idle", forced |-> FALSE, shared |-> FALSE, open |-> {}]

ASSUME NoPassAssumption == NoPass \notin Pass

-----------------------------------------------------------------------------
(* refresh: one pass at a time.                                            *)

(* Faulty: a provider that was removed stays.                              *)
WithoutRemoved == states

(* What is no longer configured leaves the catalogue at once.              *)
Remaining == [p \in Provider |-> IF p \in configured THEN states[p] ELSE "none"]

(* A pass begins and asks what is due.  Everything is, when the pass is    *)
(* forced; a provider of which nothing is known always is.                 *)
Begins(forced) ==
    LET unknown == {p \in configured : Remaining[p] = "none"} IN
    \E due \in SUBSET configured :
        /\ unknown \subseteq due /\ (forced => due = configured)
        /\ states' = [p \in Provider |-> IF p \in unknown THEN "loading" ELSE Remaining[p]]
        /\ inflight' = [forced |-> forced, queue |-> due, asked |-> {}, before |-> [p \in Provider |-> "none"],
                        changed |-> Shown(Remaining) # Shown(states)]

(* Faulty: any pass under way will do.                                     *)
MustWaitNever(forced) == FALSE

(* A forced call is not answered by a pass that was not forced: that one   *)
(* may have begun before the key was there.                                *)
MustWait(forced) == forced /\ ~inflight.forced

Refresh(c, call) ==
    IF inflight = NoPass
    THEN /\ Begins(call.forced)
         /\ callers' = [callers EXCEPT ![c] = [call EXCEPT !.stage = "waiting"]]
    ELSE /\ callers' = [callers EXCEPT ![c] =
                IF MustWait(call.forced) THEN [call EXCEPT !.stage = "queued"]
                ELSE [call EXCEPT !.stage = "waiting",
                                  !.shared = call.stage = "idle" /\ call.forced /\ inflight.forced]]
         /\ UNCHANGED <<states, inflight>>

(* Those that waited for a pass to end call again before anything else can *)
(* happen (the continuations of a promise come before the next event).     *)
Settled == \A c \in Caller : callers[c].stage # "again"

Asks(c) ==
    /\ Settled /\ callers[c].stage \in {"idle", "answered"}
    /\ \E forced \in BOOLEAN : Refresh(c, [NoCall EXCEPT !.forced = forced, !.open = IF forced THEN configured ELSE {}])
    /\ UNCHANGED <<configured, changes, snapshot, loader, crossed>>

AsksAgain(c) ==
    /\ callers[c].stage = "again"
    /\ Refresh(c, callers[c])
    /\ UNCHANGED <<configured, changes, snapshot, loader, crossed>>

(* startAutoRefresh: the timer; nobody waits for its call.                 *)
Timer ==
    /\ Settled /\ inflight = NoPass
    /\ Begins(FALSE)
    /\ UNCHANGED <<configured, changes, snapshot, callers, loader, crossed>>

-----------------------------------------------------------------------------
(* runRefresh and refreshOne.                                              *)

AskedSince(p) == [c \in Caller |-> [callers[c] EXCEPT !.open = @ \ {p}]]

AsksProvider(p) ==
    /\ Settled /\ inflight # NoPass
    /\ p \in inflight.queue /\ Cardinality(inflight.asked) < Concurrency
    /\ inflight' = [inflight EXCEPT !.queue = @ \ {p}, !.asked = @ \cup {p}, !.before[p] = states[p]]
    /\ callers' = AskedSince(p)
    /\ UNCHANGED <<configured, changes, states, snapshot, loader, crossed>>

(* It lists its models, or every key of it fails or takes too long.  What  *)
(* is written then comes from what was read before it was asked.           *)
ProviderAnswers(p) ==
    /\ Settled /\ inflight # NoPass /\ p \in inflight.asked
    /\ LET before == inflight.before[p]
           failed == IF Known(before) THEN "stale" ELSE "unavailable" IN
       \/ /\ states' = [states EXCEPT ![p] = "ready"]
          /\ inflight' = [inflight EXCEPT !.asked = @ \ {p}, !.before[p] = "none", !.changed = TRUE]
       \/ /\ states' = [states EXCEPT ![p] = failed]
          /\ inflight' = [inflight EXCEPT !.asked = @ \ {p}, !.before[p] = "none",
                                          !.changed = @ \/ failed # before]
    /\ UNCHANGED <<configured, changes, snapshot, callers, loader, crossed>>

(* Faulty: only what answered is published.                                *)
PublishedReady == {p \in Provider : states[p] = "ready"}

(* What changed is told to whoever shows the catalogue.                    *)
Published == IF inflight.changed THEN Shown(states) ELSE snapshot

PassEnds ==
    /\ inflight # NoPass /\ inflight.queue = {} /\ inflight.asked = {}
    /\ snapshot' = Published
    /\ callers' = [c \in Caller |->
            CASE callers[c].stage = "waiting" -> [callers[c] EXCEPT !.stage = "answered"]
              [] callers[c].stage = "queued"  -> [callers[c] EXCEPT !.stage = "again"]
              [] OTHER -> callers[c]]
    /\ inflight' = NoPass
    /\ UNCHANGED <<configured, changes, states, loader, crossed>>

-----------------------------------------------------------------------------
(* loadCached, and the user's keys.                                        *)

(* The file of a provider is read, or there is none; whether anything was  *)
(* known of the provider was asked before.  The last publishes.            *)
CacheRead(p) ==
    /\ Settled /\ p \in loader.todo
    /\ \/ /\ states' = [states EXCEPT ![p] = "stale"]
          /\ loader' = [todo |-> loader.todo \ {p}, changed |-> TRUE]
          /\ crossed' = (crossed \/ inflight # NoPass)
       \/ /\ loader' = [loader EXCEPT !.todo = @ \ {p}]
          /\ UNCHANGED <<states, crossed>>
    /\ snapshot' = IF loader'.todo = {} /\ loader'.changed THEN Shown(states') ELSE snapshot
    /\ UNCHANGED <<configured, changes, inflight, callers>>

KeyChanges(p) ==
    /\ Settled /\ changes < MaxChanges
    /\ changes' = changes + 1
    /\ configured' = IF p \in configured THEN configured \ {p} ELSE configured \cup {p}
    /\ callers' = AskedSince(p)
    /\ UNCHANGED <<states, snapshot, inflight, loader, crossed>>

-----------------------------------------------------------------------------

CatalogInit ==
    /\ configured \in AtStart /\ changes = 0
    /\ states = [p \in Provider |-> "none"] /\ snapshot = {} /\ inflight = NoPass
    /\ callers = [c \in Caller |-> NoCall]
    /\ loader = [todo |-> configured, changed |-> FALSE] /\ crossed = FALSE

CatalogNext ==
    \/ \E c \in Caller : Asks(c) \/ AsksAgain(c)
    \/ Timer \/ PassEnds
    \/ \E p \in Provider : AsksProvider(p) \/ ProviderAnswers(p) \/ CacheRead(p) \/ KeyChanges(p)

CatalogSpec == CatalogInit /\ [][CatalogNext]_catalogVars

(* A provider answers within its time limit, and the timer keeps firing.   *)
PassStep == PassEnds \/ \E p \in Provider : AsksProvider(p) \/ ProviderAnswers(p)
Reading  == \E p \in Provider : CacheRead(p)
Again    == \E c \in Caller : AsksAgain(c)

-----------------------------------------------------------------------------
(* Properties.                                                             *)

(* A forced refresh (a key was just added) is not answered before every    *)
(* provider with a key at that moment was asked anew, whichever pass was   *)
(* under way and however many calls share the next one; unless a pass that *)
(* was under way was forced too, which it shares.                          *)
ForcedAsksAnew ==
    \A c \in Caller : callers[c].stage = "answered" /\ callers[c].forced /\ ~callers[c].shared
                       => callers[c].open = {}

(* Between passes the catalogue shows what is known, no less and no more:  *)
(* every change a pass or the cache made was published, those of providers *)
(* that left or failed too.  It may not, once the cache was read during a  *)
(* pass (loadCached writes after a wait, and so does refreshOne).          *)
SnapshotIsCurrent ==
    inflight = NoPass /\ loader.todo = {} /\ ~crossed => snapshot = Shown(states)
================================================================================
