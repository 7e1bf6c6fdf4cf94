------------------------------- MODULE Cadence -------------------------------
(***************************************************************************)
(* How often one Mac asks its providers (ADR 0063): the gate every quota   *)
(* pass goes through and the records it judges by (packages/service/src/   *)
(* service/cadence.rs, NativeBackend::collect_quota_pass), the scheduler's *)
(* provider clocks, and a collection request another client leaves on the  *)
(* Account, from the summary that carries it to the pass that answers it   *)
(* (service/mod.rs, apps/relay/src/state/d1-account-state.ts).             *)
(*                                                                         *)
(* One account per provider.  Time is counted in multiples of the shortest *)
(* floor, so the 30 seconds of DUE_SLACK and the jitter of a tick are less *)
(* than one instant.  Activity tiers are left open: an interval is never   *)
(* below the floor, and a provider may be due at any instant from there.   *)
(* RefreshLanes has the lanes themselves; here a full refresh that waits   *)
(* for the Usage lane is one that is still owed.                           *)
(***************************************************************************)
EXTENDS Integers, FiniteSets

CONSTANTS
  Provider,     \* ProviderId::ALL
  Floor,        \* provider -> collection.min_interval_seconds
  ManualFloor,  \* MANUAL_FLOOR
  RaisedFloor,  \* RATE_LIMITED_FLOOR
  RaisedSpan,   \* RATE_LIMITED_FLOOR_SPAN
  BackoffStart, \* BACKOFF_START
  BackoffCap,   \* BACKOFF_CAP
  RetryAfter,   \* the Retry-After a 429 may carry, at most RETRY_AFTER_CAP; 0 is none
  Lifetime,     \* DEMAND_LIFETIME
  Coalesce,     \* how long a standing request answers for a new one
  None,         \* Option::None
  LastInstant,  \* bound: the clock stops here
  Mishaps,      \* which of the events below may happen
  MaxEvents     \* bound: how many of these events there are

ASSUME CadenceAssumption ==
  /\ Floor \in [Provider -> Nat \ {0}]
  /\ {ManualFloor, RaisedFloor, RaisedSpan, BackoffStart, BackoffCap, Lifetime, Coalesce} \subseteq Nat \ {0}
  /\ RetryAfter \subseteq Nat
  /\ LastInstant \in Nat /\ MaxEvents \in Nat
  /\ None \notin Nat
  /\ Mishaps \subseteq {"request",     \* another client asks for a collection
                        "elsewhere",   \* another Mac reads a provider
                        "limited",     \* a provider answers 429
                        "failed",      \* a provider does not answer, or refuses
                        "offline",     \* an Account read fails
                        "manual",      \* the user refreshes
                        "reset",       \* a window reset is caught up with
                        "restart",     \* the service stops between passes and starts again
                        "cut",         \* a pass is cancelled, or fails as a whole
                        "panicked",    \* the collector of a provider panics
                        "absent",      \* the sign-in of a provider goes or comes back
                        "emptied",     \* the person resets the cache
                        "unspawned",   \* the thread of a pass cannot be started
                        "overtaken"}   \* an Account read is overtaken before it is stored

(* None is no 429 on record, and no full refresh still to run. *)
ASSUME NoLimitIsNone ==
  /\ None \notin {"startup", "manual", "change"}
  /\ None \notin [known : BOOLEAN, until : Int, strikes : Int]
  /\ None \notin [known : BOOLEAN, until : Int]

VARIABLES
  now,
  requested,     \* accounts.collection_requested_at
  elsewhere,     \* when another Mac last read a provider, as the Account holds it
  present,       \* the providers with a sign-in to discover on this Mac
  summary,       \* the stored Account component: what a read of these two answered
  known,         \* the providers whose stored Quota result names its account
  record,        \* provider_cadence in cache.sqlite
  answered,      \* CadenceState.answered_demand
  complete,      \* CadenceState.last_complete_collection
  demand,        \* SchedulerSignals.demand
  clock,         \* ProviderClock.last
  waiting,       \* RefreshState.pending_quota: a quota pass waits for its lane
  owed,          \* RefreshState.pending_quota_providers
  owedFull,      \* the full refresh still to run: its trigger, or None
  pass,          \* the pass the quota or the full lane is running
  reader,        \* the Account read of the account lane and the one of the pass
  events,        \* how many events there have been
  asked,         \* history: when each provider was last asked
  unkept,        \* history: the providers whose last ask is not recorded
  held,          \* history: until when its latest 429 holds it, and whether it was named since
  told,          \* history: the newest reading elsewhere a stored Account read carried
  collected,     \* history: per provider, the start of the last pass that judged and kept it
  dropped        \* history: what was to answer the request taken up last was let go

accountVars == <<requested, elsewhere, present>>
storedVars  == <<summary, known, record>>
memoryVars  == <<answered, complete, demand, clock, waiting, owed, owedFull>>
historyVars == <<asked, unkept, held, told, collected, dropped>>
vars == <<now, accountVars, storedVars, memoryVars, pass, reader, events, historyVars>>

Instant == 0..LastInstant
OrNone(S) == S \cup {None}

Largest(S) == CHOOSE x \in S : \A y \in S : y <= x
Smaller(a, b) == IF a <= b THEN a ELSE b
Larger(a, b) == Largest({a, b})

(* Beyond the last instant every instant is the same. *)
Capped(t) == Smaller(t, LastInstant + 1)

Account == [requested : OrNone(Instant), elsewhere : [Provider -> OrNone(Instant)]]
Unread == [requested |-> None, elsewhere |-> [p \in Provider |-> None]]

(***************************************************************************)
(* CadenceRecord.  A 429 is kept with the account this Mac last read: it   *)
(* is `known`, or the empty string when the stored result names none.      *)
(***************************************************************************)
Backoff == [known : BOOLEAN, until : 0..(LastInstant + 1), strikes : Nat]
Raised  == [known : BOOLEAN, until : 0..(LastInstant + 1)]
Record  == [last : OrNone(Instant), backoff : OrNone(Backoff), raised : OrNone(Raised)]

NoRecord == [last |-> None, backoff |-> None, raised |-> None]

NoPass == [pc |-> "idle", providers |-> {}, full |-> FALSE, manual |-> FALSE, started |-> None,
           at |-> None, record |-> None, collect |-> {}, absent |-> {}]

NoRead == [pc |-> "idle", value |-> Unread]

Limit == [backoff : 0..(LastInstant + 1), raised : 0..(LastInstant + 1), named : BOOLEAN]
NotLimited == [backoff |-> 0, raised |-> 0, named |-> FALSE]

(* The previous pass ran before the first instant; the service has just started. *)
Init ==
  /\ now = 0
  /\ requested = None
  /\ elsewhere = [p \in Provider |-> None]
  /\ present = Provider
  /\ summary = Unread
  /\ known = Provider
  /\ record = [p \in Provider |-> NoRecord]
  /\ answered = None
  /\ complete = None
  /\ demand = FALSE
  /\ clock = [p \in Provider |-> 0]
  /\ waiting = FALSE
  /\ owed = {}
  /\ owedFull = "startup"
  /\ pass = NoPass
  /\ reader = [t \in {"account", "pass"} |-> NoRead]
  /\ events = 0
  /\ asked = [p \in Provider |-> None]
  /\ unkept = {}
  /\ held = [p \in Provider |-> NotLimited]
  /\ told = [p \in Provider |-> None]
  /\ collected = [p \in Provider |-> None]
  /\ dropped = FALSE

Mishap(m) == m \in Mishaps /\ events < MaxEvents /\ events' = events + 1

-------------------------------------------------------------------------------
(***************************************************************************)
(* Pure decisions over instants.                                           *)
(***************************************************************************)

(* floor *)
IsRaised(r, k, t) == r.raised # None /\ r.raised.known = k /\ r.raised.until > t

FloorOf(p, r, k, t) == IF IsRaised(r, k, t) THEN Larger(Floor[p], RaisedFloor) ELSE Floor[p]

WaitedOut(r, span, t) == r.last = None \/ t - r.last >= span

BackingOff(r, k, t) == r.backoff # None /\ r.backoff.known = k /\ r.backoff.until > t

(* read_elsewhere; its floor is the catalog's. *)
NeverElsewhere(p, k, account, t) == FALSE

ReadElsewhere(p, k, account, t) ==
  k /\ account.elsewhere[p] # None /\ t - account.elsewhere[p] < Floor[p]

(* gate *)
MayAsk(p, manual, r, k, account, t) ==
  IF manual
  THEN WaitedOut(r, ManualFloor, t)
  ELSE /\ WaitedOut(r, FloorOf(p, r, k, t), t)
       /\ ~BackingOff(r, k, t)
       /\ ~ReadElsewhere(p, k, account, t)

(* not_before has come *)
NotHeld(p, r, k, t) == WaitedOut(r, FloorOf(p, r, k, t), t) /\ ~BackingOff(r, k, t)

(* backoff_after_429 *)
Doubled(strikes) == Smaller(BackoffStart * 2 ^ (strikes - 1), BackoffCap)

After429(r, k, retry, t) ==
  LET strikes == IF r.backoff # None /\ r.backoff.known = k THEN r.backoff.strikes + 1 ELSE 1
      wait    == IF retry > 0 THEN retry ELSE Doubled(strikes)
  IN  [known |-> k, until |-> Capped(t + wait), strikes |-> Smaller(strikes, LastInstant)]

Raised429(k, t) == [known |-> k, until |-> Capped(t + RaisedSpan)]

(* What one answer does to a record: an answer is a reading, a failure, a 429, or nothing at all: *)
(* only a result that names a source stamps the record, and one that panicked names none.         *)
Answers == [outcome : {"success", "failed", "panicked"}, retry : {0}]
           \cup [outcome : {"limited"}, retry : RetryAfter]

AfterAnswer(r, k, answer, t) ==
  CASE answer.outcome = "success" -> [r EXCEPT !.last = t, !.backoff = None]
    [] answer.outcome = "failed"  -> [r EXCEPT !.last = t]
    [] answer.outcome = "panicked" -> r
    [] answer.outcome = "limited" ->
         [last |-> t, backoff |-> After429(r, k, answer.retry, t), raised |-> Raised429(k, t)]

(* demand_to_answer *)
IsNews(asking, done, before, t) ==
  /\ asking # None
  /\ t - asking <= Lifetime
  /\ done # None => asking > done
  /\ before # None => asking > before

-------------------------------------------------------------------------------
(***************************************************************************)
(* The rest of the Account: viewers ask, other Macs read.                  *)
(***************************************************************************)
Tick ==
  /\ now < LastInstant
  /\ now' = now + 1
  /\ UNCHANGED <<accountVars, storedVars, memoryVars, pass, reader, events, historyVars>>

(* requestCollection: a request that stands answers for the next ones for a while. *)
RequestCollection ==
  /\ Mishap("request")
  /\ requested # None => requested <= now - Coalesce
  /\ requested' = now
  /\ UNCHANGED <<now, elsewhere, present, storedVars, memoryVars, pass, reader, historyVars>>

OtherMacReads(p) ==
  /\ Mishap("elsewhere")
  /\ elsewhere' = [elsewhere EXCEPT ![p] = now]
  /\ UNCHANGED <<now, requested, present, storedVars, memoryVars, pass, reader, historyVars>>

(* A person signs in to a provider, or out of it, outside of Quota. *)
SignInChanges(p) ==
  /\ Mishap("absent")
  /\ present' = (present \cup {p}) \ (present \cap {p})
  /\ UNCHANGED <<now, requested, elsewhere, storedVars, memoryVars, pass, reader, historyVars>>

-------------------------------------------------------------------------------
(***************************************************************************)
(* Reading the Account: an Account lane of its own, and one read in every  *)
(* pass.  The answer is noted first and stored after (RefreshUpdates,      *)
(* apply_component_result).                                                *)
(***************************************************************************)

(* The full refresh reads beside its pass, the quota lane after it.  An Account poll starts only  *)
(* when no pass runs and may still be reading when one does; one that tells nothing is left out.  *)
MayRead(t) ==
  IF t = "pass"
  THEN reader[t].pc = "due" /\ (~pass.full => pass.pc = "kept")
  ELSE /\ reader[t].pc = "idle"
       /\ elsewhere = summary.elsewhere /\ requested = summary.requested
            => IsNews(requested, complete, answered, now)

(* The other read is not stored yet. *)
Overtakes(t) == \E other \in {"account", "pass"} \ {t} : reader[other].pc = "noted"

Newer(a, b) == IF a = None \/ (b # None /\ b > a) THEN b ELSE a

(* The answer arrives: note_collection_request. *)
ReadAccount(t) ==
  LET news == IsNews(requested, complete, answered, now) IN
  /\ MayRead(t)
  /\ IF Overtakes(t) THEN Mishap("overtaken") ELSE UNCHANGED events
  /\ answered' = IF news THEN requested ELSE answered
  /\ demand' = (demand \/ news)
  /\ reader' = [reader EXCEPT ![t] = [pc |-> "noted",
                                      value |-> [requested |-> requested, elsewhere |-> elsewhere]]]
  /\ dropped' = (dropped /\ ~news)
  /\ UNCHANGED <<now, accountVars, storedVars, complete, clock, waiting, owed, owedFull, pass,
                 asked, unkept, held, told, collected>>

ReadFails ==
  /\ MayRead("pass")
  /\ Mishap("offline")
  /\ reader' = [reader EXCEPT !["pass"] = NoRead]
  /\ UNCHANGED <<now, accountVars, storedVars, memoryVars, pass, historyVars>>

(* update_component *)
StoreAccount(t) ==
  /\ reader[t].pc = "noted"
  /\ summary' = reader[t].value
  /\ told' = [p \in Provider |-> Newer(told[p], reader[t].value.elsewhere[p])]
  /\ reader' = [reader EXCEPT ![t] = NoRead]
  /\ UNCHANGED <<now, accountVars, known, record, memoryVars, pass, events,
                 asked, unkept, held, collected, dropped>>

-------------------------------------------------------------------------------
(***************************************************************************)
(* A pass starts when its lane is free, and waits otherwise (request_lane, *)
(* request_full).  What the thread was to do is lost with a thread that    *)
(* cannot be started.                                                      *)
(***************************************************************************)
Begin(ps, trigger) ==
  /\ pass' = [NoPass EXCEPT !.pc = "started", !.full = (trigger # None), !.manual = (trigger = "manual"),
                            !.providers = ps, !.started = now]
  /\ reader' = [reader EXCEPT !["pass"].pc = "due"]

SpawnFails == Mishap("unspawned") /\ UNCHANGED <<pass, reader>>

Fold(ps) ==
  /\ pass.pc # "idle"
  /\ waiting' = TRUE /\ owed' = owed \cup ps
  /\ UNCHANGED <<pass, reader, dropped>>

(* A request that gets the lane clears pending_quota and leaves the providers folded until then: *)
(* they are taken by the pass after the next request that has to wait.                           *)
Overrun(ps) == waiting /\ owed = Provider /\ ps # Provider

TakeLane(ps) ==
  /\ pass.pc = "idle"
  /\ Begin(ps, None)
  /\ waiting' = FALSE /\ UNCHANGED owed
  /\ dropped' = (dropped \/ Overrun(ps))

LoseLane(ps) ==
  /\ pass.pc = "idle"
  /\ SpawnFails
  /\ waiting' = FALSE /\ UNCHANGED owed
  /\ dropped' = (dropped \/ Overrun(ps) \/ ps = Provider)

RequestPass(ps) == ((Fold(ps) \/ TakeLane(ps)) /\ UNCHANGED events) \/ LoseLane(ps)

(* maybe_start_pending takes a full refresh before a quota pass, and all that was folded. *)
StartFull ==
  /\ pass.pc = "idle" /\ owedFull # None
  /\ \/ Begin(Provider, owedFull) /\ UNCHANGED <<events, dropped>>
     \/ SpawnFails /\ dropped' = TRUE
  /\ owedFull' = None
  /\ UNCHANGED <<now, accountVars, storedVars, answered, complete, demand, clock, waiting, owed,
                 asked, unkept, held, told, collected>>

StartPending ==
  /\ pass.pc = "idle" /\ owedFull = None /\ waiting
  /\ \/ Begin(owed, None) /\ UNCHANGED <<events, dropped>>
     \/ SpawnFails /\ dropped' = (dropped \/ owed = Provider)
  /\ waiting' = FALSE /\ owed' = {}
  /\ UNCHANGED <<now, accountVars, storedVars, answered, complete, demand, clock, owedFull,
                 asked, unkept, held, told, collected>>

-------------------------------------------------------------------------------
(***************************************************************************)
(* Who asks for a pass.                                                    *)
(***************************************************************************)
(* ProviderClock::restart *)
Restarted(ps) == [p \in Provider |-> IF p \in ps THEN now ELSE clock[p]]

DropsTheDemand == demand' = FALSE /\ UNCHANGED <<waiting, owed, pass, reader, events, dropped>>

(* run_scheduler finds the demand posted: everything is asked now. *)
RunDemanded == demand' = FALSE /\ RequestPass(Provider)

AnswerDemand ==
  /\ demand
  /\ RunDemanded
  /\ clock' = Restarted(Provider)
  /\ UNCHANGED <<now, accountVars, storedVars, answered, complete, owedFull,
                 asked, unkept, held, told, collected>>

(* SchedulerWake::Quota: the providers due, without those the gate would refuse. *)
IsDue(p) ==
  /\ now - clock[p] >= FloorOf(p, record[p], p \in known, now)
  /\ NotHeld(p, record[p], p \in known, now)

TimedTick ==
  \E ps \in SUBSET {p \in Provider : IsDue(p)} :
    /\ ps # {}
    /\ ~demand
    /\ RequestPass(ps)
    /\ clock' = Restarted(ps)
    /\ UNCHANGED <<now, accountVars, storedVars, answered, complete, demand, owedFull,
                   asked, unkept, held, told, collected>>

(* SchedulerWake::ResetBoundary: a provider whose window has just been reset, its clock kept. *)
CatchReset(p) ==
  /\ Mishap("reset")
  /\ Fold({p}) \/ TakeLane({p})
  /\ UNCHANGED <<now, accountVars, storedVars, answered, complete, demand, clock, owedFull,
                 asked, unkept, held, told, collected>>

ManualRefresh ==
  /\ Mishap("manual")
  /\ owedFull' = "manual"
  /\ UNCHANGED <<now, accountVars, storedVars, answered, complete, demand, clock, waiting, owed, pass,
                 reader, historyVars>>

-------------------------------------------------------------------------------
(***************************************************************************)
(* A pass (run_quota_lane, run_refresh, collect_quota_pass).               *)
(***************************************************************************)
(* The records are read, the gate judges by them, and of those who pass it the ones with a sign-in *)
(* are asked; the others are told to sign in.                                                      *)
Judge ==
  /\ pass.pc = "started"
  /\ IF ~pass.full /\ Overtakes("pass") THEN Mishap("overtaken") ELSE UNCHANGED events
  /\ LET may == {p \in pass.providers :
                   MayAsk(p, pass.manual, record[p], p \in known, summary, now)} IN
     /\ pass' = [pass EXCEPT !.pc = "asking", !.at = now, !.record = record,
                             !.collect = may \cap present, !.absent = may \ present]
     /\ asked' = [p \in Provider |-> IF p \in may \cap present THEN now ELSE asked[p]]
     /\ unkept' = unkept \ (may \cap present)
  /\ UNCHANGED <<now, accountVars, storedVars, memoryVars, reader, held, told, collected, dropped>>

(* Every provider asked has answered: the records and the readings are kept. *)
OnlyTheFresh(answer) ==
  [p \in Provider |->
    IF p \in pass.collect
    THEN AfterAnswer(pass.record[p], p \in known, answer[p], pass.at)
    ELSE NoRecord]

Kept(answer) ==
  [p \in Provider |->
    IF p \in pass.collect
    THEN AfterAnswer(pass.record[p], p \in known, answer[p], pass.at)
    ELSE pass.record[p]]

(* merge_quota_reports: a failure stores a result without an account, a 429 keeps the previous. *)
NamedAfter(answer) ==
  {p \in Provider \ pass.absent : IF p \in pass.collect /\ answer[p].outcome # "limited"
                                  THEN answer[p].outcome = "success"
                                  ELSE p \in known}

Limited(p, answer) ==
  CASE answer.outcome = "success" -> [held[p] EXCEPT !.backoff = 0]
    [] answer.outcome \in {"failed", "panicked"} -> [held[p] EXCEPT !.named = FALSE]
    [] answer.outcome = "limited" ->
         [backoff |-> After429(pass.record[p], p \in known, answer.retry, pass.at).until,
          raised |-> Capped(pass.at + RaisedSpan), named |-> p \in known]

Keep ==
  /\ pass.pc = "asking"
  /\ \E answer \in [pass.collect -> Answers] :
     LET bad == {p \in pass.collect : answer[p].outcome # "success"} IN
     /\ IF bad = {} THEN UNCHANGED events ELSE \E p \in bad : bad = {p} /\ Mishap(answer[p].outcome)
     /\ record' = Kept(answer)
     /\ known' = NamedAfter(answer)
     /\ held' = [p \in Provider |-> IF p \in pass.collect THEN Limited(p, answer[p])
                                    ELSE IF p \in pass.absent THEN [held[p] EXCEPT !.named = FALSE]
                                    ELSE held[p]]
     /\ unkept' = unkept \cup {p \in pass.collect : answer[p].outcome = "panicked"}
  /\ collected' = [p \in Provider |-> IF p \in pass.providers THEN pass.started ELSE collected[p]]
  /\ pass' = [pass EXCEPT !.pc = "kept", !.record = None]
  /\ UNCHANGED <<now, accountVars, summary, memoryVars, reader, asked, told, dropped>>

(* note_complete_collection, once the Account was read. *)
FinishPass ==
  /\ pass.pc = "kept"
  /\ reader["pass"].pc = "idle"
  /\ complete' = IF pass.providers = Provider THEN Newer(complete, pass.started) ELSE complete
  /\ pass' = NoPass
  /\ UNCHANGED <<now, accountVars, storedVars, answered, demand, clock, waiting, owed, owedFull, reader,
                 events, historyVars>>

(***************************************************************************)
(* A pass that is cancelled, or cannot read what it needs, returns before  *)
(* its records are written.  A sign-in, and a sign-out the Relay took,     *)
(* cancel and end with a full refresh; a sign-out the Relay did not hear   *)
(* of, a reset answered Busy and a pass that fails leave nothing owed.     *)
(***************************************************************************)
CutPass ==
  /\ pass.pc \in {"started", "asking"}
  /\ Mishap("cut")
  /\ pass' = NoPass
  /\ reader' = [reader EXCEPT !["pass"] = NoRead]
  /\ \/ owedFull' = "change" /\ UNCHANGED dropped
     \/ UNCHANGED owedFull /\ dropped' = (dropped \/ pass.providers = Provider)
  /\ unkept' = unkept \cup pass.collect
  /\ UNCHANGED <<now, accountVars, storedVars, answered, complete, demand, clock, waiting, owed,
                 asked, held, told, collected>>

(***************************************************************************)
(* reset_cache, once nothing runs: the records and the stored results go   *)
(* with cache.sqlite ("a cache reset forgets a backoff, and the next 429   *)
(* earns it again").                                                       *)
(***************************************************************************)
ResetCache ==
  /\ pass.pc = "idle" /\ \A t \in {"account", "pass"} : reader[t].pc = "idle"
  /\ Mishap("emptied")
  /\ summary' = Unread /\ told' = Unread.elsewhere
  /\ known' = {} /\ record' = [p \in Provider |-> NoRecord]
  /\ held' = [p \in Provider |-> [held[p] EXCEPT !.named = FALSE]]
  /\ unkept' = Provider
  /\ owedFull' = "manual"
  /\ UNCHANGED <<now, accountVars, answered, complete, demand, clock, waiting, owed, pass, reader,
                 asked, collected, dropped>>

(* start_scheduler of the next process *)
Restart ==
  /\ pass.pc = "idle"
  /\ Mishap("restart")
  /\ answered' = None
  /\ complete' = None
  /\ demand' = FALSE
  /\ clock' = Restarted(Provider)
  /\ waiting' = FALSE /\ owed' = {}
  /\ owedFull' = "startup"
  /\ dropped' = FALSE
  /\ reader' = [t \in {"account", "pass"} |-> NoRead]
  /\ UNCHANGED <<now, accountVars, storedVars, pass, asked, unkept, held, told, collected>>

-------------------------------------------------------------------------------
Around ==
  \/ Tick
  \/ RequestCollection
  \/ \E p \in Provider : OtherMacReads(p) \/ SignInChanges(p)
  \/ TimedTick
  \/ \E p \in Provider : CatchReset(p)
  \/ ManualRefresh
  \/ CutPass
  \/ ResetCache
  \/ Restart

Work ==
  \/ \E t \in {"account", "pass"} : ReadAccount(t) \/ StoreAccount(t)
  \/ AnswerDemand
  \/ StartFull
  \/ StartPending
  \/ Judge
  \/ Keep
  \/ FinishPass

Next == Around \/ Work \/ ReadFails

Spec == Init /\ [][Next]_vars

(* Threads go on; nobody has to ask, and time may stop anywhere. *)
FairSpec == Spec /\ WF_vars(Work)

TypeOK ==
  /\ now \in Instant
  /\ requested \in OrNone(Instant)
  /\ elsewhere \in [Provider -> OrNone(Instant)]
  /\ present \subseteq Provider
  /\ summary \in Account
  /\ known \subseteq Provider
  /\ record \in [Provider -> Record]
  /\ answered \in OrNone(Instant)
  /\ complete \in OrNone(Instant)
  /\ demand \in BOOLEAN
  /\ clock \in [Provider -> Instant]
  /\ waiting \in BOOLEAN /\ owed \subseteq Provider
  /\ owedFull \in OrNone({"startup", "manual", "change"})
  /\ pass.pc \in {"idle", "started", "asking", "kept"}
  /\ pass.collect \cup pass.absent \subseteq pass.providers /\ pass.providers \subseteq Provider
  /\ pass.record \in OrNone([Provider -> Record])
  /\ reader \in [{"account", "pass"} -> [pc : {"idle", "due", "noted"}, value : Account]]
  /\ events \in 0..MaxEvents
  /\ asked \in [Provider -> OrNone(Instant)]
  /\ unkept \subseteq Provider
  /\ held \in [Provider -> Limit]
  /\ told \in [Provider -> OrNone(Instant)]
  /\ collected \in [Provider -> OrNone(Instant)]
  /\ dropped \in BOOLEAN

(***************************************************************************)
(* "It caps every tier and every fixed interval, and a timed tick, a       *)
(* demand, a window reset catch-up, startup, and a settings or account     *)
(* change all respect it" (ADR 0063, the floor): no pass asks a provider   *)
(* inside its floor, and a manual one waits a minute.                      *)
(***************************************************************************)
Asks(p) == pass.pc = "started" /\ pass'.pc = "asking" /\ p \in pass'.collect

InTime(p) == asked[p] # None => now - asked[p] >= (IF pass.manual THEN ManualFloor ELSE Floor[p])

FloorsHold == [][\A p \in Provider : Asks(p) => InTime(p)]_vars

(***************************************************************************)
(* "A reading ends the backoff. [...] neither is cleared by a restart."    *)
(* "A 429 also holds that provider account to max(catalog floor, 300       *)
(* seconds) for 24 hours from the latest 429 [...]. A success in between   *)
(* does not lower it; only the 24 hours running out do. A manual refresh   *)
(* is not held by it." (ADR 0063)                                          *)
(***************************************************************************)
Outlasts(p) ==
  /\ held[p].backoff <= now
  /\ held[p].raised > now => now - asked[p] >= RaisedFloor

LimitsHold == [][\A p \in Provider : Asks(p) /\ ~pass.manual => Outlasts(p)]_vars

(***************************************************************************)
(* What the code keeps of the two: however passes of some providers,       *)
(* restarts and manual refreshes follow one another, both hold for a       *)
(* provider whose last ask was not cut off before it was recorded, and the *)
(* second while every result stored since the 429 names the account.       *)
(***************************************************************************)
AsksWait ==
  [][\A p \in Provider \ unkept :
       Asks(p) => InTime(p) /\ (~pass.manual /\ held[p].named => Outlasts(p))]_vars

(***************************************************************************)
(* "Before asking, a Mac skips a provider when every account it last read  *)
(* for it was observed by another device of the Account within the         *)
(* provider's floor, as the latest summary states it. Several Macs         *)
(* answering one demand therefore do not all read Claude." (ADR 0063): the *)
(* quota lane never asks a provider that an Account read it has stored, or *)
(* noted to store, showed fresh, the one whose request it answers          *)
(* included.                                                               *)
(***************************************************************************)
ShownFresh(p, elsewhereAsShown) ==
  elsewhereAsShown[p] # None /\ now - elsewhereAsShown[p] < Floor[p]

SparesFreshReadings ==
  [][\A p \in Provider :
       Asks(p) /\ ~pass.full /\ p \in known =>
         /\ ~ShownFresh(p, told)
         /\ \A t \in {"account", "pass"} :
              reader[t].pc = "noted" => ~ShownFresh(p, reader[t].value.elsewhere)]_vars

(***************************************************************************)
(* A request that was taken up is marked as answered at once.  From there  *)
(* it stays owed until every provider was judged, and what it answered     *)
(* kept, by a pass that started after the request: the posted signal, the  *)
(* pass that waits for the lane, the one that runs and the full refreshes  *)
(* hand it on without a gap ("Several can be posted before it wakes, and   *)
(* none may swallow another", SchedulerSignals).  A pass of every provider *)
(* that is cut with no refresh to follow, one whose thread cannot be       *)
(* started and a request that overtakes one in the queue are all that let  *)
(* go of it.                                                               *)
(***************************************************************************)
Collected(r) == \A p \in Provider : collected[p] # None /\ collected[p] >= r

StillOwed ==
  answered # None =>
    \/ Collected(answered)
    \/ demand \/ owedFull # None
    \/ waiting /\ owed = Provider
    \/ pass.providers = Provider /\ pass.started >= answered

RequestIsOwed == dropped \/ StillOwed

(* It is therefore answered, when the threads go on. *)
RequestIsAnswered ==
  \A r \in Instant : answered = r ~> Collected(r) \/ answered # r \/ dropped

(***************************************************************************)
(* "Answers another client's collection request, once, when the Account    *)
(* shows one this Mac has not collected since (ADR 0063)."                 *)
(* (note_collection_request)                                               *)
(***************************************************************************)
AnswersOnlyNews ==
  [][\A r \in Instant : answered # r /\ answered' = r => ~Collected(r)]_vars
===============================================================================
