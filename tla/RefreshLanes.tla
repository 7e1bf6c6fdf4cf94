----------------------------- MODULE RefreshLanes -----------------------------
(***************************************************************************)
(* The refresh lanes of the Quota service (packages/service/src/service/   *)
(* mod.rs): which refresh may run while which other one does, what a       *)
(* request that must wait leaves behind, who starts it later, and how      *)
(* shutdown, sign-out and a cache reset stop what is running.              *)
(*                                                                         *)
(* The Mutex<RefreshState> is taken and dropped many times by many         *)
(* threads, so every lock-protected block of the source is one action and  *)
(* everything a thread does between two blocks is a separate step.         *)
(*                                                                         *)
(* A thread is a caller (the IPC worker, the stdin thread, the scheduler,  *)
(* the sign-in and sign-out threads) or a slot: a lane thread the service  *)
(* spawned.  A slot stands for the thread and for the Arc<AtomicBool> it   *)
(* was spawned with, which is the one the lane's ActiveRefresh holds.      *)
(***************************************************************************)
EXTENDS Naturals, Sequences

CONSTANTS
  Callers,      \* threads that ask for refreshes and are not lane threads
  Slots,        \* bound: lane threads alive at once
  Provider,     \* ProviderId::ALL
  MaxAsks,      \* bound: how many times callers ask, cancel, reset or stop
  SpawnFails,   \* whether thread::Builder::spawn may fail
  None          \* Option::None

ASSUME ThreadsAssumption ==
  /\ Callers \cap Slots = {} /\ Slots # {}
  /\ None \notin Slots
  /\ None \notin {"scheduled", "demand", "settings", "manual"}
  /\ MaxAsks \in Nat
  /\ SpawnFails \in BOOLEAN

Thread == Callers \cup Slots

Lane == {"full", "quota", "usage", "account"}

(***************************************************************************)
(* DiagnosticAttemptTrigger up to the priority the source gives it:        *)
(* Startup stands with Scheduled, AccountChange with SettingsChange and    *)
(* Recheck with Manual.                                                    *)
(***************************************************************************)
Trigger == {"scheduled", "demand", "settings", "manual"}

Priority(t) == CASE t = "manual"   -> 2
                 [] t = "settings" -> 1
                 [] OTHER          -> 0

Request == [lane : Lane, providers : SUBSET Provider, trigger : Trigger]

Full(t)      == [lane |-> "full",    providers |-> {}, trigger |-> t]
Quota(ps, t) == [lane |-> "quota",   providers |-> ps, trigger |-> t]
Usage        == [lane |-> "usage",   providers |-> {}, trigger |-> "scheduled"]
Account      == [lane |-> "account", providers |-> {}, trigger |-> "scheduled"]

(***************************************************************************)
(* The components whose `refreshing` flag the lanes move.  Pricing follows *)
(* Usage in every one of them and is left out.                             *)
(***************************************************************************)
Component == {"quota", "usage", "account"}

ComponentsOf(lane) == IF lane = "full" THEN Component ELSE {lane}

VARIABLES
  held,             \* RefreshState.{active, quota, usage, account}
  pending,          \* RefreshState.{pending, pending_quota, pending_usage, pending_account}
  pendingTrigger,   \* RefreshState.pending_trigger
  owedProviders,    \* RefreshState.pending_quota_providers
  owedTrigger,      \* RefreshState.pending_quota_trigger
  cancel,           \* the cancel flag a lane thread was spawned with
  shutdown,         \* ServiceInner.shutdown
  refreshing,       \* the refreshing flag of each component record
  pc,               \* where each thread is
  job,              \* what a lane thread was spawned to do
  todo,             \* the requests a thread has still to make, in order
  child,            \* the lane thread a thread has registered and not yet spawned
  asks,             \* how many times callers have asked (bounded by MaxAsks)
  swept,            \* history: shutdown has cancelled what it found running
  owedManual,       \* history: a manual refresh was made to wait and has not started
  spawnFailed       \* history: a lane thread could not be spawned

refreshVars == <<held, pending, pendingTrigger, owedProviders, owedTrigger>>
threadVars  == <<pc, job, todo, child>>
historyVars == <<swept, owedManual, spawnFailed>>
vars == <<refreshVars, threadVars, cancel, shutdown, refreshing, asks, historyVars>>

(***************************************************************************)
(* A lane thread between its registration and the moment it lets go of its *)
(* lane, and the part of that in which it may collect or apply.            *)
(***************************************************************************)
Registered == {"created", "begin", "run", "shown", "clear"}
Working    == {"run", "shown"}

CallerPC == {"idle", "request", "launch", "unmark", "sweep", "await", "reset"}
SlotPC   == {"free", "failed", "unset", "wake", "take", "request", "launch", "unmark"}
              \cup Registered

Idle(t) == IF t \in Callers THEN "idle" ELSE "free"

(* start_scheduler asks for the startup refresh before the IPC worker and the scheduler are there. *)
Startup == CHOOSE s \in Slots : TRUE

Init ==
  /\ held = [l \in Lane |-> IF l = "full" THEN Startup ELSE None]
  /\ pending = [l \in Lane |-> FALSE]
  /\ pendingTrigger = None
  /\ owedProviders = {}
  /\ owedTrigger = None
  /\ cancel = [s \in Slots |-> FALSE]
  /\ shutdown = FALSE
  /\ refreshing = [c \in Component |-> TRUE]
  /\ pc = [t \in Thread |-> IF t = Startup THEN "begin" ELSE Idle(t)]
  /\ job = [s \in Slots |-> IF s = Startup THEN Full("scheduled") ELSE Account]
  /\ todo = [t \in Thread |-> <<>>]
  /\ child = [t \in Thread |-> None]
  /\ asks = 0
  /\ swept = FALSE
  /\ owedManual = FALSE
  /\ spawnFailed = FALSE

-------------------------------------------------------------------------------
(***************************************************************************)
(* Asking.  The IPC worker and the scheduler look at `shutdown` before     *)
(* they ask; the sign-in and sign-out threads end with an AccountChange    *)
(* refresh whatever `shutdown` says.                                       *)
(***************************************************************************)
Scripts ==
  {<<Full("manual")>>, <<Full("settings")>>, <<Account>>, <<Usage>>}
    \cup {<<Quota(ps, "scheduled")>> : ps \in (SUBSET Provider) \ {{}}}
    \cup {<<Quota(ps, "scheduled"), Usage>> : ps \in (SUBSET Provider) \ {{}}}
    \cup {<<Quota(Provider, "demand")>>}

Ask(c) ==
  /\ pc[c] = "idle"
  /\ asks < MaxAsks
  /\ \E script \in Scripts :
       /\ shutdown => script = <<Full("settings")>>
       /\ todo' = [todo EXCEPT ![c] = script]
  /\ pc' = [pc EXCEPT ![c] = "request"]
  /\ asks' = asks + 1
  /\ UNCHANGED <<refreshVars, cancel, shutdown, refreshing, job, child, historyVars>>

(***************************************************************************)
(* RefreshLane::blocked, and the same test of request_full.                *)
(***************************************************************************)
QuotaForgetsFull(lane) ==
  CASE lane = "full"    -> {"full", "quota", "usage"}
    [] lane = "quota"   -> {"quota"}
    [] lane = "usage"   -> {"full", "usage"}
    [] lane = "account" -> {"full", "quota", "account"}

BlockedBy(lane) ==
  CASE lane = "full"    -> {"full", "quota", "usage"}
    [] lane = "quota"   -> {"full", "quota"}
    [] lane = "usage"   -> {"full", "usage"}
    [] lane = "account" -> {"full", "quota", "account"}

Blocked(lane) == \E l \in BlockedBy(lane) : held[l] # None

LastTriggerWins(current, incoming) == incoming

Coalesce(current, incoming) ==
  IF current # None /\ Priority(current) >= Priority(incoming) THEN current ELSE incoming

FoldQuotaTrigger(current, incoming) == IF current = "demand" THEN current ELSE incoming

(***************************************************************************)
(* What a thread does after the request it has just dealt with.            *)
(***************************************************************************)
Rest(t) == IF Tail(todo[t]) = <<>> THEN Idle(t) ELSE "request"

(* The request has to wait: the lock-protected block folds it into what is pending. *)
Fold(t) ==
  LET r == Head(todo[t]) IN
  /\ pc[t] = "request"
  /\ Blocked(r.lane)
  /\ pending' = [pending EXCEPT ![r.lane] = TRUE]
  /\ pendingTrigger' =
       IF r.lane = "full" THEN Coalesce(pendingTrigger, r.trigger) ELSE pendingTrigger
  /\ owedProviders' = IF r.lane = "quota" THEN owedProviders \cup r.providers ELSE owedProviders
  /\ owedTrigger' =
       IF r.lane = "quota" THEN FoldQuotaTrigger(owedTrigger, r.trigger) ELSE owedTrigger
  /\ owedManual' = (owedManual \/ (r.lane = "full" /\ r.trigger = "manual"))
  /\ todo' = [todo EXCEPT ![t] = Tail(@)]
  /\ pc' = [pc EXCEPT ![t] = Rest(t)]
  /\ UNCHANGED <<held, cancel, shutdown, refreshing, job, child, asks, swept, spawnFailed>>

(* The lane is free: it is taken, with a fresh cancel flag, before any thread exists for it. *)
(* Lane threads are interchangeable, so which free slot stands for the new one is no choice. *)
FreeSlot == CHOOSE s \in Slots : pc[s] = "free"

Register(t) ==
  LET r == Head(todo[t])
      s == FreeSlot
  IN
  /\ pc[t] = "request"
  /\ ~Blocked(r.lane)
  /\ \E slot \in Slots : pc[slot] = "free"
  /\ held' = [held EXCEPT ![r.lane] = s]
  /\ cancel' = [cancel EXCEPT ![s] = FALSE]
  /\ job' = [job EXCEPT ![s] = r]
  /\ child' = [child EXCEPT ![t] = s]
  /\ pc' = [pc EXCEPT ![t] = "launch", ![s] = "created"]
  /\ pending' = IF r.lane = "full" THEN pending ELSE [pending EXCEPT ![r.lane] = FALSE]
  /\ todo' = [todo EXCEPT ![t] = Tail(@)]
  /\ owedManual' = (owedManual /\ ~(r.lane = "full" /\ r.trigger = "manual"))
  /\ UNCHANGED <<pendingTrigger, owedProviders, owedTrigger, shutdown, refreshing, asks, swept,
                 spawnFailed>>

Mark(lane, value) ==
  refreshing' = [c \in Component |-> IF c \in ComponentsOf(lane) THEN value ELSE refreshing[c]]

Continue(t) == IF todo[t] = <<>> THEN Idle(t) ELSE "request"

(* Outside the lock: the components are marked and the lane thread is spawned. *)
Launch(t) ==
  /\ pc[t] = "launch"
  /\ Mark(job[child[t]].lane, TRUE)
  /\ pc' = [pc EXCEPT ![child[t]] = "begin", ![t] = Continue(t)]
  /\ child' = [child EXCEPT ![t] = None]
  /\ UNCHANGED <<refreshVars, cancel, shutdown, job, todo, asks, historyVars>>

(* The spawn fails: the lane is given back ... *)
LaunchFails(t) ==
  /\ SpawnFails
  /\ pc[t] = "launch"
  /\ Mark(job[child[t]].lane, TRUE)
  /\ held' = [held EXCEPT ![job[child[t]].lane] = None]
  /\ pc' = [pc EXCEPT ![child[t]] = "failed", ![t] = "unmark"]
  /\ spawnFailed' = TRUE
  /\ UNCHANGED <<pending, pendingTrigger, owedProviders, owedTrigger, cancel, shutdown, job,
                 todo, child, asks, swept, owedManual>>

(* ... and then the components are unmarked, with nothing pending started. *)
UnmarkNothing(t) ==
  /\ pc[t] = "unmark"
  /\ pc' = [pc EXCEPT ![child[t]] = "free", ![t] = Continue(t)]
  /\ child' = [child EXCEPT ![t] = None]
  /\ job' = [job EXCEPT ![child[t]] = Account]
  /\ cancel' = [cancel EXCEPT ![child[t]] = FALSE]
  /\ UNCHANGED <<refreshVars, shutdown, refreshing, todo, asks, historyVars>>

Unmark(t) ==
  /\ pc[t] = "unmark"
  /\ Mark(job[child[t]].lane, FALSE)
  /\ pc' = [pc EXCEPT ![child[t]] = "free", ![t] = Continue(t)]
  /\ child' = [child EXCEPT ![t] = None]
  /\ job' = [job EXCEPT ![child[t]] = Account]
  /\ cancel' = [cancel EXCEPT ![child[t]] = FALSE]
  /\ UNCHANGED <<refreshVars, shutdown, todo, asks, historyVars>>

-------------------------------------------------------------------------------
(***************************************************************************)
(* A lane thread.                                                          *)
(***************************************************************************)

(* run_refresh and run_*_lane look at both stop flags before they call the backend.  A full   *)
(* refresh that is stopped still applies a cancelled result to every component; a lane returns. *)
BeginAsksOnlyCancel(s) ==
  /\ pc[s] = "begin"
  /\ pc' = [pc EXCEPT ![s] = IF cancel[s] THEN "clear" ELSE "run"]
  /\ refreshing' = [c \in Component |->
       refreshing[c] /\ ~(cancel[s] /\ job[s].lane = "full")]
  /\ UNCHANGED <<refreshVars, cancel, shutdown, job, todo, child, asks, historyVars>>

Begin(s) ==
  LET stopped == cancel[s] \/ shutdown
  IN
  /\ pc[s] = "begin"
  /\ pc' = [pc EXCEPT ![s] = IF stopped THEN "clear" ELSE "run"]
  /\ refreshing' = [c \in Component |->
       refreshing[c] /\ ~(stopped /\ job[s].lane = "full")]
  /\ UNCHANGED <<refreshVars, cancel, shutdown, job, todo, child, asks, historyVars>>

(* RefreshUpdates: a running refresh applies a component as soon as it has one. *)
Publishes(lane) == IF lane \in {"full", "quota"} THEN {"quota", "account"} ELSE {"account"}

Publish(s) ==
  /\ pc[s] = "run"
  /\ refreshing' = [c \in Component |-> refreshing[c] /\ c \notin Publishes(job[s].lane)]
  /\ pc' = [pc EXCEPT ![s] = "shown"]
  /\ UNCHANGED <<refreshVars, cancel, shutdown, job, todo, child, asks, historyVars>>

(***************************************************************************)
(* The backend returns and the results are applied.  A result the sink     *)
(* showed is applied again only when it changed since, and a Usage lane    *)
(* applies an Account result only when it is news.                         *)
(***************************************************************************)
Applies(lane) == CASE lane = "full"    -> Component
                   [] lane = "quota"   -> {"quota", "account"}
                   [] lane = "usage"   -> {"usage", "account"}
                   [] lane = "account" -> {}

MaySkip(s) == (IF pc[s] = "shown" THEN Publishes(job[s].lane) ELSE {})
                \cup (IF job[s].lane = "usage" THEN {"account"} ELSE {})

Return(s) ==
  /\ pc[s] \in Working
  /\ \E skipped \in SUBSET MaySkip(s) :
       refreshing' = [c \in Component |->
         refreshing[c] /\ c \notin Applies(job[s].lane) \ skipped]
  /\ pc' = [pc EXCEPT ![s] = "clear"]
  /\ UNCHANGED <<refreshVars, cancel, shutdown, job, todo, child, asks, historyVars>>

(* clear_lane, or the end of the full refresh: the lane is free from here on, and nobody *)
(* holds the cancel flag of its thread any more.                                          *)
Clear(s) ==
  /\ pc[s] = "clear"
  /\ held' = [held EXCEPT ![job[s].lane] = None]
  /\ cancel' = [cancel EXCEPT ![s] = FALSE]
  /\ pc' = [pc EXCEPT ![s] = "unset"]
  /\ UNCHANGED <<pending, pendingTrigger, owedProviders, owedTrigger, shutdown, refreshing, job,
                 todo, child, asks, historyVars>>

(* A lane unmarks its component after it let go of the lane; a full refresh has applied its own. *)
UnsetAndForgetPending(s) ==
  /\ pc[s] = "unset"
  /\ refreshing' = [c \in Component |->
       refreshing[c] /\ (job[s].lane = "full" \/ c # job[s].lane)]
  /\ job' = [job EXCEPT ![s] = Account]
  /\ pc' = [pc EXCEPT ![s] = "free"]
  /\ UNCHANGED <<refreshVars, cancel, shutdown, todo, child, asks, historyVars>>

Unset(s) ==
  /\ pc[s] = "unset"
  /\ refreshing' = [c \in Component |->
       refreshing[c] /\ (job[s].lane = "full" \/ c # job[s].lane)]
  /\ job' = [job EXCEPT ![s] = Account]
  /\ pc' = [pc EXCEPT ![s] = "wake"]
  /\ UNCHANGED <<refreshVars, cancel, shutdown, todo, child, asks, historyVars>>

(* maybe_start_pending up to the lock ... *)
Wake(s) ==
  /\ pc[s] = "wake"
  /\ pc' = [pc EXCEPT ![s] = IF shutdown THEN "free" ELSE "take"]
  /\ UNCHANGED <<refreshVars, cancel, shutdown, refreshing, job, todo, child, asks,
                 historyVars>>

(* ... and the block it protects: a pending full refresh first, else what the lanes may start. *)
LanesIdle == held["quota"] = None /\ held["usage"] = None

NoDefault(trigger) == trigger

OrScheduled(trigger) == IF trigger = None THEN "scheduled" ELSE trigger

TakeFull(s) ==
  /\ pc[s] = "take"
  /\ held["full"] = None
  /\ pending["full"]
  /\ pending' = [pending EXCEPT !["full"] = FALSE]
  /\ pendingTrigger' = None
  /\ todo' = [todo EXCEPT ![s] = <<Full(OrScheduled(pendingTrigger))>>]
  /\ pc' = [pc EXCEPT ![s] = "request"]
  /\ UNCHANGED <<held, owedProviders, owedTrigger, cancel, shutdown, refreshing, job, child,
                 asks, historyVars>>

TakeLanes(s) ==
  LET quota   == LanesIdle /\ pending["quota"]
      usage   == LanesIdle /\ pending["usage"]
      account == pending["account"] /\ ~Blocked("account")
      taken   == (IF quota THEN <<Quota(owedProviders, OrScheduled(owedTrigger))>> ELSE <<>>)
                   \o (IF usage THEN <<Usage>> ELSE <<>>)
                   \o (IF account THEN <<Account>> ELSE <<>>)
  IN
  /\ pc[s] = "take"
  /\ held["full"] = None
  /\ ~pending["full"]
  /\ owedProviders' = IF quota THEN {} ELSE owedProviders
  /\ owedTrigger' = IF quota THEN None ELSE owedTrigger
  /\ todo' = [todo EXCEPT ![s] = taken]
  /\ pc' = [pc EXCEPT ![s] = IF taken = <<>> THEN "free" ELSE "request"]
  /\ UNCHANGED <<held, pending, pendingTrigger, cancel, shutdown, refreshing, job, child,
                 asks, historyVars>>

TakeNothing(s) ==
  /\ pc[s] = "take"
  /\ held["full"] # None
  /\ pc' = [pc EXCEPT ![s] = "free"]
  /\ UNCHANGED <<refreshVars, cancel, shutdown, refreshing, job, todo, child, asks,
                 historyVars>>

-------------------------------------------------------------------------------
(***************************************************************************)
(* Stopping what runs.                                                     *)
(***************************************************************************)
CancelHeld == cancel' = [s \in Slots |-> cancel[s] \/ \E l \in Lane : held[l] = s]

AllLanesFree == \A l \in Lane : held[l] = None

(* logout cancels what runs before it changes the durable session. *)
LogoutCancels(c) ==
  /\ pc[c] = "idle"
  /\ asks < MaxAsks
  /\ ~shutdown
  /\ CancelHeld
  /\ asks' = asks + 1
  /\ UNCHANGED <<refreshVars, threadVars, shutdown, refreshing, historyVars>>

(* shutdown: the flag first ... *)
Shutdown(c) ==
  /\ pc[c] = "idle"
  /\ ~shutdown
  /\ shutdown' = TRUE
  /\ pc' = [pc EXCEPT ![c] = "sweep"]
  /\ UNCHANGED <<refreshVars, cancel, refreshing, job, todo, child, asks, historyVars>>

(* ... then every lane found running is cancelled. *)
Sweep(c) ==
  /\ pc[c] = "sweep"
  /\ CancelHeld
  /\ swept' = TRUE
  /\ pc' = [pc EXCEPT ![c] = "idle"]
  /\ UNCHANGED <<refreshVars, shutdown, refreshing, job, todo, child, asks,
                 owedManual, spawnFailed>>

(* cancel_refresh_and_wait: free already, or cancel and poll. *)
ResetBegins(c) ==
  /\ pc[c] = "idle"
  /\ asks < MaxAsks
  /\ ~shutdown
  /\ pc' = [pc EXCEPT ![c] = IF AllLanesFree THEN "reset" ELSE "await"]
  /\ CancelHeld
  /\ asks' = asks + 1
  /\ UNCHANGED <<refreshVars, shutdown, refreshing, job, todo, child, historyVars>>

ResetPolls(c) ==
  /\ pc[c] = "await"
  /\ AllLanesFree
  /\ pc' = [pc EXCEPT ![c] = "reset"]
  /\ UNCHANGED <<refreshVars, cancel, shutdown, refreshing, job, todo, child, asks,
                 historyVars>>

(* The deadline passes with a lane still held: the caller is answered Busy. *)
ResetIsBusy(c) ==
  /\ pc[c] = "await"
  /\ ~AllLanesFree
  /\ pc' = [pc EXCEPT ![c] = "idle"]
  /\ UNCHANGED <<refreshVars, cancel, shutdown, refreshing, job, todo, child, asks,
                 historyVars>>

(* rebuild_cache ran; the manual refresh that fills the cache in again is asked for. *)
Reset(c) ==
  /\ pc[c] = "reset"
  /\ todo' = [todo EXCEPT ![c] = <<Full("manual")>>]
  /\ pc' = [pc EXCEPT ![c] = "request"]
  /\ UNCHANGED <<refreshVars, cancel, shutdown, refreshing, job, child, asks, historyVars>>

-------------------------------------------------------------------------------
RequestStep(t) == Fold(t) \/ Register(t) \/ Launch(t) \/ LaunchFails(t) \/ Unmark(t)

LaneStep(s) ==
  \/ Begin(s) \/ Publish(s) \/ Return(s) \/ Clear(s) \/ Unset(s)
  \/ Wake(s) \/ TakeFull(s) \/ TakeLanes(s) \/ TakeNothing(s)

CallerStep(c) ==
  \/ Ask(c) \/ LogoutCancels(c) \/ Shutdown(c) \/ Sweep(c)
  \/ ResetBegins(c) \/ ResetPolls(c) \/ ResetIsBusy(c) \/ Reset(c)

Next ==
  \/ \E t \in Thread : RequestStep(t)
  \/ \E s \in Slots : LaneStep(s)
  \/ \E c \in Callers : CallerStep(c)

(***************************************************************************)
(* A thread that has something to do goes on doing it.  Nobody has to ask, *)
(* sign out, reset or stop.  A backend call returns: every request in it   *)
(* has a deadline and it watches its cancel flag.                          *)
(***************************************************************************)
Fairness ==
  /\ \A t \in Thread : WF_vars(RequestStep(t))
  /\ \A s \in Slots : WF_vars(LaneStep(s))
  /\ \A c \in Callers : WF_vars(Sweep(c) \/ ResetPolls(c) \/ ResetIsBusy(c) \/ Reset(c))

SafetySpec == Init /\ [][Next]_vars
Spec == SafetySpec /\ Fairness

-------------------------------------------------------------------------------
(***************************************************************************)
(* Properties.                                                             *)
(***************************************************************************)

(* Every variable keeps its type: the RefreshState fields, the cancel flags and the threads. *)
TypeOK ==
  /\ held \in [Lane -> Slots \cup {None}]
  /\ pending \in [Lane -> BOOLEAN]
  /\ pendingTrigger \in Trigger \cup {None}
  /\ owedProviders \subseteq Provider
  /\ owedTrigger \in Trigger \cup {None}
  /\ cancel \in [Slots -> BOOLEAN]
  /\ shutdown \in BOOLEAN
  /\ refreshing \in [Component -> BOOLEAN]
  /\ pc \in [Thread -> CallerPC \cup SlotPC]
  /\ job \in [Slots -> Request]
  /\ todo \in [Thread -> Seq(Request)]
  /\ child \in [Thread -> Slots \cup {None}]
  /\ asks \in Nat
  /\ swept \in BOOLEAN
  /\ owedManual \in BOOLEAN
  /\ spawnFailed \in BOOLEAN

Collecting(lanes) == {s \in Slots : pc[s] \in Working /\ job[s].lane \in lanes}

AtMostOne(S) == \A x, y \in S : x = y

(***************************************************************************)
(* Two threads never collect quota at once, never index Usage at once and  *)
(* never poll the Account on two account lanes at once.  A quota pass      *)
(* reads the cadence records and writes them back whole, and a Usage pass  *)
(* stages and drains one outbox: neither has a lock of its own, so both    *)
(* rest on RefreshLane::blocked and request_full.                          *)
(***************************************************************************)
OneCollector ==
  /\ AtMostOne(Collecting({"full", "quota"}))
  /\ AtMostOne(Collecting({"full", "usage"}))
  /\ AtMostOne(Collecting({"account"}))

(***************************************************************************)
(* Once shutdown has swept the lanes, no backend call goes on that was not *)
(* told to stop, also not one whose lane was being taken or spawned while  *)
(* the sweep ran.                                                          *)
(***************************************************************************)
ShutdownReachesEveryRefresh ==
  swept => \A s \in Slots : pc[s] \in Working => cancel[s]

(***************************************************************************)
(* A request that had to wait is never stranded: while one is pending some *)
(* lane thread has still to pass through maybe_start_pending, or has been  *)
(* through it and holds requests whose lanes will.  A spawn that failed    *)
(* gives its lane back without looking at what is pending.                 *)
(***************************************************************************)
WillWake(s) == pc[s] \in Registered \cup {"unset", "wake", "take"} \/ todo[s] # <<>>

PendingHasAStarter ==
  ~shutdown /\ ~spawnFailed /\ (\E l \in Lane : pending[l]) => \E s \in Slots : WillWake(s)

(***************************************************************************)
(* A manual refresh that had to wait is still a manual one when it runs:   *)
(* later, weaker requests folded into the same pending refresh do not take *)
(* its trigger away, nor does handing it to the thread that starts it.     *)
(***************************************************************************)
ManualIsKept ==
  owedManual /\ ~shutdown /\ ~spawnFailed =>
    \/ pending["full"] /\ pendingTrigger = "manual"
    \/ \E s \in Slots : \E i \in DOMAIN todo[s] : todo[s][i] = Full("manual")

(***************************************************************************)
(* When no thread works on a refresh, no component is left showing as      *)
(* refreshing, however the lanes overlapped and whichever spawns failed.   *)
(***************************************************************************)
Resting == \A t \in Thread : pc[t] \in {"idle", "free", "sweep", "await", "reset"}

RestingShowsNoRefresh ==
  Resting => \A c \in Component : ~refreshing[c]

(***************************************************************************)
(* "a refresh still holding on when the wait runs out is answered `Busy`   *)
(* rather than raced" (reset_cache_within): while the cache is deleted no  *)
(* refresh reads or fills it.                                              *)
(***************************************************************************)
ResetExcludesRefresh ==
  \A c \in Callers : pc[c] = "reset" => \A s \in Slots : pc[s] \notin Working

(***************************************************************************)
(* Once callers stop asking, whatever is pending is started, unless the    *)
(* service shuts down or a thread could not be spawned, which leaves its   *)
(* lane without looking at what is pending.  Slots bounds the lane threads *)
(* of an instance, so a state in which each of them waits for a slot is    *)
(* not one of the service.                                                 *)
(***************************************************************************)
SlotsExhausted == \A s \in Slots : pc[s] = "request"

BacklogDrains ==
  \A l \in Lane : pending[l] ~> (~pending[l] \/ shutdown \/ spawnFailed \/ SlotsExhausted)

(***************************************************************************)
(* "The providers and trigger a blocked quota pass still owes. Folded,     *)
(* never dropped." (RefreshState.pending_quota_providers): what a blocked  *)
(* quota pass owes is taken up by a later pass, unless the service shuts   *)
(* down.                                                                   *)
(***************************************************************************)
OwedQuotaIsTakenUp ==
  owedProviders # {} ~> (owedProviders = {} \/ shutdown \/ SlotsExhausted)

===============================================================================
