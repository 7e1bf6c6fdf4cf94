------------------------------ MODULE UsageSync ------------------------------
(***************************************************************************)
(* The device's side of the Usage upload (packages/service/src/service/    *)
(* backend.rs and state/mod.rs) together with the Relay of UsageRelay: the *)
(* hours a scan found changed, the queue they are copied into, the context *)
(* that says which identity and revision that queue is owed to, and the    *)
(* drain that sends it, while the user signs in and out, deletes the       *)
(* device or switches uploading off, the cache is lost and refreshes are   *)
(* cut short.                                                              *)
(*                                                                         *)
(* cache.sqlite (facts, dirty) and identity.sqlite (everything else) are   *)
(* two databases: a step of the lane touches one transaction of one of     *)
(* them.  Only one refresh scans Usage at a time (OneCollector of          *)
(* RefreshLanes), so the lane is one process.  One agent is modelled; what *)
(* the scan makes of the logs is in UsageScan.                             *)
(***************************************************************************)
EXTENDS UsageRelay, FiniteSets

CONSTANTS
  None,        \* Option::None, and an absent row
  MaxStaged,   \* MAX_STAGED_HOURS_PER_REFRESH
  BatchHours,  \* MAX_USAGE_HOURS_PER_UPLOAD
  Unsendable,  \* rows of an hour that does not fit a request by itself
  Mishaps,     \* which of the events below may happen
  MaxEvents    \* bound: how many events there are

ASSUME SyncAssumption ==
  /\ MaxStaged \in Nat \ {0} /\ BatchHours \in Nat \ {0} /\ MaxEvents \in Nat
  /\ Unsendable \subseteq Rows /\ Empty \notin Unsendable
  /\ Mishaps \subseteq {"unreadable", "cache", "cut", "logout", "delete", "toggle"}

VARIABLES
  logs,         \* hour -> what the agents' log files hold of it
  facts,        \* usage_hourly_facts: hour -> [version, rows]
  dirty,        \* usage_dirty_hours: hour -> scan version, 0 for no row
  scanVersion,  \* USAGE_SCAN_VERSION_KEY
  outbox,       \* usage_outbox: hour -> [version, rows, device, generation]
  context,      \* usage_upload_context
  session,      \* the session row
  leaving,      \* its status is logout_pending
  enabled,      \* usage_upload_enabled
  pc,           \* where the refresh is
  kind,         \* run by the full lane or by the usage lane
  snap,         \* the session as the refresh last read it
  staged,       \* the hours stage_outbox read out of the cache
  todo,         \* the entries drain_outbox has still to send
  awaiting,     \* the request it waits for
  events        \* how many events there have been

cacheVars   == <<facts, dirty>>
queueVars   == <<outbox, context>>
sessionVars == <<session, leaving>>
laneVars    == <<pc, kind, snap, staged, todo, awaiting>>
worldVars   == <<logs, enabled, events>>
vars == <<relayVars, cacheVars, scanVersion, queueVars, sessionVars, laneVars, worldVars>>

NoHours == [h \in {} |-> Nothing]

IdentityOfTheSession(s) == s

Identity(s) == [device |-> s.device, generation |-> s.generation,
                revision |-> s.revision, deletedBefore |-> s.deletedBefore]

Contexts == [device : Device, generation : 1..LastGeneration,
             revision : Nat, deletedBefore : 0..LastInstant]

Sessions == [device : Device, generation : 1..LastGeneration, revision : Nat,
             deletedBefore : 0..LastInstant, serial : 1..LastSerial]

Entry == [version : 1..LastVersion, rows : Rows, device : Device, generation : 1..LastGeneration]

ASSUME NoneIsNoRow == None \notin Sessions /\ None \notin Contexts /\ None \notin Entry

Steps == {"idle", "control", "context", "install", "stage", "write", "clear", "drain", "send",
          "await"}

TypeOK ==
  /\ RelayTypeOK
  /\ logs \in [Hour -> Rows]
  /\ facts \in [Hour -> Reading \cup {Nothing}]
  /\ dirty \in [Hour -> 0..LastVersion]
  /\ scanVersion \in 0..LastVersion
  /\ outbox \in [Hour -> Entry \cup {None}]
  /\ context \in Contexts \cup {None}
  /\ session \in Sessions \cup {None}
  /\ leaving \in BOOLEAN /\ enabled \in BOOLEAN
  /\ pc \in Steps
  /\ kind \in {"full", "usage"}
  /\ snap \in Sessions \cup {None}
  /\ staged \in Parcel /\ todo \in Parcel
  /\ awaiting \in Flight \cup {None}
  /\ events \in 0..MaxEvents

Init ==
  /\ RelayInit
  /\ logs = [h \in Hour |-> Empty]
  /\ facts = [h \in Hour |-> Nothing]
  /\ dirty = [h \in Hour |-> 0]
  /\ scanVersion = 0
  /\ outbox = [h \in Hour |-> None]
  /\ context = None
  /\ session = None /\ leaving = FALSE
  /\ enabled = TRUE
  /\ pc = "idle" /\ kind = "usage"
  /\ snap = None /\ staged = NoHours /\ todo = NoHours /\ awaiting = None
  /\ events = 0

Active == session # None /\ ~leaving

(* The hour in progress is still being written to. *)
CompleteUntil == FloorHour(now)

-------------------------------------------------------------------------------
(***************************************************************************)
(* How a refresh ends: what it read and holds goes with it.  A request it  *)
(* still waits for goes on without it.                                     *)
(***************************************************************************)
Finish ==
  /\ pc' = "idle" /\ kind' = "usage" /\ awaiting' = None
  /\ snap' = None /\ staged' = NoHours /\ todo' = NoHours

Goto(step) == pc' = step /\ UNCHANGED <<kind, awaiting>>

(* A full refresh syncs with the Relay first, a Usage refresh does not. *)
AfterScan(k) ==
  IF k = "full" THEN Active ELSE Active /\ enabled

(***************************************************************************)
(* Bound: a refresh with nothing to do is left out.                        *)
(***************************************************************************)
Owned(e, s) == e # None /\ e.device = s.device /\ e.generation = s.generation

UploadWork ==
  /\ Active /\ enabled
  /\ \/ context # Identity(session)
     \/ \E h \in Hour : dirty[h] # 0 /\ h < CompleteUntil
     \/ \E h \in Hour : outbox[h] # None

ControlWork ==
  Active /\ LET d == devices[session.device]
            IN  \/ d.session # session.serial
                \/ d.revision # session.revision
                \/ d.deletedBefore # session.deletedBefore

ScanWork == \E h \in Hour : logs[h] # facts[h].rows

HasWork(k) == ScanWork \/ UploadWork \/ (k = "full" /\ ControlWork)

(***************************************************************************)
(* collect_usage and apply_usage_scan: one version for the whole pass.  An *)
(* hour whose rows moved is replaced and marked; an hour left without      *)
(* records leaves no fact row, only the mark.  The last good rows of a log *)
(* that cannot be read stay.                                               *)
(***************************************************************************)
Scan(k) ==
  /\ pc = "idle"
  /\ HasWork(k)
  /\ scanVersion < LastVersion
  /\ scanVersion' = scanVersion + 1
  /\ \E unread \in SUBSET Hour :
       /\ unread # {} => "unreadable" \in Mishaps /\ events < MaxEvents
       /\ events' = IF unread # {} THEN events + 1 ELSE events
       /\ LET moved == {h \in Hour \ unread : logs[h] # facts[h].rows}
          IN  /\ facts' = [h \in Hour |->
                   IF h \notin moved THEN facts[h]
                   ELSE IF logs[h] = Empty THEN Nothing
                   ELSE [version |-> scanVersion', rows |-> logs[h]]]
              /\ dirty' = [h \in Hour |-> IF h \in moved THEN scanVersion' ELSE dirty[h]]
  /\ IF AfterScan(k)
     THEN /\ pc' = (IF k = "full" THEN "control" ELSE "context")
          /\ kind' = k
          /\ snap' = session
          /\ UNCHANGED <<staged, todo, awaiting>>
     ELSE Finish
  /\ UNCHANGED <<relayVars, queueVars, sessionVars, logs, enabled>>

(***************************************************************************)
(* sync_control_and_update: what the Relay says of the device is written   *)
(* into the session, and a session it no longer knows is cleared.          *)
(***************************************************************************)
Control ==
  /\ pc = "control"
  /\ IF ~Active
     THEN Finish /\ UNCHANGED sessionVars
     ELSE LET d == devices[session.device]
          IN  IF d.session # session.serial
              THEN /\ session' = None /\ UNCHANGED leaving
                   /\ Finish
              ELSE /\ session' = [session EXCEPT !.generation = d.generation,
                                                 !.revision = d.revision,
                                                 !.deletedBefore = d.deletedBefore]
                   /\ UNCHANGED leaving
                   /\ Goto("context")
                   /\ UNCHANGED <<snap, staged, todo>>
  /\ UNCHANGED <<relayVars, cacheVars, scanVersion, queueVars, worldVars>>

-------------------------------------------------------------------------------
(***************************************************************************)
(* ensure_usage_context.  A change of identity re-seeds the marks from the *)
(* facts kept since the hour of the watermark (cache.sqlite), and then     *)
(* drops the queue and takes the new identity (identity.sqlite).  A full   *)
(* refresh asks with the session as it finds it, which may be gone by then *)
(* or signing out: the record of a sign-out names no watermark.            *)
(***************************************************************************)
KeepMarks(s) == dirty

Reseed(s) == [h \in Hour |->
  IF h >= FloorHour(s.deletedBefore) THEN facts[h].version ELSE 0]

Unwilling == kind = "full" /\ (~enabled \/ leaving)

Context ==
  LET source == IF kind = "full" /\ session # None THEN session ELSE snap
  IN  /\ pc = "context"
      /\ \/ /\ Unwilling
            /\ Finish
            /\ UNCHANGED <<dirty, outbox>>
         \/ /\ ~Unwilling
            /\ context = Identity(source)
            /\ outbox' = [h \in Hour |-> IF Owned(outbox[h], source) THEN outbox[h] ELSE None]
            /\ Goto("stage")
            /\ UNCHANGED <<dirty, snap, staged, todo>>
         \/ /\ ~Unwilling
            /\ context # Identity(source)
            /\ dirty' = Reseed(source)
            /\ snap' = source
            /\ Goto("install")
            /\ UNCHANGED <<outbox, staged, todo>>
      /\ UNCHANGED <<relayVars, facts, scanVersion, context, sessionVars, worldVars>>

InstallContext ==
  /\ pc = "install"
  /\ outbox' = [h \in Hour |-> None]
  /\ context' = Identity(snap)
  /\ Goto("stage")
  /\ UNCHANGED <<relayVars, cacheVars, scanVersion, sessionVars, snap, staged, todo, worldVars>>

(***************************************************************************)
(* stage_outbox: marks before the watermark are retired, and the oldest    *)
(* marked hours that are over are copied into the queue, first the rows    *)
(* (identity.sqlite) and then the marks (cache.sqlite).                    *)
(***************************************************************************)
FirstHourTouched(s) == FloorHour(s.deletedBefore)

FirstHour(s) == CeilHour(s.deletedBefore)

Oldest(n, hs) == {h \in hs : Cardinality({g \in hs : g < h}) < n}

Stage ==
  LET first == FirstHour(session)
      batch == Oldest(MaxStaged, {h \in Hour : dirty[h] # 0 /\ h >= first /\ h < CompleteUntil})
  IN  /\ pc = "stage"
      /\ \/ /\ ~(enabled /\ Active)
            /\ Goto("drain")
            /\ UNCHANGED <<dirty, snap, staged>>
         \/ /\ enabled /\ Active
            /\ dirty' = [h \in Hour |-> IF h < first THEN 0 ELSE dirty[h]]
            /\ staged' = [h \in batch |-> [version |-> dirty[h], rows |-> facts[h].rows]]
            /\ snap' = session
            /\ Goto(IF batch = {} THEN "drain" ELSE "write")
      /\ UNCHANGED <<relayVars, facts, scanVersion, queueVars, sessionVars, todo, worldVars>>

WriteOutbox ==
  /\ pc = "write"
  /\ IF ~Active \/ session.serial # snap.serial
     THEN Finish /\ UNCHANGED outbox
     ELSE /\ outbox' = (IF ~enabled THEN outbox
                       ELSE [h \in Hour |->
                              IF h \notin DOMAIN staged THEN outbox[h]
                              ELSE [version |-> staged[h].version, rows |-> staged[h].rows,
                                    device |-> snap.device, generation |-> snap.generation]])
          /\ Goto(IF enabled THEN "clear" ELSE "drain")
          /\ UNCHANGED <<snap, staged, todo>>
  /\ UNCHANGED <<relayVars, cacheVars, scanVersion, context, sessionVars, worldVars>>

ClearDirty ==
  /\ pc = "clear"
  /\ dirty' = [h \in Hour |->
       IF h \in DOMAIN staged /\ dirty[h] <= staged[h].version THEN 0 ELSE dirty[h]]
  /\ staged' = NoHours
  /\ Goto("drain")
  /\ UNCHANGED <<relayVars, facts, scanVersion, queueVars, sessionVars, snap, todo, worldVars>>

-------------------------------------------------------------------------------
(***************************************************************************)
(* drain_outbox: the entries of this identity are read once and sent batch *)
(* by batch, oldest hour first.  An hour that fits no request is dropped.  *)
(***************************************************************************)
StartDrain ==
  /\ pc = "drain"
  /\ IF ~(enabled /\ Active)
     THEN Finish
     ELSE LET mine == {h \in Hour : Owned(outbox[h], session)}
          IN  /\ todo' = [h \in mine |-> [version |-> outbox[h].version, rows |-> outbox[h].rows]]
              /\ snap' = session
              /\ staged' = NoHours
              /\ Goto("send")
  /\ UNCHANGED <<relayVars, cacheVars, scanVersion, queueVars, sessionVars, worldVars>>

Only(hs, parcel) == [h \in hs |-> parcel[h]]

Dropped(hs) == [h \in Hour |-> IF h \in hs THEN None ELSE outbox[h]]

TooBig == {h \in DOMAIN todo : todo[h].rows \in Unsendable}

OldestHour == Oldest(1, DOMAIN todo)

Batch == {h \in Oldest(BatchHours, DOMAIN todo) : \A g \in TooBig : h < g}

DropFromTheDrain ==
  /\ pc = "send" /\ enabled
  /\ OldestHour \cap TooBig # {}
  /\ todo' = Only((DOMAIN todo) \ OldestHour, todo)
  /\ UNCHANGED <<relayVars, cacheVars, scanVersion, queueVars, sessionVars, pc, kind, snap, staged,
                 awaiting, worldVars>>

DropUnsendable ==
  /\ pc = "send" /\ enabled
  /\ OldestHour \cap TooBig # {}
  /\ outbox' = Dropped(OldestHour)
  /\ todo' = Only((DOMAIN todo) \ OldestHour, todo)
  /\ UNCHANGED <<relayVars, cacheVars, scanVersion, context, sessionVars, pc, kind, snap, staged,
                 awaiting, worldVars>>

(***************************************************************************)
(* upload_usage: the request goes out under the session of that moment,    *)
(* which is held against the generation the drain began with.              *)
(***************************************************************************)
SendBatch ==
  /\ pc = "send"
  /\ enabled => OldestHour \cap TooBig = {}
  /\ IF ~enabled \/ todo = NoHours \/ ~Active \/ session.generation # snap.generation
     THEN Finish /\ UNCHANGED flight
     ELSE \E f \in Flight :
            /\ Send(f, session.device, session.serial, snap.generation, Only(Batch, todo))
            /\ awaiting' = f
            /\ pc' = "await"
            /\ UNCHANGED <<kind, snap, staged, todo>>
  /\ UNCHANGED <<devices, stored, serial, now, cacheVars, scanVersion, queueVars, sessionVars,
                 worldVars>>

(***************************************************************************)
(* The answer: a rejected session is cleared if it is still the one that   *)
(* asked, a refused payload is forgotten like an hour that does not fit,   *)
(* and accepted or ignored the hours are done with.  An answer for another *)
(* device than the one the drain began with ends it.                       *)
(***************************************************************************)
Answered ==
  LET f == flight[awaiting]
      hs == DOMAIN f.hours
  IN  /\ pc = "await"
      /\ f.stage = "answered"
      /\ Forget(awaiting)
      /\ \/ /\ f.answer = "unauthorized"
            /\ session' = (IF Active /\ session.serial = f.session THEN None ELSE session)
            /\ Finish
            /\ UNCHANGED outbox
         \/ /\ f.answer = "written" /\ f.device # snap.device
            /\ Finish
            /\ UNCHANGED <<session, outbox>>
         \/ /\ f.answer = "refused" \/ (f.answer = "written" /\ f.device = snap.device)
            /\ outbox' = Dropped(hs)
            /\ todo' = Only((DOMAIN todo) \ hs, todo)
            /\ pc' = "send" /\ awaiting' = None
            /\ UNCHANGED <<session, kind, snap, staged>>
      /\ UNCHANGED <<devices, stored, serial, now, cacheVars, scanVersion, context, leaving,
                     worldVars>>

-------------------------------------------------------------------------------
(***************************************************************************)
(* What happens around the lane.  Each kind of mishap counts as an event.  *)
(***************************************************************************)
Mishap(m) == m \in Mishaps /\ events < MaxEvents /\ events' = events + 1

(* A crash, a time-out, an error or a shutdown: the refresh ends where it is. *)
CutShort ==
  /\ pc # "idle"
  /\ Mishap("cut")
  /\ Finish
  /\ UNCHANGED <<relayVars, cacheVars, scanVersion, queueVars, sessionVars, logs, enabled>>

(* A request nobody waits for never reaches the Relay, or its answer is dropped. *)
Lost(f) ==
  /\ f # awaiting
  /\ Forget(f)
  /\ UNCHANGED <<devices, stored, serial, now, cacheVars, scanVersion, queueVars, sessionVars,
                 laneVars, worldVars>>

(* An agent appends to its logs, rewrites or removes them. *)
WriteLog(h, r) ==
  /\ h <= FloorHour(now)
  /\ logs[h] # r
  /\ events < MaxEvents /\ events' = events + 1
  /\ logs' = [logs EXCEPT ![h] = r]
  /\ UNCHANGED <<relayVars, cacheVars, scanVersion, queueVars, sessionVars, laneVars, enabled>>

ToggleUpload ==
  /\ Mishap("toggle")
  /\ enabled' = ~enabled
  /\ UNCHANGED <<relayVars, cacheVars, scanVersion, queueVars, sessionVars, laneVars, logs>>

(***************************************************************************)
(* rebuild_cache: cache.sqlite is replaced by an empty one.  The counter   *)
(* behind the versions is in the other file.                               *)
(***************************************************************************)
CountFromOneAgain ==
  /\ Mishap("cache")
  /\ facts' = [h \in Hour |-> Nothing]
  /\ dirty' = [h \in Hour |-> 0]
  /\ scanVersion' = 0
  /\ UNCHANGED <<relayVars, queueVars, sessionVars, laneVars, logs, enabled>>

LoseCache ==
  /\ Mishap("cache")
  /\ facts' = [h \in Hour |-> Nothing]
  /\ dirty' = [h \in Hour |-> 0]
  /\ UNCHANGED <<relayVars, scanVersion, queueVars, sessionVars, laneVars, logs, enabled>>

Login(d) ==
  /\ session = None
  /\ SignIn(d)
  /\ session' = [device |-> d, generation |-> devices[d].generation,
                 revision |-> devices[d].revision,
                 deletedBefore |-> devices[d].deletedBefore, serial |-> serial + 1]
  /\ leaving' = FALSE
  /\ UNCHANGED <<cacheVars, scanVersion, queueVars, laneVars, worldVars>>

Logout ==
  /\ Active
  /\ Mishap("logout")
  /\ leaving' = TRUE
  /\ UNCHANGED <<relayVars, cacheVars, scanVersion, queueVars, session, laneVars, logs, enabled>>

RevokeArrives ==
  /\ leaving
  /\ Revoke(session.device, session.serial)
  /\ UNCHANGED <<cacheVars, scanVersion, queueVars, sessionVars, laneVars, worldVars>>

LogoutAnswered ==
  /\ leaving
  /\ devices[session.device].session # session.serial
  /\ session' = None /\ leaving' = FALSE
  /\ UNCHANGED <<relayVars, cacheVars, scanVersion, queueVars, laneVars, worldVars>>

(* Delete Device, from the Account page. *)
Delete(d) ==
  /\ Mishap("delete")
  /\ DeleteDevice(d)
  /\ UNCHANGED <<cacheVars, scanVersion, queueVars, sessionVars, laneVars, logs, enabled>>

TimePasses ==
  Tick /\ UNCHANGED <<cacheVars, scanVersion, queueVars, sessionVars, laneVars, worldVars>>

RelayHandles(f) ==
  /\ Handle(f)
  /\ UNCHANGED <<cacheVars, scanVersion, queueVars, sessionVars, laneVars, worldVars>>

Refresh ==
  \/ Control \/ Context \/ InstallContext
  \/ Stage \/ WriteOutbox \/ ClearDirty
  \/ StartDrain \/ DropUnsendable \/ SendBatch \/ Answered

Users ==
  \/ \E h \in Hour, r \in Rows : WriteLog(h, r)
  \/ \E d \in Device : Login(d) \/ Delete(d)
  \/ ToggleUpload \/ LoseCache \/ Logout \/ CutShort \/ TimePasses

Next ==
  \/ Refresh \/ Users
  \/ \E k \in {"full", "usage"} : Scan(k)
  \/ \E f \in Flight : RelayHandles(f) \/ Lost(f)
  \/ RevokeArrives \/ LogoutAnswered

SafetySpec == Init /\ [][Next]_vars

(***************************************************************************)
(* The threads of the service run, the scheduler asks for the next refresh *)
(* again and again, and the Relay handles what it received.  A request     *)
(* nobody waits for is over some time: the model has only so many slots.   *)
(* Nothing is promised of the user, of mishaps or of the clock.            *)
(***************************************************************************)
Spec ==
  /\ SafetySpec
  /\ WF_vars(Refresh)
  /\ WF_vars(Scan("full")) /\ WF_vars(Scan("usage"))
  /\ \A f \in Flight : WF_vars(RelayHandles(f)) /\ WF_vars(Lost(f))

-------------------------------------------------------------------------------
(***************************************************************************)
(* One version of an hour is one reading of it, wherever a copy has got    *)
(* to: the facts, the queue, a batch under way or the Account.  It is what *)
(* lets the Relay compare versions instead of rows, across cache rebuilds, *)
(* re-seeded marks, retries and sign-ins.                                  *)
(***************************************************************************)
Readings(h) ==
  {facts[h]}
  \cup (IF outbox[h] = None THEN {}
        ELSE {[version |-> outbox[h].version, rows |-> outbox[h].rows]})
  \cup {parcel[h] : parcel \in {p \in {staged, todo} : h \in DOMAIN p}}
  \cup {flight[f].hours[h] : f \in {g \in Flight : /\ flight[g] # NoRequest
                                                  /\ h \in DOMAIN flight[g].hours}}
  \cup {stored[d][h] : d \in Device}

OneReadingPerVersion ==
  \A h \in Hour : \A a, b \in Readings(h) : a.version = b.version => a.rows = b.rows

(***************************************************************************)
(* "An hour that starts before the watermark is not one this device may    *)
(* upload": of the hour a deletion fell into, the Account holds nothing    *)
(* again although the Relay would take it.                                 *)
(***************************************************************************)
CutHourStaysHome ==
  \A d \in Device, h \in Hour :
    h < CeilHour(devices[d].deletedBefore) => stored[d][h] = Nothing

(***************************************************************************)
(* When this Mac is done, it has delivered: nothing marked that is over,   *)
(* nothing queued, the queue's identity the one the Relay knows -- then    *)
(* the Account holds each hour the cache has facts of, as the cache has it.*)
(***************************************************************************)
Settled ==
  /\ pc = "idle" /\ Active /\ enabled
  /\ devices[session.device].session = session.serial
  /\ context = Identity(session)
  /\ \A h \in Hour : outbox[h] = None /\ (h < CompleteUntil => dirty[h] = 0)

Owing == {h \in Hour : h < CompleteUntil /\ h >= CeilHour(session.deletedBefore)}

SettledIsDelivered ==
  Settled => \A h \in Owing :
    facts[h].rows \notin {Empty} \cup Unsendable \cup Refused
      => stored[session.device][h] = facts[h]

(***************************************************************************)
(* "`accepted` means this scan replaced the hour [...] Either way the      *)
(* device is done with it" (UsageUploadResponseSchema): the hours a device *)
(* forgets as accepted are in its ledger, as they were sent or newer, or   *)
(* were deleted since.                                                     *)
(***************************************************************************)
AcceptedIsReplaced ==
  [][LET f == flight[awaiting]
     IN  Answered /\ f.answer = "written" /\ devices[f.device].generation = f.generation =>
           \A h \in f.accepted : stored[f.device][h].version >= f.hours[h].version]_vars

(***************************************************************************)
(* "An empty hour is a fact: it is how a device says everything it once    *)
(* reported for that hour is gone, so it travels rather than being         *)
(* dropped" (backend.rs).                                                  *)
(***************************************************************************)
EmptiedHoursTravel ==
  Settled => \A h \in Owing :
    facts[h] = Nothing /\ logs[h] = Empty => stored[session.device][h].rows = Empty

(***************************************************************************)
(* "Accepted and ignored are the same move [...] either way it never needs *)
(* sending again" (drain_outbox): where nothing goes wrong, no batch       *)
(* carries an hour the Account holds at that version already.              *)
(***************************************************************************)
NeverSentAgain ==
  [][\A f \in Flight :
       flight[f] = NoRequest /\ flight'[f] # NoRequest =>
         \A h \in DOMAIN flight'[f].hours :
           flight'[f].hours[h].version > stored[flight'[f].device][h].version]_vars

(***************************************************************************)
(* "Requests staged for one identity cannot be replayed under another"     *)
(* (ensure_usage_context): a batch goes out for the device its entries     *)
(* were queued for.                                                        *)
(***************************************************************************)
SentUnderItsOwnIdentity == pc = "await" => flight[awaiting].device = snap.device

(***************************************************************************)
(* What waits is eventually gone: as long as the user stays signed in with *)
(* uploading on, marks and queue entries do not stay behind, whatever was  *)
(* refused, lost or cut short on the way.                                  *)
(***************************************************************************)
Waiting ==
  /\ Active /\ enabled
  /\ \E h \in Hour : outbox[h] # None \/ (h < CompleteUntil /\ dirty[h] # 0)

BacklogIsSent == Waiting ~> ~Waiting
===============================================================================
