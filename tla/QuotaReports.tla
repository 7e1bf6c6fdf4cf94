----------------------------- MODULE QuotaReports -----------------------------
(***************************************************************************)
(* What a Mac last read of its providers, and what the Account holds of    *)
(* it: the quota report a pass leaves (packages/service/src/service/       *)
(* backend.rs), the upload of it with the failures it restates             *)
(* (relay/mod.rs), and the Relay that stores one reading per device and    *)
(* subscription (apps/relay/src/state/d1-account-state.ts).                *)
(*                                                                         *)
(* One provider, which may be signed in with several accounts; no pass     *)
(* relates two providers, apart from not asking one, which is a pass here  *)
(* that asks nothing.  Which providers a pass asks is Cadence; a Mac's     *)
(* token and its rotation are Session.  A reading is its instant and its   *)
(* status; the window that resets first is part of Validity.               *)
(***************************************************************************)
EXTENDS Naturals

CONSTANTS
  Device,         \* the Macs of one Account
  Subscription,   \* the provider's accounts, by their fingerprint
  None,           \* an absent reading
  Validity,       \* how long a reading is current: snapshot_valid_until
  LastInstant,    \* bound: the clock stops here
  LastGeneration, \* bound: a device is deleted this often, less one
  Mishaps,        \* which of the events below may happen
  MaxEvents       \* bound: how many of these events there are

ASSUME ReportsAssumption ==
  /\ Validity \in Nat \ {0} /\ LastInstant \in Nat \ {0}
  /\ LastGeneration \in Nat \ {0} /\ MaxEvents \in Nat
  /\ None \notin Nat
  /\ Mishaps \subseteq {"hiccup",  \* the first of the two uploads of a full refresh is not answered
                        "lost",    \* the only, or the last, upload of a refresh is not answered
                        "late",    \* the Relay handles an upload after its sender gave up
                        "restart", \* the service stops in a refresh and starts again
                        "signout", \* the user signs out
                        "delete"}  \* the device is deleted from the Account

VARIABLES
  now,
  report,    \* the stored Quota component: the provider's result
  previous,  \* previous_quota of the running refresh
  step,      \* where the refresh of the quota or the full lane is
  tries,     \* how many uploads it may still attempt
  session,   \* the generation the active session names, 0 without one
  device,    \* devices: generation, and whether it is signed in and not deleted
  rows,      \* quota_snapshots
  wire,      \* the uploads under way
  asked,     \* CadenceRecord.last_attempt_at
  events,    \* how many events there have been
  told,      \* history: what the Account handled last is what the last refresh found
  untold     \* history: what the Mac stopped reading and could not say, or a late upload restored

macVars     == <<report, previous, step, tries, session, asked>>
relayVars   == <<device, rows>>
historyVars == <<told, untold>>
reportsVars == <<now, macVars, relayVars, wire, events, historyVars>>

Instant    == 1..LastInstant
Generation == 1..LastGeneration

OrNone(S) == S \cup {None}

Reading == [at : Instant, status : {"available", "failed"}]

ASSUME NoReadingIsNone == None \notin Reading

(* Of a result that is kept, what was read is available and was read `at`. *)
Outcomes == {"none", "success", "failed", "absent"}
Result   == [outcome : Outcomes, readings : [Subscription -> OrNone(Instant)]]

NoReadings == [s \in Subscription |-> None]
Nothing    == [outcome |-> "none", readings |-> NoReadings]

Upload == [device : Device, generation : Generation,
           readings : [Subscription -> OrNone(Reading)],
           stage : {"sent", "checked", "written"},
           accepted : SUBSET Subscription,
           heard : BOOLEAN,  \* its sender still waits for the answer
           alone : BOOLEAN]  \* history: no late batch between its check and its own

ReportsTypeOK ==
  /\ now \in Instant
  /\ report \in [Device -> Result] /\ previous \in [Device -> Result]
  /\ step \in [Device -> {"idle", "collected", "waiting"}]
  /\ tries \in [Device -> 0..2]
  /\ session \in [Device -> {0} \cup Generation]
  /\ device \in [Device -> [generation : Generation, current : BOOLEAN]]
  /\ rows \in [Device -> [Subscription -> OrNone(Reading)]]
  /\ wire \subseteq Upload
  /\ asked \in [Device -> 0..LastInstant]
  /\ events \in 0..MaxEvents
  /\ told \in [Device -> BOOLEAN]
  /\ untold \in [Device -> SUBSET Subscription]

(* Every Mac has just signed in and has read nothing yet. *)
ReportsInit ==
  /\ now = 1
  /\ report = [d \in Device |-> Nothing]
  /\ previous = [d \in Device |-> Nothing]
  /\ step = [d \in Device |-> "idle"]
  /\ tries = [d \in Device |-> 0]
  /\ session = [d \in Device |-> 1]
  /\ device = [d \in Device |-> [generation |-> 1, current |-> TRUE]]
  /\ rows = [d \in Device |-> NoReadings]
  /\ wire = {}
  /\ asked = [d \in Device |-> 0]
  /\ events = 0
  /\ told = [d \in Device |-> FALSE]
  /\ untold = [d \in Device |-> {}]

Mishap(m) == m \in Mishaps /\ events < MaxEvents /\ events' = events + 1

Active(d) == session[d] # 0

-------------------------------------------------------------------------------
(* snapshot_valid_until and snapshot_is_current, of a reading taken at t *)
IsFresh(t) == now < t + Validity

IsCurrent(r) == r # None /\ r.status = "available" /\ IsFresh(r.at)

(***************************************************************************)
(* collect_discovered_provider: one account that answers makes the result  *)
(* a success; of none, the result names the failure, and a provider nobody *)
(* is signed in to requires a sign-in.  The user signs in to accounts and  *)
(* out of them at any time, so any of them may answer.                     *)
(***************************************************************************)
ReadNow(got) == [outcome |-> "success",
                 readings |-> [s \in Subscription |-> IF s \in got THEN now ELSE None]]

Unread(outcome) == [outcome |-> outcome, readings |-> NoReadings]

Answers ==
  {Unread("failed"), Unread("absent")} \cup {ReadNow(got) : got \in (SUBSET Subscription) \ {{}}}

(***************************************************************************)
(* merge_quota_reports: what a pass did not ask keeps its result, and what *)
(* answered 429 keeps it while there are readings in it.                   *)
(***************************************************************************)
HasReadings(result) == result.readings # NoReadings

AfterLimit(result) == IF HasReadings(result) THEN result ELSE Unread("failed")

(***************************************************************************)
(* A pass: refresh_quota has one attempt to upload what it leaves, a full  *)
(* refresh that begins signed in uploads early and may try again.  No      *)
(* provider is asked twice in an instant (MANUAL_FLOOR).                   *)
(***************************************************************************)
Pass(d, result) ==
  /\ step[d] = "idle"
  /\ previous' = [previous EXCEPT ![d] = report[d]]
  /\ report' = [report EXCEPT ![d] = result]
  /\ step' = [step EXCEPT ![d] = "collected"]
  /\ \E n \in IF Active(d) THEN {1, 2} ELSE {1} : tries' = [tries EXCEPT ![d] = n]
  /\ told' = [told EXCEPT ![d] = FALSE]
  /\ UNCHANGED <<now, session, relayVars, wire, events, untold>>

Ask(d) ==
  /\ asked[d] < now
  /\ asked' = [asked EXCEPT ![d] = now]
  /\ \E result \in Answers \cup {AfterLimit(report[d])} : Pass(d, result)

AskNothing(d) ==
  /\ Pass(d, report[d])
  /\ UNCHANGED asked

-------------------------------------------------------------------------------
(***************************************************************************)
(* failure_status_snapshots: of a provider whose result is a failure, the  *)
(* readings of the report before this one that are still current.          *)
(***************************************************************************)
RestatesNothing(d) == {}

Restated(d) ==
  IF report[d].outcome \in {"failed", "absent"}
  THEN {s \in Subscription : previous[d].readings[s] # None /\ IsFresh(previous[d].readings[s])}
  ELSE {}

(* snapshot_payload_from_quota_report: what was read, then what is restated *)
OnlyNews(d) == [s \in Subscription |->
  IF report[d].readings[s] \notin {None, previous[d].readings[s]}
  THEN [at |-> report[d].readings[s], status |-> "available"] ELSE None]

Envelope(d) == [s \in Subscription |->
  IF report[d].readings[s] # None THEN [at |-> report[d].readings[s], status |-> "available"]
  ELSE IF s \in Restated(d) THEN [at |-> previous[d].readings[s], status |-> "failed"]
  ELSE None]

(* What this refresh no longer reads, had the last one read it. *)
Dropped(d) == {s \in Subscription : previous[d].readings[s] # None /\ report[d].readings[s] = None}

Rest(d) ==
  /\ step' = [step EXCEPT ![d] = "idle"]
  /\ tries' = [tries EXCEPT ![d] = 0]
  /\ previous' = [previous EXCEPT ![d] = Nothing]

(* upload_quota_report *)
Send(d) ==
  /\ step[d] = "collected" /\ Active(d)
  /\ Envelope(d) # NoReadings
  /\ wire' = wire \cup {[device |-> d, generation |-> session[d], readings |-> Envelope(d),
                         stage |-> "sent", accepted |-> {}, heard |-> TRUE, alone |-> TRUE]}
  /\ step' = [step EXCEPT ![d] = "waiting"]
  /\ UNCHANGED <<now, report, previous, tries, session, asked, relayVars, events, historyVars>>

(* With nothing to send there is no request, and the report counts as put. *)
SendNothing(d) ==
  /\ step[d] = "collected" /\ Active(d)
  /\ Envelope(d) = NoReadings
  /\ Rest(d)
  /\ told' = [told EXCEPT ![d] = TRUE]
  /\ UNCHANGED <<now, report, session, asked, relayVars, wire, events, untold>>

Unreported(d) == {s \in Subscription : report[d].readings[s] = None}

GoUntold(d) == untold' = IF told[d] THEN untold ELSE [untold EXCEPT ![d] = @ \cup Dropped(d)]

SkipUpload(d) ==
  /\ step[d] = "collected" /\ ~Active(d)
  /\ Rest(d)
  /\ GoUntold(d)
  /\ UNCHANGED <<now, report, session, asked, relayVars, wire, events, told>>

-------------------------------------------------------------------------------
(***************************************************************************)
(* recordSnapshot.  snapshotWriteIsAccepted, and the same rule again in    *)
(* the ON CONFLICT of the batch: a later reading, or the same one that has *)
(* become a failure.                                                       *)
(***************************************************************************)
OutranksAnyway(new, old) == TRUE

Outranks(new, old) ==
  \/ old = None
  \/ new.at > old.at
  \/ new.at = old.at /\ old.status = "available" /\ new.status # "available"

Speaks(d, generation) == device[d].current /\ device[d].generation = generation

Check(u) ==
  /\ u \in wire /\ u.stage = "sent"
  /\ Speaks(u.device, u.generation)
  /\ wire' = (wire \ {u}) \cup {[u EXCEPT !.stage = "checked", !.alone = TRUE,
       !.accepted = {s \in Subscription : u.readings[s] # None
                                          /\ Outranks(u.readings[s], rows[u.device][s])}]}
  /\ UNCHANGED <<now, macVars, relayVars, events, historyVars>>

(***************************************************************************)
(* The batch.  What was accepted is inserted while the device may still    *)
(* speak and nothing newer came between; of the provider it names, every   *)
(* fingerprint the envelope does not state is deleted, whoever stored it.  *)
(***************************************************************************)
KeepsAll(u, s) == TRUE

Keeps(u, s) == u.readings[s] # None

Stored(u, s) ==
  LET old == rows[u.device][s] IN
  IF s \in u.accepted /\ Speaks(u.device, u.generation) /\ Outranks(u.readings[s], old)
  THEN u.readings[s]
  ELSE IF Keeps(u, s) THEN old ELSE None

Write(u) ==
  /\ u \in wire /\ u.stage = "checked"
  /\ rows' = [rows EXCEPT ![u.device] = [s \in Subscription |-> Stored(u, s)]]
  /\ wire' = IF u.heard THEN (wire \ {u}) \cup {[u EXCEPT !.stage = "written"]}
             ELSE {[v EXCEPT !.alone = @ /\ v.device # u.device] : v \in wire \ {u}}
  /\ told' = [told EXCEPT ![u.device] = u.heard /\ u.alone /\ Speaks(u.device, u.generation)]
  /\ untold' = [untold EXCEPT ![u.device] =
                  IF u.heard /\ u.alone THEN {} ELSE @ \cup Unreported(u.device)]
  /\ UNCHANGED <<now, macVars, device, events>>

(* The token of a device that may not speak is refused, which signs the Mac out. *)
Refuse(u) ==
  /\ u \in wire /\ u.stage = "sent"
  /\ ~Speaks(u.device, u.generation)
  /\ wire' = wire \ {u}
  /\ IF u.heard
     THEN Rest(u.device) /\ GoUntold(u.device) /\ session' = [session EXCEPT ![u.device] = 0]
     ELSE UNCHANGED <<previous, step, tries, session, untold>>
  /\ UNCHANGED <<now, report, asked, relayVars, events, told>>

(* upload_quota_recorded, of an answer *)
Hear(d) ==
  /\ \E u \in wire : u.device = d /\ u.heard /\ u.stage = "written" /\ wire' = wire \ {u}
  /\ Rest(d)
  /\ UNCHANGED <<now, report, session, asked, relayVars, events, historyVars>>

(* What becomes of an upload nobody waits for: it is gone, or it is handled late. *)
Unheard(d) ==
  LET mine == {u \in wire : u.device = d /\ u.heard}
      left == {[u EXCEPT !.heard = FALSE] : u \in {v \in mine : v.stage # "written"}}
  IN  wire' \in {wire \ mine} \cup IF "late" \in Mishaps THEN {(wire \ mine) \cup left} ELSE {}

(* A full refresh that has not put its report tries once more after its control sync. *)
TriesAgain(d) ==
  /\ step' = [step EXCEPT ![d] = "collected"]
  /\ tries' = [tries EXCEPT ![d] = 1]
  /\ UNCHANGED <<previous, untold>>

GivesUp(d) == Rest(d) /\ GoUntold(d)

GiveUp(d) ==
  /\ step[d] = "waiting"
  /\ Unheard(d)
  /\ \/ tries[d] = 2 /\ Mishap("hiccup") /\ TriesAgain(d)
     \/ tries[d] = 1 /\ Mishap("lost") /\ GivesUp(d)
  /\ UNCHANGED <<now, report, session, asked, relayVars, told>>

-------------------------------------------------------------------------------
Restart(d) ==
  /\ step[d] # "idle"
  /\ Mishap("restart")
  /\ Unheard(d)
  /\ GivesUp(d)
  /\ UNCHANGED <<now, report, session, asked, relayVars, told>>

(* Signing out cancels the refresh; that the revocation arrives is Session's. *)
SignOut(d) ==
  /\ Active(d)
  /\ Mishap("signout")
  /\ session' = [session EXCEPT ![d] = 0]
  /\ device' = [device EXCEPT ![d].current = FALSE]
  /\ Unheard(d)
  /\ Rest(d)
  /\ IF step[d] = "idle" THEN UNCHANGED untold ELSE GoUntold(d)
  /\ told' = [told EXCEPT ![d] = FALSE]
  /\ UNCHANGED <<now, report, asked, rows>>

SignIn(d) ==
  /\ ~Active(d)
  /\ session' = [session EXCEPT ![d] = device[d].generation]
  /\ device' = [device EXCEPT ![d].current = TRUE]
  /\ UNCHANGED <<now, report, previous, step, tries, asked, rows, wire, events, historyVars>>

(* deleteDeviceData, of what the readings depend on *)
DeleteDevice(d) ==
  /\ device[d].generation < LastGeneration
  /\ Mishap("delete")
  /\ device' = [device EXCEPT ![d] = [generation |-> @.generation + 1, current |-> FALSE]]
  /\ rows' = [rows EXCEPT ![d] = NoReadings]
  /\ told' = [told EXCEPT ![d] = FALSE]
  /\ untold' = [untold EXCEPT ![d] = {}]
  /\ UNCHANGED <<now, macVars, wire>>

Tick ==
  /\ now < LastInstant
  /\ now' = now + 1
  /\ UNCHANGED <<macVars, relayVars, wire, events, historyVars>>

MacNext(d) ==
  \/ Ask(d) \/ AskNothing(d)
  \/ Send(d) \/ SendNothing(d) \/ SkipUpload(d)
  \/ Hear(d) \/ GiveUp(d) \/ Restart(d)
  \/ SignOut(d) \/ SignIn(d) \/ DeleteDevice(d)

RelayNext == \E u \in wire : Check(u) \/ Write(u) \/ Refuse(u)

ReportsNext == (\E d \in Device : MacNext(d)) \/ RelayNext \/ Tick

ReportsSpec == ReportsInit /\ [][ReportsNext]_reportsVars

(***************************************************************************)
(* The scheduler asks for refreshes for ever and each uploads what it has  *)
(* (run_scheduler); the Relay handles what arrived; an answer that arrived *)
(* is taken.  Nothing is promised of users, of providers or of the clock.  *)
(***************************************************************************)
ReportsFairSpec ==
  /\ ReportsSpec
  /\ \A d \in Device :
       /\ WF_reportsVars(Ask(d) \/ AskNothing(d))
       /\ WF_reportsVars(Send(d) \/ SendNothing(d) \/ SkipUpload(d) \/ Hear(d))
  /\ WF_reportsVars(RelayNext)

-------------------------------------------------------------------------------
(***************************************************************************)
(* "A reading older than the stored one cannot overwrite it.  A            *)
(* restatement at the same instant is ignored unless it only changes       *)
(* status from available to a failure" (recordSnapshot): whatever uploads  *)
(* cross, a stored reading gives way to a later one or becomes a failure.  *)
(***************************************************************************)
NewestWins == [][\A d \in Device, s \in Subscription :
  rows[d][s] # None /\ rows'[d][s] \notin {None, rows[d][s]} =>
    \/ rows'[d][s].at > rows[d][s].at
    \/ rows'[d][s].at = rows[d][s].at /\ rows'[d][s].status = "failed"]_reportsVars

(***************************************************************************)
(* After a refresh that could say what it found, the Account holds of this *)
(* Mac exactly what it last read: every reading of its report, and nothing *)
(* that looks current and is not in the report (failure_status_snapshots,  *)
(* and "a subscription it has stopped observing stops speaking for it").   *)
(* Excused is what a refresh stopped reading while it could not say so:    *)
(* the next one no longer knows it (FailureIsTold).                        *)
(***************************************************************************)
Holds(d, s) ==
  /\ report[d].readings[s] # None =>
       rows[d][s] = [at |-> report[d].readings[s], status |-> "available"]
  /\ IsCurrent(rows[d][s]) => rows[d][s].at = report[d].readings[s]

AccountHoldsReport == \A d \in Device :
  told[d] /\ Active(d) /\ Speaks(d, session[d]) =>
    \A s \in Subscription \ untold[d] : Holds(d, s)

(***************************************************************************)
(* "Restating is what turns a local detection into a cross-device fact     *)
(* instead of one that other devices have to wait out" (backend.rs,        *)
(* failure_status_snapshots): without the excuse, when a refresh has put   *)
(* its report the Account shows nothing as current which this Mac cannot   *)
(* read any more.                                                          *)
(***************************************************************************)
FailureIsTold == \A d \in Device :
  told[d] /\ Active(d) /\ Speaks(d, session[d]) => \A s \in Subscription : Holds(d, s)

(***************************************************************************)
(* "A reading older than the stored one cannot overwrite it" and the       *)
(* envelope states what this device "currently sees" (recordSnapshot): a   *)
(* reading that is the Mac's last stays on the Account until the device is *)
(* deleted.                                                                *)
(***************************************************************************)
LastReadingStays == [][\A d \in Device, s \in Subscription :
  rows[d][s] # None /\ rows[d][s].at = report[d].readings[s] /\ device'[d] = device[d]
    => rows'[d][s] # None]_reportsVars

(***************************************************************************)
(* A reading reaches the Account whatever uploads are lost on the way,     *)
(* unless it is superseded or the Mac may not speak any more.              *)
(***************************************************************************)
ReadingsArrive == \A d \in Device, s \in Subscription, t \in Instant :
  report[d].readings[s] = t /\ Active(d)
    ~> \/ report[d].readings[s] # t
       \/ ~Active(d) \/ ~Speaks(d, session[d])
       \/ rows[d][s] # None /\ rows[d][s].at >= t
===============================================================================
