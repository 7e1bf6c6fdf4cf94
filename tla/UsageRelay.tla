------------------------------ MODULE UsageRelay ------------------------------
(***************************************************************************)
(* The Relay's side of the Usage upload (apps/relay/src/state/             *)
(* d1-usage-state.ts and the device record of d1-account-state.ts): an     *)
(* upload is authorized and compared with what is stored by reads of their *)
(* own, and written later by one guarded batch.  Between the two, other    *)
(* uploads, a sign-out, a sign-in and Delete Device may land.              *)
(*                                                                         *)
(* An instant is counted in half hours and hour h begins at instant 2h, so *)
(* that a watermark may fall on an hour or inside one.  A request that was *)
(* lost is one that stays in its slot; Forget frees the slot.  usage_daily *)
(* is rewritten from the hours in the batch that changes them and is left  *)
(* out.                                                                    *)
(***************************************************************************)
EXTENDS Naturals

CONSTANTS
  Device,          \* device records of the Account database
  Hour,            \* UTC hours an upload can name
  Rows,            \* what an hour can be made of
  Empty,           \* an hour of no rows
  Refused,         \* rows UsageUploadSchema refuses with a 400
  Flight,          \* bound: requests under way at once
  Now0,            \* the instant the model starts at
  LastInstant,     \* bound: the last instant
  LastSerial,      \* bound: sign-ins
  LastGeneration,  \* bound: deletions of a device, plus one
  LastVersion      \* bound: scan versions

ASSUME RelayAssumption ==
  /\ Hour \subseteq Nat
  /\ Empty \in Rows
  /\ Refused \subseteq Rows
  /\ Now0 \in Nat /\ LastInstant \in Nat /\ Now0 <= LastInstant
  /\ LastGeneration \in Nat \ {0}
  /\ LastSerial \in Nat /\ LastVersion \in Nat

VARIABLES
  devices,  \* the devices row: generation, usage_sync_revision, deleted_before, its live session
  stored,   \* usage_hourly and usage_hour_scans
  flight,   \* the upload requests under way
  serial,   \* the last session issued
  now       \* the clock, in half hours

relayVars == <<devices, stored, flight, serial, now>>

FloorHour(i) == i \div 2
CeilHour(i)  == (i + 1) \div 2

Reading == [version : 1..LastVersion, rows : Rows]

Nothing == [version |-> 0, rows |-> Empty]

(***************************************************************************)
(* A devices row with the one unrevoked session that speaks for it.  A     *)
(* session of 0 is a device that is signed out: the batches that revoke    *)
(* its session set signed_out_at, the one that issues a session clears it. *)
(* A device is present from its first sign-in until it is deleted.         *)
(***************************************************************************)
DeviceRow == [generation : 1..LastGeneration, revision : Nat,
              deletedBefore : 0..LastInstant, session : 0..LastSerial, present : BOOLEAN]

Live(d) == devices[d].session # 0

(***************************************************************************)
(* A request: the session it was sent with, the device and generation that *)
(* session is for, the hours it carries, and how far the Relay has come.   *)
(***************************************************************************)
Parcel == UNION {[hs -> Reading] : hs \in SUBSET Hour}

Request ==
  [stage : {"sent", "checked", "answered"}, device : Device, session : 1..LastSerial,
   generation : 1..LastGeneration, hours : Parcel, accepted : SUBSET Hour,
   answer : {"none", "unauthorized", "refused", "written"}]

NoRequest == [stage |-> "free"]

RelayTypeOK ==
  /\ devices \in [Device -> DeviceRow]
  /\ stored \in [Device -> [Hour -> Reading \cup {Nothing}]]
  /\ flight \in [Flight -> Request \cup {NoRequest}]
  /\ serial \in 0..LastSerial
  /\ now \in Now0..LastInstant

RelayInit ==
  /\ devices = [d \in Device |->
       [generation |-> 1, revision |-> 0, deletedBefore |-> 0, session |-> 0,
        present |-> FALSE]]
  /\ stored = [d \in Device |-> [h \in Hour |-> Nothing]]
  /\ flight = [f \in Flight |-> NoRequest]
  /\ serial = 0
  /\ now = Now0

-------------------------------------------------------------------------------
(***************************************************************************)
(* PUT /api/v6/device/usage.                                               *)
(***************************************************************************)
Send(f, d, s, g, parcel) ==
  /\ flight[f] = NoRequest
  /\ flight' = [flight EXCEPT ![f] =
       [stage |-> "sent", device |-> d, session |-> s, generation |-> g,
        hours |-> parcel, accepted |-> {}, answer |-> "none"]]

Answer(f, a) == flight' = [flight EXCEPT ![f].stage = "answered", ![f].answer = a]

(* deviceWriter: the session still stands and its device is at the generation it was issued for. *)
Authorized(f) ==
  LET d == flight[f].device
  IN  /\ Live(d)
      /\ devices[d].session = flight[f].session
      /\ devices[d].generation = flight[f].generation

(* A payload the schema does not admit is refused whole, whichever of its hours is at fault. *)
Malformed(f) == \E h \in DOMAIN flight[f].hours : flight[f].hours[h].rows \in Refused

Admissible(f) == Authorized(f) /\ ~Malformed(f)

(* Who asks is looked at before what is asked. *)
Refusal(f) == IF Authorized(f) THEN "refused" ELSE "unauthorized"

Refuse(f) ==
  /\ flight[f].stage = "sent"
  /\ ~Admissible(f)
  /\ Answer(f, Refusal(f))
  /\ UNCHANGED <<devices, stored, serial, now>>

(***************************************************************************)
(* The hours of an upload that are newer than what is stored and not       *)
(* before the watermark.  "A new generation may rebuild the watermark's    *)
(* own UTC hour, but nothing before it": the bound is rounded down.        *)
(***************************************************************************)
Newer(f) ==
  LET d == flight[f].device
  IN  {h \in DOMAIN flight[f].hours :
        /\ h >= FloorHour(devices[d].deletedBefore)
        /\ flight[f].hours[h].version > stored[d][h].version}

CheckUsage(f) ==
  /\ flight[f].stage = "sent"
  /\ Admissible(f)
  /\ IF Newer(f) = {}
     THEN Answer(f, "written")
     ELSE flight' = [flight EXCEPT ![f].stage = "checked", ![f].accepted = Newer(f)]
  /\ UNCHANGED <<devices, stored, serial, now>>

(* deviceIsCurrent: whichever session sent it, the device is signed in at the same generation. *)
SignedIn(f) == Live(flight[f].device)

DeviceIsCurrent(f) ==
  LET d == flight[f].device
  IN  Live(d) /\ devices[d].generation = flight[f].generation

(* noNewerScan *)
AnyScan(f, h) == TRUE

NoNewerScan(f, h) == flight[f].hours[h].version > stored[flight[f].device][h].version

(***************************************************************************)
(* The batch: each accepted hour is cleared, filled and stamped unless a   *)
(* newer scan has claimed it since, and the revision moves.  A device that *)
(* is no longer current changes nothing.  The answer is the list made at   *)
(* the check, whatever the batch did.                                      *)
(***************************************************************************)
CommitUsage(f) ==
  LET d == flight[f].device
      Written == {h \in flight[f].accepted : NoNewerScan(f, h)}
  IN  /\ flight[f].stage = "checked"
      /\ IF DeviceIsCurrent(f)
         THEN /\ stored' = [stored EXCEPT ![d] =
                   [h \in Hour |-> IF h \in Written THEN flight[f].hours[h] ELSE @[h]]]
              /\ devices' = [devices EXCEPT ![d].revision = @ + 1]
         ELSE UNCHANGED <<stored, devices>>
      /\ Answer(f, "written")
      /\ UNCHANGED <<serial, now>>

FreeTheStage(f) == flight' = [flight EXCEPT ![f].stage = "free"]

(* The client has its answer, or gave up on one: the request is no longer anybody's. *)
Forget(f) ==
  /\ flight[f] # NoRequest
  /\ flight' = [flight EXCEPT ![f] = NoRequest]

-------------------------------------------------------------------------------
(***************************************************************************)
(* consumeLoginGrant: the device is found or made, the sessions it had are *)
(* revoked and one is issued, which also brings a deleted device back.     *)
(***************************************************************************)
SignIn(d) ==
  /\ serial < LastSerial
  /\ serial' = serial + 1
  /\ devices' = [devices EXCEPT ![d].session = serial + 1, ![d].present = TRUE]
  /\ UNCHANGED <<stored, flight, now>>

(* revokeRefreshSession: only the session that still stands takes its device with it. *)
Revoke(d, s) ==
  /\ s # 0
  /\ devices[d].session = s
  /\ devices' = [devices EXCEPT ![d].session = 0]
  /\ UNCHANGED <<stored, flight, serial, now>>

(***************************************************************************)
(* deleteDeviceData: the generation and the revision move, the sessions    *)
(* are revoked, and every reading is wiped with the versions beside it.    *)
(* A device that is deleted already is left as it is.                      *)
(***************************************************************************)
DeleteDevice(d) ==
  /\ devices[d].present
  /\ devices[d].generation < LastGeneration
  /\ devices' = [devices EXCEPT ![d] =
       [generation |-> @.generation + 1, revision |-> @.revision + 1,
        deletedBefore |-> now, session |-> 0, present |-> FALSE]]
  /\ stored' = [stored EXCEPT ![d] = [h \in Hour |-> Nothing]]
  /\ UNCHANGED <<flight, serial, now>>

Tick ==
  /\ now < LastInstant
  /\ now' = now + 1
  /\ UNCHANGED <<devices, stored, flight, serial>>

(* What the Relay does of itself with a request it has received. *)
Handle(f) == Refuse(f) \/ CheckUsage(f) \/ CommitUsage(f)

-------------------------------------------------------------------------------
(***************************************************************************)
(* The Relay alone, among clients that may send any hours under any        *)
(* session and generation ever issued, and any number of them at once.     *)
(***************************************************************************)
AnyUpload(f) ==
  /\ \E d \in Device, s \in 1..serial : \E g \in 1..devices[d].generation :
       \E parcel \in Parcel : Send(f, d, s, g, parcel)
  /\ UNCHANGED <<devices, stored, serial, now>>

GiveUp(f) == Forget(f) /\ UNCHANGED <<devices, stored, serial, now>>

RelayNext ==
  \/ \E f \in Flight : AnyUpload(f) \/ Handle(f) \/ GiveUp(f)
  \/ \E d \in Device : SignIn(d) \/ DeleteDevice(d)
  \/ \E d \in Device, s \in 1..LastSerial : Revoke(d, s)
  \/ Tick

RelaySpec == RelayInit /\ [][RelayNext]_relayVars

-------------------------------------------------------------------------------
(***************************************************************************)
(* The Relay keeps the ledger it promises: uploads of one hour that cross  *)
(* land in version order, an upload that was compared before a deletion    *)
(* writes nothing after it, nothing returns from before the hour of the    *)
(* watermark, and no change goes by without a new revision.                *)
(***************************************************************************)
Ledger == INSTANCE UsageLedger WITH
  ledger     <- stored,
  revision   <- [d \in Device |-> devices[d].revision],
  generation <- [d \in Device |-> devices[d].generation],
  watermark  <- [d \in Device |-> FloorHour(devices[d].deletedBefore)]

KeepsItsLedger == Ledger!Spec

(***************************************************************************)
(* What was deleted stays deleted: no hour that ended before the watermark *)
(* of a device is ever held for it again, by whichever upload.             *)
(***************************************************************************)
DeletedStaysDeleted ==
  \A d \in Device, h \in Hour :
    h < FloorHour(devices[d].deletedBefore) => stored[d][h] = Nothing
===============================================================================
