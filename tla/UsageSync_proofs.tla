--------------------------- MODULE UsageSync_proofs ---------------------------
(***************************************************************************)
(* What a Mac that uploads its Usage does to the Relay and to its own      *)
(* hours, for any devices, hours, bounds and mishaps: it is one of the     *)
(* clients UsageRelay allows, so that what is proved of the Relay holds of *)
(* the two together; one version of an hour is one reading of it; the hour *)
(* a deletion fell into stays at home; and, where nobody signs out, what   *)
(* is settled is delivered.                                                *)
(***************************************************************************)
EXTENDS UsageSync, UsageRelay_proofs, FiniteSetTheorems

(* A refresh that runs has read a session; a request it waits for has a slot. *)
StepsHoldTheirs ==
  /\ pc # "idle" => snap # None
  /\ pc = "await" => awaiting \in Flight
  /\ leaving => session # None

(* A session was issued, for a generation its device has reached. *)
SessionStands ==
  session # None =>
    /\ session.serial <= serial
    /\ session.generation <= devices[session.device].generation

SyncInv == TypeOK /\ RelayInv /\ StepsHoldTheirs /\ SessionStands

(***************************************************************************)
(* An hour occurs at a version, with its rows, in the facts, as a mark, in *)
(* the queue, in what a refresh has read out of either, in a batch under   *)
(* way or on the Account.                                                  *)
(***************************************************************************)
Occurs(h, v, r) ==
  \/ facts[h].version = v /\ facts[h].rows = r
  \/ dirty[h] = v /\ v # 0 /\ facts[h].rows = r
  \/ outbox[h] # None /\ outbox[h].version = v /\ outbox[h].rows = r
  \/ h \in DOMAIN staged /\ staged[h].version = v /\ staged[h].rows = r
  \/ h \in DOMAIN todo /\ todo[h].version = v /\ todo[h].rows = r
  \/ \E f \in Flight : /\ flight[f] # NoRequest /\ h \in DOMAIN flight[f].hours
                       /\ flight[f].hours[h].version = v /\ flight[f].hours[h].rows = r
  \/ \E d \in Device : stored[d][h].version = v /\ stored[d][h].rows = r

(* No version is ahead of the counter, and none has two readings. *)
VersionsTell ==
  \A h \in Hour, v \in 0..LastVersion, r \in Rows : Occurs(h, v, r) =>
    /\ v <= scanVersion
    /\ v = 0 => r = Empty
    /\ \A q \in Rows : Occurs(h, v, q) => q = r

(***************************************************************************)
(* What was taken up for a device at its present generation names no hour  *)
(* that began before its watermark.                                        *)
(***************************************************************************)
Fits(d, g, h) ==
  /\ g <= devices[d].generation
  /\ g = devices[d].generation => h >= CeilHour(devices[d].deletedBefore)

Knows(s) ==
  /\ s.generation <= devices[s.device].generation
  /\ s.generation = devices[s.device].generation =>
       s.deletedBefore = devices[s.device].deletedBefore

HoursFit ==
  /\ session # None => Knows(session)
  /\ snap # None => Knows(snap)
  /\ \A h \in Hour : outbox[h] # None => Fits(outbox[h].device, outbox[h].generation, h)
  /\ \A h \in DOMAIN staged : Fits(snap.device, snap.generation, h)
  /\ \A h \in DOMAIN todo : Fits(snap.device, snap.generation, h)
  /\ \A f \in Flight : flight[f] # NoRequest =>
       \A h \in DOMAIN flight[f].hours : Fits(flight[f].device, flight[f].generation, h)

(* A refresh holds hours only on the way from the cache to the queue, and in its drain. *)
HoursWhere ==
  /\ pc \notin {"write", "clear", "drain"} => DOMAIN staged = {}
  /\ pc \notin {"send", "await"} => DOMAIN todo = {}

-------------------------------------------------------------------------------
USE RelayAssumption, SyncAssumption

LEMMA ParcelParts ==
  ASSUME NEW p \in Parcel
  PROVE  /\ DOMAIN p \subseteq Hour
         /\ \A h \in DOMAIN p : p[h] \in Reading
<1>1. \A hs \in SUBSET Hour : p \in [hs -> Reading] =>
        DOMAIN p = hs /\ \A h \in hs : p[h] \in Reading
  OBVIOUS
<1>2. \E hs \in SUBSET Hour : p \in [hs -> Reading]
  BY DEF Parcel
<1> QED  BY <1>1, <1>2

(* Some of the hours of a parcel are a parcel. *)
LEMMA OnlyParcel ==
  ASSUME NEW p \in Parcel, NEW hs \in SUBSET DOMAIN p
  PROVE  /\ Only(hs, p) \in Parcel
         /\ DOMAIN Only(hs, p) = hs
         /\ \A h \in hs : Only(hs, p)[h] = p[h]
<1>1. hs \in SUBSET Hour /\ \A h \in hs : p[h] \in Reading
  BY ParcelParts
<1>2. [h \in hs |-> p[h]] \in [hs -> Reading]
  BY <1>1
<1> QED  BY <1>1, <1>2 DEF Only, Parcel

LEMMA NoHoursParcel == NoHours \in Parcel /\ DOMAIN NoHours = {}
<1>1. NoHours \in [{} -> Reading]
  BY DEF NoHours
<1> QED  BY <1>1 DEF NoHours, Parcel

(* What is known of a request, by its parts. *)
LEMMA RequestParts ==
  ASSUME TypeOK, NEW f \in Flight, flight[f] # NoRequest
  PROVE  /\ flight[f] \in Request
         /\ flight[f].device \in Device
         /\ flight[f].hours \in Parcel
  BY DEF TypeOK, RelayTypeOK, Request

LEMMA SessionParts ==
  ASSUME NEW s \in Sessions
  PROVE  /\ s.device \in Device /\ s.generation \in 1..LastGeneration
         /\ s.revision \in Nat /\ s.deletedBefore \in 0..LastInstant
         /\ s.serial \in 1..LastSerial
         /\ Identity(s) \in Contexts
  BY DEF Sessions, Identity, Contexts

-------------------------------------------------------------------------------
(***************************************************************************)
(* Every step of the Mac, of its user and of the Relay is one that the     *)
(* Relay among arbitrary clients may take, or leaves the Relay alone: a    *)
(* batch goes out under a session that was issued and a generation its     *)
(* device has reached, and the wait for an answer ends like a lost one.    *)
(***************************************************************************)
LEMMA SyncIsAClient == SyncInv /\ [Next]_vars => [RelayNext]_relayVars
<1> SUFFICES ASSUME SyncInv, [Next]_vars PROVE [RelayNext]_relayVars
  OBVIOUS
<1> USE DEF SyncInv
<1>1. CASE Control \/ Context \/ InstallContext \/ Stage \/ WriteOutbox \/ ClearDirty
           \/ StartDrain \/ DropUnsendable
  BY <1>1 DEF Control, Context, InstallContext, Stage, WriteOutbox, ClearDirty, StartDrain,
              DropUnsendable, relayVars
<1>2. CASE SendBatch
  <2>1. CASE ~enabled \/ todo = NoHours \/ ~Active \/ session.generation # snap.generation
    BY <1>2, <2>1 DEF SendBatch, relayVars
  <2>2. CASE ~(~enabled \/ todo = NoHours \/ ~Active \/ session.generation # snap.generation)
    <3>1. PICK f \in Flight :
            Send(f, session.device, session.serial, snap.generation, Only(Batch, todo))
      BY <1>2, <2>2 DEF SendBatch
    <3>2. UNCHANGED <<devices, stored, serial, now>>
      BY <1>2 DEF SendBatch
    <3>3. session \in Sessions /\ session # None /\ snap.generation = session.generation
      BY <2>2 DEF Active, TypeOK
    <3>4. session.device \in Device /\ session.serial \in 1..serial
      BY <3>3, SessionParts DEF SessionStands, TypeOK, RelayTypeOK
    <3>5. snap.generation \in 1..devices[session.device].generation
      <4>1. devices[session.device].generation \in 1..LastGeneration
        BY <3>4 DEF TypeOK, RelayTypeOK, DeviceRow
      <4> QED  BY <3>3, <4>1, SessionParts DEF SessionStands
    <3>6. Only(Batch, todo) \in Parcel
      <4>1. todo \in Parcel /\ Batch \subseteq DOMAIN todo
        BY DEF TypeOK, Batch, Oldest
      <4> QED  BY <4>1, OnlyParcel
    <3>7. AnyUpload(f)
      BY <3>1, <3>2, <3>4, <3>5, <3>6 DEF AnyUpload
    <3> QED  BY <3>7 DEF RelayNext
  <2> QED  BY <2>1, <2>2
<1>3. CASE Answered
  <2>1. awaiting \in Flight
    BY <1>3 DEF Answered, StepsHoldTheirs
  <2>2. GiveUp(awaiting)
    BY <1>3 DEF Answered, GiveUp
  <2> QED  BY <2>1, <2>2 DEF RelayNext
<1>4. CASE Users
  <2>1. ASSUME NEW h \in Hour, NEW r \in Rows, WriteLog(h, r) PROVE [RelayNext]_relayVars
    BY <2>1 DEF WriteLog
  <2>2. ASSUME NEW d \in Device, Login(d) \/ Delete(d) PROVE [RelayNext]_relayVars
    BY <2>2 DEF Login, Delete, RelayNext
  <2>3. CASE ToggleUpload \/ LoseCache \/ Logout \/ CutShort
    BY <2>3 DEF ToggleUpload, LoseCache, Logout, CutShort
  <2>4. CASE TimePasses
    BY <2>4 DEF TimePasses, RelayNext
  <2> QED  BY <1>4, <2>1, <2>2, <2>3, <2>4 DEF Users
<1>5. ASSUME NEW k \in {"full", "usage"}, Scan(k) PROVE [RelayNext]_relayVars
  BY <1>5 DEF Scan
<1>6. ASSUME NEW f \in Flight, RelayHandles(f) \/ Lost(f) PROVE [RelayNext]_relayVars
  BY <1>6 DEF RelayHandles, Lost, GiveUp, RelayNext
<1>7. CASE RevokeArrives
  <2>1. session \in Sessions
    BY <1>7 DEF RevokeArrives, StepsHoldTheirs, TypeOK
  <2>2. Revoke(session.device, session.serial) /\ session.device \in Device
        /\ session.serial \in 1..LastSerial
    BY <1>7, <2>1, SessionParts DEF RevokeArrives
  <2> QED  BY <2>2 DEF RelayNext
<1>8. CASE LogoutAnswered \/ UNCHANGED vars
  BY <1>8 DEF LogoutAnswered, vars
<1> QED
  BY <1>1, <1>2, <1>3, <1>4, <1>5, <1>6, <1>7, <1>8 DEF Next, Refresh

-------------------------------------------------------------------------------
(* Serials and generations only grow, and a watermark moves with its generation. *)
LEMMA RelayGrows ==
  ASSUME RelayTypeOK, RelayTypeOK', [RelayNext]_relayVars
  PROVE  /\ serial <= serial'
         /\ \A d \in Device :
              /\ devices[d].generation <= devices'[d].generation
              /\ devices[d].generation = devices'[d].generation =>
                   devices[d].deletedBefore = devices'[d].deletedBefore
              /\ devices[d].deletedBefore = devices'[d].deletedBefore \/ DeleteDevice(d)
<1> DEFINE Grows ==
      /\ serial <= serial'
      /\ \A d \in Device :
           /\ devices[d].generation <= devices'[d].generation
           /\ devices[d].generation = devices'[d].generation =>
                devices[d].deletedBefore = devices'[d].deletedBefore
           /\ devices[d].deletedBefore = devices'[d].deletedBefore \/ DeleteDevice(d)
<1>0. /\ serial \in Nat
      /\ \A d \in Device : devices[d] \in DeviceRow /\ devices[d].generation \in Nat
  BY DEF RelayTypeOK, DeviceRow
<1>s. UNCHANGED <<devices, serial>> => Grows
  BY <1>0
<1>1. ASSUME NEW f \in Flight, AnyUpload(f) \/ GiveUp(f) \/ Refuse(f) \/ CheckUsage(f)
      PROVE Grows
  BY <1>1, <1>s DEF AnyUpload, GiveUp, Refuse, CheckUsage
<1>2. ASSUME NEW f \in Flight, CommitUsage(f) PROVE Grows
  <2>1. serial' = serial /\ \A d \in Device :
           /\ devices'[d].generation = devices[d].generation
           /\ devices'[d].deletedBefore = devices[d].deletedBefore
    <3>1. CASE UNCHANGED devices
      BY <1>2, <3>1 DEF CommitUsage
    <3>2. CASE devices' = [devices EXCEPT ![flight[f].device].revision = @ + 1]
      BY <1>2, <3>2, <1>0 DEF CommitUsage, RelayTypeOK, DeviceRow
    <3> QED  BY <1>2, <3>1, <3>2 DEF CommitUsage
  <2> QED  BY <2>1, <1>0
<1>3. ASSUME NEW d \in Device, SignIn(d) PROVE Grows
  BY <1>3, <1>0 DEF SignIn, RelayTypeOK, DeviceRow
<1>4. ASSUME NEW d \in Device, DeleteDevice(d) PROVE Grows
  <2>1. serial' = serial /\ devices'[d].generation = devices[d].generation + 1
        /\ \A e \in Device \ {d} : devices'[e] = devices[e]
    BY <1>4 DEF DeleteDevice, RelayTypeOK
  <2> QED  BY <1>4, <2>1, <1>0
<1>5. ASSUME NEW d \in Device, NEW s \in 1..LastSerial, Revoke(d, s) PROVE Grows
  BY <1>5, <1>0 DEF Revoke, RelayTypeOK, DeviceRow
<1>6. CASE Tick
  BY <1>6, <1>s DEF Tick
<1>7. CASE UNCHANGED relayVars
  BY <1>7, <1>s DEF relayVars
<1> QED
  BY <1>1, <1>2, <1>3, <1>4, <1>5, <1>6, <1>7 DEF RelayNext, Handle

-------------------------------------------------------------------------------
LEMMA SyncInit == Init => SyncInv
<1> SUFFICES ASSUME Init PROVE SyncInv
  OBVIOUS
<1>1. RelayInv
  BY InitInv DEF Init
<1>2. TypeOK
  <2>1. /\ RelayTypeOK
        /\ LastVersion \in Nat /\ MaxEvents \in Nat /\ Empty \in Rows /\ NoHours \in Parcel
    BY <1>1, NoHoursParcel DEF RelayInv
  <2>2. facts \in [Hour -> Reading \cup {Nothing}] /\ outbox \in [Hour -> Entry \cup {None}]
    BY DEF Init
  <2>3. logs \in [Hour -> Rows] /\ dirty \in [Hour -> 0..LastVersion]
    BY <2>1 DEF Init
  <2>4. /\ scanVersion \in 0..LastVersion
        /\ events \in 0..MaxEvents
    BY <2>1 DEF Init
  <2>5. context \in Contexts \cup {None} /\ session \in Sessions \cup {None}
        /\ snap \in Sessions \cup {None} /\ awaiting \in Flight \cup {None}
    BY DEF Init
  <2>6. leaving \in BOOLEAN /\ enabled \in BOOLEAN /\ pc \in Steps /\ kind \in {"full", "usage"}
        /\ staged \in Parcel /\ todo \in Parcel
    BY <2>1 DEF Init, Steps
  <2> QED  BY <2>1, <2>2, <2>3, <2>4, <2>5, <2>6 DEF TypeOK
<1>3. StepsHoldTheirs /\ SessionStands
  BY DEF Init, StepsHoldTheirs, SessionStands
<1> QED  BY <1>1, <1>2, <1>3 DEF SyncInv

(* The type of what the Mac keeps: its logs, its two databases and its refresh. *)
MacTypeOK ==
  /\ logs \in [Hour -> Rows]
  /\ facts \in [Hour -> Reading \cup {Nothing}]
  /\ dirty \in [Hour -> 0..LastVersion]
  /\ scanVersion \in 0..LastVersion
  /\ outbox \in [Hour -> Entry \cup {None}]
  /\ context \in Contexts \cup {None}
  /\ session \in Sessions \cup {None}
  /\ leaving \in BOOLEAN /\ enabled \in BOOLEAN
  /\ pc \in Steps
  /\ kind \in {"full", "usage"}
  /\ snap \in Sessions \cup {None}
  /\ staged \in Parcel /\ todo \in Parcel
  /\ awaiting \in Flight \cup {None}
  /\ events \in 0..MaxEvents

LEMMA MacTypes == TypeOK <=> RelayTypeOK /\ MacTypeOK
  BY DEF TypeOK, MacTypeOK

(* Where the Mac's own half of the invariant is not touched, the Relay's growth keeps it. *)
LEMMA SessionStays ==
  ASSUME SyncInv, RelayInv', [RelayNext]_relayVars, UNCHANGED session
  PROVE  SessionStands'
<1>1. RelayTypeOK /\ RelayTypeOK'
  BY DEF SyncInv, RelayInv
<1>2. serial <= serial' /\ serial \in Nat /\ serial' \in Nat
  BY <1>1, RelayGrows DEF RelayTypeOK
<1>3. ASSUME session # None
      PROVE  /\ session.serial <= serial'
             /\ session.generation <= devices'[session.device].generation
  <2>1. session.device \in Device /\ session.serial \in Nat /\ session.generation \in Nat
    BY <1>3, SessionParts DEF SyncInv, TypeOK
  <2>2. /\ devices[session.device].generation \in Nat
        /\ devices'[session.device].generation \in Nat
        /\ devices[session.device].generation <= devices'[session.device].generation
    BY <1>1, <2>1, RelayGrows DEF RelayTypeOK, DeviceRow
  <2> QED  BY <1>2, <1>3, <2>1, <2>2 DEF SyncInv, SessionStands
<1> QED  BY <1>3 DEF SessionStands

MacInv == MacTypeOK /\ StepsHoldTheirs

(* What is known of an hour's facts. *)
LEMMA FactParts ==
  ASSUME TypeOK, NEW h \in Hour
  PROVE  facts[h].version \in 0..LastVersion /\ facts[h].rows \in Rows
<1>1. facts[h] \in Reading \cup {Nothing}
  BY DEF TypeOK
<1> QED  BY <1>1 DEF Reading, Nothing

LEMMA EntryParts ==
  ASSUME TypeOK, NEW h \in Hour, outbox[h] # None
  PROVE  /\ outbox[h].version \in 1..LastVersion /\ outbox[h].rows \in Rows
         /\ outbox[h].device \in Device /\ outbox[h].generation \in 1..LastGeneration
<1>1. outbox[h] \in Entry
  BY DEF TypeOK
<1> QED  BY <1>1 DEF Entry

LEMMA DroppedType ==
  ASSUME TypeOK, NEW hs
  PROVE  Dropped(hs) \in [Hour -> Entry \cup {None}]
  BY DEF TypeOK, Dropped

LEMMA StageTypes ==
  ASSUME SyncInv, Stage PROVE MacInv'
<1> USE DEF SyncInv
<1>1. CASE ~(enabled /\ Active)
  BY <1>1, MacTypes DEF Stage, Goto, MacInv, MacTypeOK, StepsHoldTheirs, Steps, queueVars,
        sessionVars, worldVars
<1>2. CASE enabled /\ Active
  <2> DEFINE first == FirstHour(session)
             marked == {h \in Hour : dirty[h] # 0 /\ h >= first /\ h < CompleteUntil}
             batch == Oldest(MaxStaged, marked)
  <2>1. /\ dirty' = [h \in Hour |-> IF h < first THEN 0 ELSE dirty[h]]
        /\ staged' = [h \in batch |-> [version |-> dirty[h], rows |-> facts[h].rows]]
        /\ snap' = session
        /\ pc' \in {"drain", "write"} /\ awaiting' = awaiting /\ pc = "stage"
        /\ UNCHANGED <<facts, scanVersion, outbox, context, session, leaving, todo, logs, enabled,
                       events, kind>>
    BY <1>2 DEF Stage, Goto, queueVars, sessionVars, worldVars
  <2>2. batch \in SUBSET Hour /\ \A h \in batch : dirty[h] \in 1..LastVersion
    BY DEF Oldest, TypeOK
  <2>3. \A h \in batch : [version |-> dirty[h], rows |-> facts[h].rows] \in Reading
    BY <2>2, FactParts DEF Reading
  <2>4. [h \in batch |-> [version |-> dirty[h], rows |-> facts[h].rows]] \in [batch -> Reading]
    BY <2>3
  <2>5. staged' \in Parcel
    BY <2>1, <2>2, <2>4 DEF Parcel
  <2>6. dirty' \in [Hour -> 0..LastVersion]
    BY <2>1 DEF TypeOK
  <2>7. snap' \in Sessions \cup {None} /\ snap' # None /\ pc' \in Steps
    BY <1>2, <2>1 DEF TypeOK, Active, Steps
  <2>8. MacTypeOK'
    BY <2>1, <2>5, <2>6, <2>7 DEF TypeOK, MacTypeOK
  <2> QED  BY <2>1, <2>7, <2>8 DEF MacInv, StepsHoldTheirs
<1> QED  BY <1>1, <1>2

LEMMA ScanTypes ==
  ASSUME SyncInv, NEW k \in {"full", "usage"}, Scan(k) PROVE MacInv'
<1> USE DEF SyncInv
<1>0. /\ scanVersion' = scanVersion + 1 /\ scanVersion' \in 1..LastVersion
      /\ scanVersion' \in 0..LastVersion
      /\ UNCHANGED <<outbox, context, session, leaving, logs, enabled>>
  BY DEF Scan, TypeOK, queueVars, sessionVars
<1>1. PICK unread \in SUBSET Hour :
        /\ unread # {} => "unreadable" \in Mishaps /\ events < MaxEvents
        /\ events' = IF unread # {} THEN events + 1 ELSE events
        /\ LET moved == {h \in Hour \ unread : logs[h] # facts[h].rows}
           IN  /\ facts' = [h \in Hour |->
                    IF h \notin moved THEN facts[h]
                    ELSE IF logs[h] = Empty THEN Nothing
                    ELSE [version |-> scanVersion', rows |-> logs[h]]]
               /\ dirty' = [h \in Hour |-> IF h \in moved THEN scanVersion' ELSE dirty[h]]
  BY DEF Scan
<1>2. events' \in 0..MaxEvents
  BY <1>1 DEF TypeOK
<1>3. \A h \in Hour : [version |-> scanVersion', rows |-> logs[h]] \in Reading
  BY <1>0 DEF Reading, TypeOK
<1>4. facts' \in [Hour -> Reading \cup {Nothing}]
  BY <1>1, <1>3 DEF TypeOK
<1>5. dirty' \in [Hour -> 0..LastVersion]
  BY <1>0, <1>1 DEF TypeOK
<1>6. CASE AfterScan(k)
  <2>1. /\ pc' \in {"control", "context"} /\ kind' = k /\ snap' = session /\ session # None
        /\ UNCHANGED <<staged, todo, awaiting>>
    BY <1>6 DEF Scan, AfterScan, Active
  <2>2. MacTypeOK'
    BY <1>0, <1>2, <1>4, <1>5, <2>1 DEF TypeOK, MacTypeOK, Steps
  <2> QED  BY <1>0, <2>1, <2>2 DEF MacInv, StepsHoldTheirs
<1>7. CASE ~AfterScan(k)
  <2>1. Finish
    BY <1>7 DEF Scan
  <2>2. MacTypeOK'
    BY <1>0, <1>2, <1>4, <1>5, <2>1, NoHoursParcel DEF Finish, TypeOK, MacTypeOK, Steps
  <2> QED  BY <1>0, <2>1, <2>2 DEF Finish, MacInv, StepsHoldTheirs
<1> QED  BY <1>6, <1>7

LEMMA ControlTypes ==
  ASSUME SyncInv, Control PROVE MacInv'
<1> USE DEF SyncInv
<1>0. UNCHANGED <<facts, dirty, scanVersion, outbox, context, logs, enabled, events>>
      /\ pc = "control"
  BY DEF Control, cacheVars, queueVars, worldVars
<1>1. CASE ~Active
  <2>1. Finish /\ UNCHANGED <<session, leaving>>
    BY <1>1 DEF Control, sessionVars
  <2> QED
    BY <1>0, <2>1, NoHoursParcel DEF Finish, TypeOK, MacTypeOK, Steps, MacInv, StepsHoldTheirs
<1>2. CASE Active /\ devices[session.device].session # session.serial
  <2>1. Finish /\ session' = None /\ leaving' = leaving /\ ~leaving
    BY <1>2 DEF Control, Active
  <2>2. MacTypeOK'
    BY <1>0, <2>1, NoHoursParcel DEF Finish, TypeOK, MacTypeOK, Steps
  <2> QED  BY <2>1, <2>2 DEF Finish, MacInv, StepsHoldTheirs
<1>3. CASE Active /\ devices[session.device].session = session.serial
  <2> DEFINE d == devices[session.device]
             new == [session EXCEPT !.generation = d.generation, !.revision = d.revision,
                                    !.deletedBefore = d.deletedBefore]
  <2>1. /\ session' = new /\ leaving' = leaving /\ pc' = "context"
        /\ UNCHANGED <<kind, awaiting, snap, staged, todo>>
    BY <1>3 DEF Control, Goto
  <2>2. session \in Sessions /\ session.device \in Device
    BY <1>3, SessionParts DEF Active, TypeOK
  <2>3. d.generation \in 1..LastGeneration /\ d.revision \in Nat /\ d.deletedBefore \in 0..LastInstant
    BY <2>2 DEF TypeOK, RelayTypeOK, DeviceRow
  <2>4. new \in Sessions
    BY <2>2, <2>3 DEF Sessions
  <2>5. ~leaving
    BY <1>3 DEF Active
  <2> QED
    BY <1>0, <2>1, <2>4, <2>5 DEF TypeOK, MacTypeOK, Steps, MacInv, StepsHoldTheirs
<1> QED  BY <1>1, <1>2, <1>3

LEMMA ContextTypes ==
  ASSUME SyncInv, Context PROVE MacInv'
<1> USE DEF SyncInv
<1> DEFINE source == IF kind = "full" /\ session # None THEN session ELSE snap
<1>0. /\ pc = "context"
      /\ UNCHANGED <<facts, scanVersion, context, session, leaving, logs, enabled, events>>
  BY DEF Context, sessionVars, worldVars
<1>1. snap # None /\ source # None /\ source \in Sessions
  BY <1>0 DEF StepsHoldTheirs, TypeOK
<1>2. CASE Finish /\ UNCHANGED <<dirty, outbox>>
  <2>1. UNCHANGED <<dirty, outbox, facts, scanVersion, context, session, leaving, logs, enabled,
                    events>>
    BY <1>0, <1>2
  <2>2. MacTypeOK'
    BY <1>2, <2>1, NoHoursParcel DEF Finish, TypeOK, MacTypeOK, Steps
  <2> QED  BY <1>2, <2>1, <2>2 DEF Finish, MacInv, StepsHoldTheirs
<1>3. CASE /\ outbox' = [h \in Hour |-> IF Owned(outbox[h], source) THEN outbox[h] ELSE None]
           /\ Goto("stage")
           /\ UNCHANGED <<dirty, snap, staged, todo>>
  <2>1. outbox' \in [Hour -> Entry \cup {None}]
    BY <1>3 DEF TypeOK
  <2> QED  BY <1>0, <1>1, <1>3, <2>1 DEF Goto, TypeOK, MacTypeOK, Steps, MacInv, StepsHoldTheirs
<1>4. CASE /\ dirty' = Reseed(source)
           /\ snap' = source
           /\ Goto("install")
           /\ UNCHANGED <<outbox, staged, todo>>
  <2>1. dirty' \in [Hour -> 0..LastVersion]
    BY <1>4, FactParts DEF Reseed
  <2>2. snap' \in Sessions /\ snap' # None
    BY <1>1, <1>4
  <2> QED  BY <1>0, <1>4, <2>1, <2>2 DEF Goto, TypeOK, MacTypeOK, Steps, MacInv, StepsHoldTheirs
<1> QED  BY <1>2, <1>3, <1>4 DEF Context

LEMMA QueueTypes ==
  ASSUME SyncInv, InstallContext \/ WriteOutbox \/ ClearDirty PROVE MacInv'
<1> USE DEF SyncInv
<1>1. CASE InstallContext
  <2>1. snap # None /\ Identity(snap) \in Contexts
    BY <1>1, SessionParts DEF InstallContext, StepsHoldTheirs, TypeOK
  <2>2. outbox' \in [Hour -> Entry \cup {None}]
    BY <1>1 DEF InstallContext
  <2> QED
    BY <1>1, <2>1, <2>2 DEF InstallContext, Goto, TypeOK, MacTypeOK, Steps, MacInv, StepsHoldTheirs,
          cacheVars, sessionVars, worldVars
<1>2. CASE WriteOutbox
  <2>0. /\ pc = "write" /\ snap # None /\ snap \in Sessions
        /\ UNCHANGED <<facts, dirty, scanVersion, context, session, leaving, logs, enabled, events>>
    BY <1>2 DEF WriteOutbox, cacheVars, sessionVars, worldVars, StepsHoldTheirs, TypeOK
  <2>1. CASE ~Active \/ session.serial # snap.serial
    <3>1. Finish /\ UNCHANGED outbox
      BY <1>2, <2>1 DEF WriteOutbox
    <3> QED
      BY <2>0, <3>1, NoHoursParcel DEF Finish, TypeOK, MacTypeOK, Steps, MacInv, StepsHoldTheirs
  <2>2. CASE ~(~Active \/ session.serial # snap.serial)
    <3> DEFINE put(h) == [version |-> staged[h].version, rows |-> staged[h].rows,
                          device |-> snap.device, generation |-> snap.generation]
    <3>1. /\ outbox' = (IF ~enabled THEN outbox
                        ELSE [h \in Hour |-> IF h \notin DOMAIN staged THEN outbox[h] ELSE put(h)])
          /\ pc' \in {"clear", "drain"}
          /\ UNCHANGED <<kind, awaiting, snap, staged, todo>>
      BY <1>2, <2>2 DEF WriteOutbox, Goto
    <3>2. staged \in Parcel
      BY DEF TypeOK
    <3>3. \A h \in DOMAIN staged : staged[h].version \in 1..LastVersion /\ staged[h].rows \in Rows
      BY <3>2, ParcelParts DEF Reading
    <3>4. \A h \in DOMAIN staged : put(h) \in Entry
      BY <2>0, <3>3, SessionParts DEF Entry
    <3>5. outbox' \in [Hour -> Entry \cup {None}]
      BY <3>1, <3>4 DEF TypeOK
    <3>6. pc' \in Steps /\ pc' # "await"
      BY <3>1 DEF Steps
    <3>7. MacTypeOK'
      BY <2>0, <3>1, <3>5, <3>6 DEF TypeOK, MacTypeOK
    <3> QED  BY <2>0, <3>1, <3>6, <3>7 DEF MacInv, StepsHoldTheirs
  <2> QED  BY <2>1, <2>2
<1>3. CASE ClearDirty
  <2>1. dirty' \in [Hour -> 0..LastVersion]
    BY <1>3 DEF ClearDirty, TypeOK
  <2> QED
    BY <1>3, <2>1, NoHoursParcel DEF ClearDirty, Goto, TypeOK, MacTypeOK, Steps, MacInv, StepsHoldTheirs,
          queueVars, sessionVars, worldVars
<1> QED  BY <1>1, <1>2, <1>3

LEMMA DrainTypes ==
  ASSUME SyncInv, StartDrain \/ DropUnsendable \/ SendBatch \/ Answered PROVE MacInv'
<1> USE DEF SyncInv
<1>1. CASE StartDrain
  <2>0. UNCHANGED <<facts, dirty, scanVersion, outbox, context, session, leaving, logs, enabled, events>>
    BY <1>1 DEF StartDrain, cacheVars, queueVars, sessionVars, worldVars
  <2>1. CASE ~(enabled /\ Active)
    <3>1. Finish
      BY <1>1, <2>1 DEF StartDrain
    <3>2. MacTypeOK'
      BY <2>0, <3>1, NoHoursParcel DEF Finish, TypeOK, MacTypeOK, Steps
    <3> QED  BY <2>0, <3>1, <3>2 DEF Finish, MacInv, StepsHoldTheirs
  <2>2. CASE enabled /\ Active
    <3> DEFINE mine == {h \in Hour : Owned(outbox[h], session)}
               new == [h \in mine |-> [version |-> outbox[h].version, rows |-> outbox[h].rows]]
    <3>1. /\ todo' = new /\ snap' = session /\ staged' = NoHours /\ pc' = "send"
          /\ UNCHANGED <<kind, awaiting>> /\ session # None
      BY <1>1, <2>2 DEF StartDrain, Goto, Active
    <3>2. \A h \in mine : [version |-> outbox[h].version, rows |-> outbox[h].rows] \in Reading
      BY EntryParts DEF Owned, Reading
    <3>3. new \in [mine -> Reading] /\ mine \in SUBSET Hour
      BY <3>2
    <3>4. todo' \in Parcel
      BY <3>1, <3>3 DEF Parcel
    <3>5. MacTypeOK'
      BY <2>0, <3>1, <3>4, NoHoursParcel DEF TypeOK, MacTypeOK, Steps
    <3> QED  BY <2>0, <3>1, <3>5 DEF MacInv, StepsHoldTheirs
  <2> QED  BY <2>1, <2>2
<1>2. CASE DropUnsendable
  <2>1. todo' \in Parcel
    BY <1>2, OnlyParcel DEF DropUnsendable, TypeOK
  <2>2. outbox' \in [Hour -> Entry \cup {None}]
    BY <1>2, DroppedType DEF DropUnsendable
  <2> QED
    BY <1>2, <2>1, <2>2 DEF DropUnsendable, TypeOK, MacTypeOK, MacInv, StepsHoldTheirs,
          cacheVars, sessionVars, worldVars
<1>3. CASE SendBatch
  <2>0. UNCHANGED <<facts, dirty, scanVersion, outbox, context, session, leaving, logs, enabled, events>>
        /\ pc = "send"
    BY <1>3 DEF SendBatch, cacheVars, queueVars, sessionVars, worldVars
  <2>1. CASE Finish
    <3>2. MacTypeOK'
      BY <2>0, <2>1, NoHoursParcel DEF Finish, TypeOK, MacTypeOK, Steps
    <3> QED  BY <2>0, <2>1, <3>2 DEF Finish, MacInv, StepsHoldTheirs
  <2>2. ASSUME NEW f \in Flight, awaiting' = f, pc' = "await", UNCHANGED <<kind, snap, staged, todo>>
        PROVE  MacInv'
    BY <2>0, <2>2 DEF TypeOK, MacTypeOK, Steps, MacInv, StepsHoldTheirs
  <2> QED  BY <1>3, <2>1, <2>2 DEF SendBatch
<1>4. CASE Answered
  <2> DEFINE hs == DOMAIN flight[awaiting].hours
  <2>0. /\ UNCHANGED <<facts, dirty, scanVersion, context, leaving, logs, enabled, events>>
        /\ pc = "await"
    BY <1>4 DEF Answered, cacheVars, worldVars
  <2>1. CASE session' = (IF Active /\ session.serial = flight[awaiting].session THEN None ELSE session)
             /\ Finish /\ UNCHANGED outbox
    <3>1. session' \in Sessions \cup {None} /\ (leaving => session' # None)
      BY <2>1 DEF TypeOK, StepsHoldTheirs, Active
    <3>2. MacTypeOK'
      BY <2>0, <2>1, <3>1, NoHoursParcel DEF Finish, TypeOK, MacTypeOK, Steps
    <3> QED  BY <2>0, <2>1, <3>1, <3>2 DEF Finish, MacInv, StepsHoldTheirs
  <2>2. CASE Finish /\ UNCHANGED <<session, outbox>>
    <3>2. MacTypeOK'
      BY <2>0, <2>2, NoHoursParcel DEF Finish, TypeOK, MacTypeOK, Steps
    <3> QED  BY <2>0, <2>2, <3>2 DEF Finish, MacInv, StepsHoldTheirs
  <2>3. CASE /\ outbox' = Dropped(hs)
             /\ todo' = Only((DOMAIN todo) \ hs, todo)
             /\ pc' = "send" /\ awaiting' = None
             /\ UNCHANGED <<session, kind, snap, staged>>
    <3>1. todo' \in Parcel
      BY <2>3, OnlyParcel DEF TypeOK
    <3>2. outbox' \in [Hour -> Entry \cup {None}]
      BY <2>3, DroppedType
    <3> QED
      BY <2>0, <2>3, <3>1, <3>2 DEF TypeOK, MacTypeOK, Steps, MacInv, StepsHoldTheirs
  <2> QED  BY <1>4, <2>1, <2>2, <2>3 DEF Answered
<1> QED  BY <1>1, <1>2, <1>3, <1>4

LEMMA UserTypes ==
  ASSUME SyncInv, Users PROVE MacInv'
<1> USE DEF SyncInv
<1>1. CASE CutShort
  <2>1. MacTypeOK'
    BY <1>1, NoHoursParcel DEF CutShort, Mishap, Finish, TypeOK, MacTypeOK, Steps, cacheVars, queueVars,
          sessionVars
  <2> QED  BY <1>1, <2>1 DEF CutShort, Finish, MacInv, StepsHoldTheirs, sessionVars
<1>2. ASSUME NEW h \in Hour, NEW r \in Rows, WriteLog(h, r) PROVE MacInv'
  BY <1>2 DEF WriteLog, TypeOK, MacTypeOK, MacInv, StepsHoldTheirs, cacheVars, queueVars, sessionVars,
        laneVars
<1>3. CASE ToggleUpload
  <2>1. enabled' \in BOOLEAN
    BY <1>3 DEF ToggleUpload
  <2> QED
    BY <1>3, <2>1 DEF ToggleUpload, Mishap, TypeOK, MacTypeOK, MacInv, StepsHoldTheirs, cacheVars,
        queueVars, sessionVars, laneVars
<1>4. CASE LoseCache
  <2>1. facts' \in [Hour -> Reading \cup {Nothing}] /\ dirty' \in [Hour -> 0..LastVersion]
    BY <1>4 DEF LoseCache
  <2> QED
    BY <1>4, <2>1 DEF LoseCache, Mishap, TypeOK, MacTypeOK, MacInv, StepsHoldTheirs, queueVars,
        sessionVars, laneVars
<1>5. CASE Logout
  <2>1. leaving' = TRUE /\ session # None
    BY <1>5 DEF Logout, Active
  <2> QED
    BY <1>5, <2>1 DEF Logout, Mishap, TypeOK, MacTypeOK, MacInv, StepsHoldTheirs, cacheVars,
        queueVars, laneVars
<1>6. ASSUME NEW d \in Device, Login(d) PROVE MacInv'
  <2> DEFINE new == [device |-> d, generation |-> devices[d].generation,
                     revision |-> devices[d].revision,
                     deletedBefore |-> devices[d].deletedBefore, serial |-> serial + 1]
  <2>1. session' = new /\ leaving' = FALSE /\ serial + 1 \in 1..LastSerial
    BY <1>6 DEF Login, SignIn, TypeOK, RelayTypeOK
  <2>2. devices[d] \in DeviceRow
    BY DEF TypeOK, RelayTypeOK
  <2>3. new \in Sessions
    BY <2>1, <2>2 DEF Sessions, DeviceRow
  <2> QED
    BY <1>6, <2>1, <2>3 DEF Login, TypeOK, MacTypeOK, MacInv, StepsHoldTheirs, cacheVars, queueVars,
          laneVars, worldVars
<1>7. ASSUME NEW d \in Device, Delete(d) PROVE MacInv'
  BY <1>7 DEF Delete, Mishap, TypeOK, MacTypeOK, MacInv, StepsHoldTheirs, cacheVars, queueVars,
        sessionVars, laneVars
<1>8. CASE TimePasses
  BY <1>8 DEF TimePasses, TypeOK, MacTypeOK, MacInv, StepsHoldTheirs, cacheVars, queueVars,
        sessionVars, laneVars, worldVars
<1> QED  BY <1>1, <1>2, <1>3, <1>4, <1>5, <1>6, <1>7, <1>8 DEF Users

LEMMA MacStep == SyncInv /\ [Next]_vars => MacInv'
<1> SUFFICES ASSUME SyncInv, [Next]_vars PROVE MacInv'
  OBVIOUS
<1>1. ASSUME NEW f \in Flight, RelayHandles(f) \/ Lost(f) PROVE MacInv'
  BY <1>1 DEF SyncInv, RelayHandles, Lost, TypeOK, MacTypeOK, MacInv, StepsHoldTheirs, cacheVars,
        queueVars, sessionVars, laneVars, worldVars
<1>2. CASE RevokeArrives
  BY <1>2 DEF SyncInv, RevokeArrives, TypeOK, MacTypeOK, MacInv, StepsHoldTheirs, cacheVars,
        queueVars, sessionVars, laneVars, worldVars
<1>3. CASE LogoutAnswered
  BY <1>3 DEF SyncInv, LogoutAnswered, TypeOK, MacTypeOK, MacInv, StepsHoldTheirs, cacheVars,
        queueVars, laneVars, worldVars
<1>4. CASE UNCHANGED vars
  BY <1>4 DEF SyncInv, vars, TypeOK, MacTypeOK, MacInv, StepsHoldTheirs, cacheVars,
        queueVars, sessionVars, laneVars, worldVars
<1> QED
  BY <1>1, <1>2, <1>3, <1>4, StageTypes, ScanTypes, ControlTypes, ContextTypes, QueueTypes,
     DrainTypes, UserTypes DEF Next, Refresh

(* A session that is written is one the Relay issued or described at that moment. *)
LEMMA SessionMoves ==
  ASSUME SyncInv, [Next]_vars, session' # None
  PROVE  \/ UNCHANGED session
         \/ /\ session'.device \in Device
            /\ session'.generation = devices'[session'.device].generation
            /\ session'.deletedBefore = devices'[session'.device].deletedBefore
            /\ session'.serial <= serial'
<1> DEFINE Moves ==
      \/ UNCHANGED session
      \/ /\ session'.device \in Device
         /\ session'.generation = devices'[session'.device].generation
         /\ session'.deletedBefore = devices'[session'.device].deletedBefore
         /\ session'.serial <= serial'
<1>0. TypeOK /\ RelayTypeOK
  BY DEF SyncInv, TypeOK
<1>1. CASE Control /\ session' # session
  <2> DEFINE d == devices[session.device]
  <2>1. /\ session' = [session EXCEPT !.generation = d.generation, !.revision = d.revision,
                                      !.deletedBefore = d.deletedBefore]
        /\ UNCHANGED <<devices, serial>> /\ session # None
    BY <1>1 DEF Control, Active, sessionVars, relayVars
  <2>2. session \in Sessions /\ session.device \in Device /\ session.serial <= serial
    BY <1>0, <2>1, SessionParts DEF TypeOK, SyncInv, SessionStands
  <2>3. /\ session'.device = session.device /\ session'.serial = session.serial
        /\ session'.generation = d.generation /\ session'.deletedBefore = d.deletedBefore
    BY <2>1, <2>2 DEF Sessions
  <2> QED  BY <2>1, <2>2, <2>3
<1>2. ASSUME NEW d \in Device, Login(d) PROVE Moves
  <2>1. devices' = [devices EXCEPT ![d].session = serial + 1, ![d].present = TRUE]
        /\ serial' = serial + 1
    BY <1>2 DEF Login, SignIn
  <2>2. devices'[d].generation = devices[d].generation /\ serial \in Nat
        /\ devices'[d].deletedBefore = devices[d].deletedBefore
    BY <1>0, <2>1 DEF RelayTypeOK, DeviceRow
  <2>3. session'.device = d /\ session'.generation = devices[d].generation
        /\ session'.deletedBefore = devices[d].deletedBefore /\ session'.serial = serial + 1
    BY <1>2 DEF Login
  <2> QED  BY <2>1, <2>2, <2>3
<1>3. CASE Answered \/ LogoutAnswered
  BY <1>3 DEF Answered, LogoutAnswered
<1>4. CASE Context \/ InstallContext \/ Stage \/ WriteOutbox \/ ClearDirty \/ StartDrain
           \/ DropUnsendable \/ SendBatch
  BY <1>4 DEF Context, InstallContext, Stage, WriteOutbox, ClearDirty, StartDrain,
              DropUnsendable, SendBatch, sessionVars
<1>5. CASE \/ \E h \in Hour, r \in Rows : WriteLog(h, r)
           \/ \E d \in Device : Delete(d)
           \/ ToggleUpload \/ LoseCache \/ Logout \/ CutShort \/ TimePasses
  BY <1>5 DEF WriteLog, Delete, ToggleUpload, LoseCache, Logout, CutShort, TimePasses, sessionVars
<1>6. CASE \/ \E k \in {"full", "usage"} : Scan(k)
           \/ \E f \in Flight : RelayHandles(f) \/ Lost(f)
           \/ RevokeArrives \/ UNCHANGED vars
  BY <1>6 DEF Scan, RelayHandles, Lost, RevokeArrives, vars, sessionVars
<1> QED
  BY <1>1, <1>2, <1>3, <1>4, <1>5, <1>6 DEF Next, Refresh, Users

LEMMA SessionStep == SyncInv /\ RelayInv' /\ [Next]_vars => SessionStands'
<1> SUFFICES ASSUME SyncInv, RelayInv', [Next]_vars PROVE SessionStands'
  OBVIOUS
<1>1. CASE UNCHANGED session
  BY <1>1, SyncIsAClient, SessionStays DEF SyncInv
<1>2. CASE session' # None /\ session' # session
  <2>1. devices'[session'.device].generation \in Nat /\ session'.serial <= serial'
        /\ session'.generation = devices'[session'.device].generation
    BY <1>2, SessionMoves DEF RelayInv, RelayTypeOK, DeviceRow
  <2> QED  BY <2>1 DEF SessionStands
<1> QED  BY <1>1, <1>2 DEF SessionStands

LEMMA SyncStep == SyncInv /\ [Next]_vars => SyncInv'
<1> SUFFICES ASSUME SyncInv, [Next]_vars PROVE SyncInv'
  OBVIOUS
<1>1. RelayInv'
  BY SyncIsAClient, InvStep DEF SyncInv
<1>2. MacTypeOK' /\ StepsHoldTheirs'
  BY MacStep DEF MacInv
<1>3. SessionStands'
  BY <1>1, SessionStep
<1>4. TypeOK'
  BY <1>1, <1>2 DEF RelayInv, TypeOK, MacTypeOK
<1> QED  BY <1>1, <1>2, <1>3, <1>4 DEF SyncInv

THEOREM SyncInvariant == SafetySpec => []SyncInv
  BY SyncInit, SyncStep, PTL DEF SafetySpec

(* Every variable of the upload keeps the type the code gives it. *)
THEOREM SyncTypes == SafetySpec => []TypeOK
<1>1. SyncInv => TypeOK
  BY DEF SyncInv
<1> QED  BY <1>1, SyncInvariant, PTL

(* The Mac, its user and the Relay together do what the Relay does among any clients. *)
THEOREM SyncImplementsRelay == SafetySpec => RelaySpec
<1>1. Init => RelayInit
  BY DEF Init
<1> QED  BY <1>1, SyncIsAClient, SyncInvariant, PTL DEF SafetySpec, RelaySpec

(* So the Relay keeps its ledger while a Mac uploads to it ... *)
THEOREM SyncKeepsTheLedger == SafetySpec => KeepsItsLedger
  BY SyncImplementsRelay, RelayKeepsItsLedger, PTL

(* ... and what was deleted stays deleted. *)
THEOREM SyncDeletionLasts == SafetySpec => []DeletedStaysDeleted
  BY SyncImplementsRelay, DeletionLasts, PTL

-------------------------------------------------------------------------------
(* Which operations write which piece of state. *)
LEMMA WhoWrites ==
  ASSUME [Next]_vars
  PROVE  /\ UNCHANGED <<facts, scanVersion>> \/ LoseCache \/ \E k \in {"full", "usage"} : Scan(k)
         /\ UNCHANGED dirty \/ LoseCache \/ Context \/ Stage \/ ClearDirty
              \/ \E k \in {"full", "usage"} : Scan(k)
         /\ UNCHANGED outbox \/ Context \/ InstallContext \/ WriteOutbox \/ DropUnsendable \/ Answered
         /\ UNCHANGED staged \/ staged' = NoHours \/ Stage
         /\ UNCHANGED todo \/ todo' = NoHours \/ StartDrain \/ DropUnsendable \/ Answered
         /\ UNCHANGED flight \/ SendBatch \/ Answered
              \/ \E f \in Flight : RelayHandles(f) \/ Lost(f)
         /\ UNCHANGED stored \/ (\E f \in Flight : RelayHandles(f)) \/ \E d \in Device : Delete(d)
<1> DEFINE Writes ==
      /\ UNCHANGED <<facts, scanVersion>> \/ LoseCache \/ \E k \in {"full", "usage"} : Scan(k)
      /\ UNCHANGED dirty \/ LoseCache \/ Context \/ Stage \/ ClearDirty
           \/ \E k \in {"full", "usage"} : Scan(k)
      /\ UNCHANGED outbox \/ Context \/ InstallContext \/ WriteOutbox \/ DropUnsendable \/ Answered
      /\ UNCHANGED staged \/ staged' = NoHours \/ Stage
      /\ UNCHANGED todo \/ todo' = NoHours \/ StartDrain \/ DropUnsendable \/ Answered
      /\ UNCHANGED flight \/ SendBatch \/ Answered
           \/ \E f \in Flight : RelayHandles(f) \/ Lost(f)
      /\ UNCHANGED stored \/ (\E f \in Flight : RelayHandles(f)) \/ \E d \in Device : Delete(d)
<1> USE DEF relayVars, cacheVars, queueVars, sessionVars, laneVars, worldVars, Goto, Finish
<1>1. CASE Control \/ StartDrain \/ DropUnsendable
  BY <1>1 DEF Control, StartDrain, DropUnsendable
<1>2. CASE Context \/ InstallContext
  BY <1>2 DEF Context, InstallContext
<1>3. CASE Stage \/ WriteOutbox \/ ClearDirty
  BY <1>3 DEF Stage, WriteOutbox, ClearDirty
<1>4. CASE SendBatch
  BY <1>4 DEF SendBatch
<1>5. CASE Answered
  BY <1>5 DEF Answered
<1>6. ASSUME NEW k \in {"full", "usage"}, Scan(k) PROVE Writes
  BY <1>6 DEF Scan
<1>7. CASE (\E h \in Hour, r \in Rows : WriteLog(h, r)) \/ ToggleUpload \/ Logout \/ CutShort
  BY <1>7 DEF WriteLog, ToggleUpload, Logout, CutShort
<1>8. CASE LoseCache \/ TimePasses
  BY <1>8 DEF LoseCache, TimePasses, Tick
<1>9. ASSUME NEW d \in Device, Login(d) \/ Delete(d) PROVE Writes
  BY <1>9 DEF Login, SignIn, Delete, DeleteDevice
<1>10. ASSUME NEW f \in Flight, RelayHandles(f) \/ Lost(f) PROVE Writes
  <2>1. CASE Lost(f)
    BY <2>1 DEF Lost
  <2>2. CASE RelayHandles(f)
    BY <2>2 DEF RelayHandles
  <2> QED  BY <1>10, <2>1, <2>2
<1>11. CASE RevokeArrives \/ LogoutAnswered \/ UNCHANGED vars
  BY <1>11 DEF RevokeArrives, Revoke, LogoutAnswered, vars
<1> QED
  BY <1>1, <1>2, <1>3, <1>4, <1>5, <1>6, <1>7, <1>8, <1>9, <1>10, <1>11 DEF Next, Refresh, Users

(* A queue entry is kept, dropped, or one of the hours read out of the cache. *)
LEMMA OutboxStep ==
  ASSUME SyncInv, [Next]_vars, NEW h \in Hour, outbox'[h] # None
  PROVE  \/ outbox'[h] = outbox[h]
         \/ /\ h \in DOMAIN staged /\ snap # None /\ UNCHANGED staged
            /\ outbox'[h].version = staged[h].version /\ outbox'[h].rows = staged[h].rows
            /\ outbox'[h].device = snap.device /\ outbox'[h].generation = snap.generation
<1>1. CASE Context \/ InstallContext \/ DropUnsendable \/ Answered
  <2>1. CASE Context
    BY <2>1 DEF Context
  <2>2. CASE InstallContext
    BY <2>2 DEF InstallContext
  <2>3. CASE DropUnsendable \/ Answered
    BY <2>3 DEF DropUnsendable, Answered, Dropped
  <2> QED  BY <1>1, <2>1, <2>2, <2>3
<1>2. CASE WriteOutbox /\ outbox' # outbox
  <2>1. outbox' = [g \in Hour |->
                     IF g \notin DOMAIN staged THEN outbox[g]
                     ELSE [version |-> staged[g].version, rows |-> staged[g].rows,
                           device |-> snap.device, generation |-> snap.generation]]
    BY <1>2 DEF WriteOutbox
  <2>2. snap # None /\ UNCHANGED staged
    BY <1>2 DEF SyncInv, StepsHoldTheirs, WriteOutbox
  <2> QED  BY <2>1, <2>2
<1> QED  BY <1>1, <1>2, WhoWrites

(* What a refresh reads out of the cache are marked hours with their rows of that moment. *)
LEMMA StagedStep ==
  ASSUME SyncInv, [Next]_vars, NEW h \in DOMAIN staged'
  PROVE  \/ UNCHANGED staged
         \/ /\ session # None /\ snap' = session /\ h \in Hour
            /\ dirty[h] # 0 /\ h >= FirstHour(session)
            /\ staged'[h].version = dirty[h] /\ staged'[h].rows = facts[h].rows
<1>1. staged' # NoHours
  BY NoHoursParcel
<1>2. CASE Stage /\ staged' # staged
  <2> DEFINE batch == Oldest(MaxStaged, {g \in Hour : /\ dirty[g] # 0
                                                     /\ g >= FirstHour(session)
                                                     /\ g < CompleteUntil})
  <2>1. /\ staged' = [g \in batch |-> [version |-> dirty[g], rows |-> facts[g].rows]]
        /\ snap' = session /\ session # None
    BY <1>2 DEF Stage, Active
  <2>2. \A g \in batch : g \in Hour /\ dirty[g] # 0 /\ g >= FirstHour(session)
    BY DEF Oldest
  <2> QED  BY <2>1, <2>2
<1> QED  BY <1>1, <1>2, WhoWrites

(* What a drain has to send is what it had, or entries of its session's identity. *)
LEMMA TodoStep ==
  ASSUME SyncInv, [Next]_vars, NEW h \in DOMAIN todo'
  PROVE  \/ h \in DOMAIN todo /\ todo'[h] = todo[h]
         \/ /\ session # None /\ snap' = session /\ h \in Hour
            /\ Owned(outbox[h], session)
            /\ todo'[h].version = outbox[h].version /\ todo'[h].rows = outbox[h].rows
<1>1. todo' # NoHours
  BY NoHoursParcel
<1>2. CASE StartDrain
  <2>1. /\ todo' = [g \in {g \in Hour : Owned(outbox[g], session)} |->
                      [version |-> outbox[g].version, rows |-> outbox[g].rows]]
        /\ snap' = session /\ session # None
    BY <1>1, <1>2 DEF StartDrain, Finish, Active
  <2> QED  BY <2>1
<1>3. CASE DropUnsendable \/ Answered
  <2>1. UNCHANGED todo \/ \E hs \in SUBSET DOMAIN todo : todo' = Only(hs, todo)
    BY <1>1, <1>3 DEF DropUnsendable, Answered, Finish
  <2> QED  BY <2>1 DEF Only
<1> QED  BY <1>1, <1>2, <1>3, WhoWrites

(* A request keeps its hours; a new one carries what the drain has to send. *)
LEMMA FlightStep ==
  ASSUME SyncInv, [Next]_vars, NEW f \in Flight, flight'[f] # NoRequest
  PROVE  \/ /\ flight[f] # NoRequest
            /\ flight'[f].hours = flight[f].hours /\ flight'[f].device = flight[f].device
            /\ flight'[f].generation = flight[f].generation
         \/ /\ SendBatch /\ session # None /\ snap # None
            /\ UNCHANGED <<todo, snap, session, devices>> /\ pc' = "await" /\ awaiting' = f
            /\ flight'[f].hours = Only(Batch, todo) /\ Batch \subseteq DOMAIN todo
            /\ flight'[f].device = session.device /\ flight'[f].generation = snap.generation
<1>t. flight \in [Flight -> Request \cup {NoRequest}]
  BY DEF SyncInv, TypeOK, RelayTypeOK
<1>1. CASE SendBatch /\ flight' # flight
  <2>1. PICK g \in Flight :
          /\ Send(g, session.device, session.serial, snap.generation, Only(Batch, todo))
          /\ awaiting' = g /\ pc' = "await" /\ UNCHANGED <<snap, todo>>
    BY <1>1 DEF SendBatch, Finish
  <2>2. session # None /\ snap # None /\ UNCHANGED <<session, devices>>
    BY <1>1 DEF SendBatch, Finish, Active, SyncInv, StepsHoldTheirs, sessionVars
  <2>3. Batch \subseteq DOMAIN todo
    BY DEF Batch, Oldest
  <2> QED  BY <1>1, <1>t, <2>1, <2>2, <2>3 DEF Send
<1>2. CASE Answered
  BY <1>2, <1>t DEF Answered, Forget
<1>3. ASSUME NEW g \in Flight, Lost(g)
      PROVE  flight[f] # NoRequest /\ flight'[f] = flight[f]
  BY <1>3, <1>t DEF Lost, Forget
<1>4. ASSUME NEW g \in Flight, RelayHandles(g)
      PROVE  /\ flight[f] # NoRequest
             /\ flight'[f].hours = flight[f].hours /\ flight'[f].device = flight[f].device
             /\ flight'[f].generation = flight[f].generation
  <2>1. flight[g] # NoRequest
    BY <1>4 DEF RelayHandles, Handle, Refuse, CheckUsage, CommitUsage, NoRequest
  <2>2. flight[g] \in Request
    BY <2>1, <1>t
  <2>3. \/ \E a : flight' = [flight EXCEPT ![g].stage = "answered", ![g].answer = a]
        \/ flight' = [flight EXCEPT ![g].stage = "checked", ![g].accepted = Newer(g)]
    BY <1>4 DEF RelayHandles, Handle, Refuse, CheckUsage, CommitUsage, Answer
  <2>4. CASE f = g
    BY <1>t, <2>1, <2>2, <2>3, <2>4 DEF Request
  <2>5. CASE f # g
    BY <1>t, <2>3, <2>5
  <2> QED  BY <2>4, <2>5
<1> QED  BY <1>1, <1>2, <1>3, <1>4, WhoWrites

(* What the Account holds is what it held, nothing, or what a current upload brought. *)
LEMMA StoredStep ==
  ASSUME SyncInv, [Next]_vars, NEW d \in Device, NEW h \in Hour
  PROVE  \/ stored'[d][h] = stored[d][h]
         \/ stored'[d][h] = Nothing
         \/ \E f \in Flight :
              /\ flight[f] # NoRequest /\ flight[f].device = d
              /\ h \in DOMAIN flight[f].hours /\ stored'[d][h] = flight[f].hours[h]
              /\ flight[f].generation = devices[d].generation
              /\ devices'[d].generation = devices[d].generation
<1>t. /\ stored \in [Device -> [Hour -> Reading \cup {Nothing}]]
      /\ devices \in [Device -> DeviceRow]
      /\ AcceptedWasSent
  BY DEF SyncInv, TypeOK, RelayTypeOK, RelayInv
<1>1. ASSUME NEW e \in Device, Delete(e)
      PROVE  stored'[d][h] = stored[d][h] \/ stored'[d][h] = Nothing
  BY <1>1, <1>t DEF Delete, DeleteDevice
<1>2. ASSUME NEW f \in Flight, RelayHandles(f), stored' # stored, stored'[d][h] # stored[d][h]
      PROVE  /\ flight[f] # NoRequest /\ flight[f].device = d
             /\ h \in DOMAIN flight[f].hours /\ stored'[d][h] = flight[f].hours[h]
             /\ flight[f].generation = devices[d].generation
             /\ devices'[d].generation = devices[d].generation
  <2> DEFINE e == flight[f].device
             Written == {g \in flight[f].accepted : NoNewerScan(f, g)}
  <2>1. /\ flight[f].stage = "checked" /\ flight[f].generation = devices[e].generation
        /\ stored' = [stored EXCEPT ![e] =
             [g \in Hour |-> IF g \in Written THEN flight[f].hours[g] ELSE @[g]]]
        /\ devices' = [devices EXCEPT ![e].revision = @ + 1]
    BY <1>2 DEF RelayHandles, Handle, Refuse, CheckUsage, CommitUsage, DeviceIsCurrent
  <2>2. flight[f] # NoRequest
    BY <2>1 DEF NoRequest
  <2>3. e \in Device
    BY <2>2, RequestParts DEF SyncInv
  <2>4. d = e /\ h \in Written /\ stored'[d][h] = flight[f].hours[h]
    BY <1>t, <1>2, <2>1, <2>3
  <2>5. h \in DOMAIN flight[f].hours
    BY <1>t, <2>2, <2>4, <2>1 DEF AcceptedWasSent, Asked
  <2>6. devices'[d].generation = devices[d].generation
    BY <1>t, <2>1, <2>3 DEF DeviceRow
  <2> QED  BY <2>1, <2>2, <2>4, <2>5, <2>6
<1> QED  BY <1>1, <1>2, WhoWrites

(* Outside of a scan the facts stay or are lost, and so does the counter of the scans. *)
LEMMA FactsStep ==
  ASSUME [Next]_vars, \A k \in {"full", "usage"} : ~Scan(k), NEW h \in Hour
  PROVE  /\ scanVersion' = scanVersion
         /\ facts'[h] = facts[h] \/ (facts'[h] = Nothing /\ dirty'[h] = 0)
  BY WhoWrites DEF LoseCache

(* A mark made outside of a scan is the version of the facts. *)
LEMMA DirtyStep ==
  ASSUME SyncInv, [Next]_vars, \A k \in {"full", "usage"} : ~Scan(k), NEW h \in Hour
  PROVE  \/ dirty'[h] = 0
         \/ facts'[h] = facts[h] /\ dirty'[h] \in {dirty[h], facts[h].version}
<1>1. CASE dirty' = dirty
  BY <1>1, FactsStep
<1>2. CASE LoseCache
  BY <1>2 DEF LoseCache
<1>3. CASE Context
  BY <1>3 DEF Context, Reseed
<1>4. CASE Stage
  BY <1>4 DEF Stage
<1>5. CASE ClearDirty
  BY <1>5 DEF ClearDirty, cacheVars
<1> QED  BY <1>1, <1>2, <1>3, <1>4, <1>5, WhoWrites

-------------------------------------------------------------------------------
(***************************************************************************)
(* One version, one reading.  Every copy that is made is of a copy that    *)
(* was there, except by a scan, whose version nothing has had before.      *)
(***************************************************************************)
LEMMA CopiesOnly ==
  ASSUME SyncInv, [Next]_vars, \A k \in {"full", "usage"} : ~Scan(k),
         NEW h \in Hour, NEW v \in 0..LastVersion, NEW r \in Rows, Occurs(h, v, r)'
  PROVE  Occurs(h, v, r) \/ (v = 0 /\ r = Empty)
<1>f. facts'[h] = facts[h] \/ (facts'[h] = Nothing /\ dirty'[h] = 0)
  BY FactsStep
<1>1. CASE facts'[h].version = v /\ facts'[h].rows = r
  BY <1>1, <1>f DEF Occurs, Nothing
<1>2. CASE dirty'[h] = v /\ v # 0 /\ facts'[h].rows = r
  BY <1>2, DirtyStep DEF Occurs
<1>3. CASE outbox'[h] # None /\ outbox'[h].version = v /\ outbox'[h].rows = r
  BY <1>3, OutboxStep DEF Occurs
<1>4. CASE h \in DOMAIN staged' /\ staged'[h].version = v /\ staged'[h].rows = r
  BY <1>4, StagedStep DEF Occurs
<1>5. CASE h \in DOMAIN todo' /\ todo'[h].version = v /\ todo'[h].rows = r
  BY <1>5, TodoStep DEF Occurs, Owned
<1>6. CASE \E f \in Flight : /\ flight'[f] # NoRequest /\ h \in DOMAIN flight'[f].hours
                             /\ flight'[f].hours[h].version = v /\ flight'[f].hours[h].rows = r
  <2>1. PICK f \in Flight : /\ flight'[f] # NoRequest /\ h \in DOMAIN flight'[f].hours
                            /\ flight'[f].hours[h].version = v /\ flight'[f].hours[h].rows = r
    BY <1>6
  <2>2. CASE flight[f] # NoRequest /\ flight'[f].hours = flight[f].hours
    BY <2>1, <2>2 DEF Occurs
  <2>3. CASE flight'[f].hours = Only(Batch, todo) /\ Batch \subseteq DOMAIN todo
    <3>1. h \in DOMAIN todo /\ flight'[f].hours[h] = todo[h]
      BY <2>1, <2>3 DEF Only
    <3> QED  BY <2>1, <3>1 DEF Occurs
  <2> QED  BY <2>1, <2>2, <2>3, FlightStep
<1>7. CASE \E d \in Device : stored'[d][h].version = v /\ stored'[d][h].rows = r
  <2>1. PICK d \in Device : stored'[d][h].version = v /\ stored'[d][h].rows = r
    BY <1>7
  <2>2. CASE stored'[d][h] = Nothing
    BY <2>1, <2>2 DEF Nothing
  <2>3. CASE stored'[d][h] = stored[d][h]
    BY <2>1, <2>3 DEF Occurs
  <2>4. CASE \E f \in Flight : /\ flight[f] # NoRequest /\ h \in DOMAIN flight[f].hours
                               /\ stored'[d][h] = flight[f].hours[h]
    BY <2>1, <2>4 DEF Occurs
  <2> QED  BY <2>2, <2>3, <2>4, StoredStep
<1> QED  BY <1>1, <1>2, <1>3, <1>4, <1>5, <1>6, <1>7 DEF Occurs

LEMMA ScanIntroduces ==
  ASSUME SyncInv, NEW k \in {"full", "usage"}, Scan(k),
         NEW h \in Hour, NEW v \in 0..LastVersion, NEW r \in Rows, Occurs(h, v, r)'
  PROVE  \/ Occurs(h, v, r)
         \/ v = 0 /\ r = Empty
         \/ v = scanVersion + 1 /\ r = logs[h]
<1>0. scanVersion' = scanVersion + 1 /\ UNCHANGED <<outbox, stored, flight>>
  BY DEF Scan, queueVars, relayVars
<1>1. PICK unread \in SUBSET Hour :
        LET moved == {g \in Hour \ unread : logs[g] # facts[g].rows}
        IN  /\ facts' = [g \in Hour |->
                 IF g \notin moved THEN facts[g]
                 ELSE IF logs[g] = Empty THEN Nothing
                 ELSE [version |-> scanVersion', rows |-> logs[g]]]
            /\ dirty' = [g \in Hour |-> IF g \in moved THEN scanVersion' ELSE dirty[g]]
  BY DEF Scan
<1>2. \/ facts'[h] = facts[h] /\ dirty'[h] = dirty[h]
      \/ dirty'[h] = scanVersion + 1 /\ logs[h] = Empty /\ facts'[h] = Nothing
      \/ dirty'[h] = scanVersion + 1 /\ facts'[h] = [version |-> scanVersion + 1, rows |-> logs[h]]
  BY <1>0, <1>1
<1>3. CASE \/ facts'[h].version = v /\ facts'[h].rows = r
           \/ dirty'[h] = v /\ v # 0 /\ facts'[h].rows = r
  BY <1>2, <1>3 DEF Occurs, Nothing
<1>4. CASE h \in DOMAIN staged' /\ staged'[h].version = v /\ staged'[h].rows = r
  <2>1. UNCHANGED staged \/ staged' = NoHours
    BY DEF Scan, Finish
  <2> QED  BY <1>4, <2>1, NoHoursParcel DEF Occurs
<1>5. CASE h \in DOMAIN todo' /\ todo'[h].version = v /\ todo'[h].rows = r
  <2>1. UNCHANGED todo \/ todo' = NoHours
    BY DEF Scan, Finish
  <2> QED  BY <1>5, <2>1, NoHoursParcel DEF Occurs
<1> QED  BY <1>0, <1>3, <1>4, <1>5 DEF Occurs

LEMMA VersionsInit == Init => VersionsTell
<1> SUFFICES ASSUME Init, NEW h \in Hour, NEW v \in 0..LastVersion, NEW r \in Rows, Occurs(h, v, r)
             PROVE  v = 0 /\ r = Empty /\ scanVersion = 0
  BY DEF VersionsTell
<1> QED  BY NoHoursParcel DEF Init, RelayInit, Occurs, Nothing

LEMMA VersionsStep == SyncInv /\ VersionsTell /\ [Next]_vars => VersionsTell'
<1> SUFFICES ASSUME SyncInv, VersionsTell, [Next]_vars PROVE VersionsTell'
  OBVIOUS
<1>0. scanVersion \in Nat
  BY DEF SyncInv, TypeOK
<1>1. CASE \A k \in {"full", "usage"} : ~Scan(k)
  <2>1. SUFFICES ASSUME NEW h \in Hour, NEW v \in 0..LastVersion, NEW r \in Rows, Occurs(h, v, r)'
                 PROVE  /\ v <= scanVersion'
                        /\ v = 0 => r = Empty
                        /\ \A q \in Rows : Occurs(h, v, q)' => q = r
    BY DEF VersionsTell
  <2>2. scanVersion' = scanVersion
    BY <1>1, FactsStep
  <2>3. \A q \in Rows : Occurs(h, v, q)' => Occurs(h, v, q) \/ (v = 0 /\ q = Empty)
    BY <1>1, CopiesOnly
  <2> QED  BY <1>0, <2>1, <2>2, <2>3 DEF VersionsTell
<1>2. ASSUME NEW k \in {"full", "usage"}, Scan(k) PROVE VersionsTell'
  <2>1. SUFFICES ASSUME NEW h \in Hour, NEW v \in 0..LastVersion, NEW r \in Rows, Occurs(h, v, r)'
                 PROVE  /\ v <= scanVersion'
                        /\ v = 0 => r = Empty
                        /\ \A q \in Rows : Occurs(h, v, q)' => q = r
    BY DEF VersionsTell
  <2>2. scanVersion' = scanVersion + 1
    BY <1>2 DEF Scan
  <2>3. \A q \in Rows : Occurs(h, v, q)' =>
          \/ Occurs(h, v, q)
          \/ v = 0 /\ q = Empty
          \/ v = scanVersion + 1 /\ q = logs[h]
    BY <1>2, ScanIntroduces
  <2>4. \A q \in Rows : Occurs(h, v, q) => v <= scanVersion /\ (v = 0 => q = Empty)
    BY DEF VersionsTell
  <2>5. \A q \in Rows : Occurs(h, v, q) /\ Occurs(h, v, r) => q = r
    BY DEF VersionsTell
  <2> QED  BY <1>0, <2>1, <2>2, <2>3, <2>4, <2>5
<1> QED  BY <1>1, <1>2

(* What a reader finds of an hour occurs. *)
LEMMA ReadingsOccur ==
  ASSUME SyncInv, NEW h \in Hour, NEW a \in Readings(h)
  PROVE  /\ a.version \in 0..LastVersion /\ a.rows \in Rows
         /\ Occurs(h, a.version, a.rows)
<1> USE DEF SyncInv
<1>1. CASE a = facts[h]
  BY <1>1, FactParts DEF Occurs
<1>2. CASE outbox[h] # None /\ a = [version |-> outbox[h].version, rows |-> outbox[h].rows]
  <2>1. a.version = outbox[h].version /\ a.rows = outbox[h].rows
    BY <1>2
  <2>2. outbox[h].version \in 0..LastVersion /\ outbox[h].rows \in Rows
    BY <1>2, EntryParts
  <2>3. Occurs(h, outbox[h].version, outbox[h].rows)
    BY <1>2, Zenon DEF Occurs
  <2> QED  BY <2>1, <2>2, <2>3
<1>3. ASSUME NEW parcel \in {staged, todo}, h \in DOMAIN parcel, a = parcel[h]
      PROVE  /\ a.version \in 0..LastVersion /\ a.rows \in Rows
             /\ Occurs(h, a.version, a.rows)
  <2>1. parcel \in Parcel
    BY DEF TypeOK
  <2>2. a \in Reading
    BY <1>3, <2>1, ParcelParts
  <2> QED  BY <1>3, <2>2 DEF Reading, Occurs
<1>4. ASSUME NEW f \in Flight, flight[f] # NoRequest, h \in DOMAIN flight[f].hours,
             a = flight[f].hours[h]
      PROVE  /\ a.version \in 0..LastVersion /\ a.rows \in Rows
             /\ Occurs(h, a.version, a.rows)
  <2>1. a \in Reading
    BY <1>4, RequestParts, ParcelParts
  <2> QED  BY <1>4, <2>1 DEF Reading, Occurs
<1>5. ASSUME NEW d \in Device, a = stored[d][h]
      PROVE  /\ a.version \in 0..LastVersion /\ a.rows \in Rows
             /\ Occurs(h, a.version, a.rows)
  <2>1. a \in Reading \cup {Nothing}
    BY <1>5 DEF TypeOK, RelayTypeOK
  <2> QED  BY <1>5, <2>1 DEF Reading, Nothing, Occurs
<1> QED  BY <1>1, <1>2, <1>3, <1>4, <1>5 DEF Readings

(* One version of an hour is one reading of it, wherever a copy of it has got to. *)
THEOREM OneReading == SafetySpec => []OneReadingPerVersion
<1>1. SyncInv /\ VersionsTell => OneReadingPerVersion
  <2> SUFFICES ASSUME SyncInv, VersionsTell, NEW h \in Hour, NEW a \in Readings(h),
                      NEW b \in Readings(h), a.version = b.version
               PROVE  a.rows = b.rows
    BY DEF OneReadingPerVersion
  <2> QED  BY ReadingsOccur DEF VersionsTell
<1>2. SafetySpec => []VersionsTell
  BY VersionsInit, VersionsStep, SyncInvariant, PTL DEF SafetySpec
<1> QED  BY <1>1, <1>2, SyncInvariant, PTL

-------------------------------------------------------------------------------
(***************************************************************************)
(* The hour a deletion fell into.  A Mac names the generation of the       *)
(* session it took an hour up under, and what it knows of a generation is  *)
(* its watermark; a batch that goes out for another device breaks that.    *)
(***************************************************************************)
LEMMA SnapMoves ==
  ASSUME [Next]_vars
  PROVE  \/ UNCHANGED snap
         \/ snap' = None /\ staged' = NoHours /\ todo' = NoHours
         \/ /\ snap' = session
            /\ pc \in {"idle", "context", "stage"} \/ (pc = "drain" /\ staged' = NoHours)
<1> DEFINE Moves ==
      \/ UNCHANGED snap
      \/ snap' = None /\ staged' = NoHours /\ todo' = NoHours
      \/ /\ snap' = session
         /\ pc \in {"idle", "context", "stage"} \/ (pc = "drain" /\ staged' = NoHours)
<1> USE DEF Goto, Finish, laneVars
<1>1. CASE Control \/ StartDrain \/ DropUnsendable
  BY <1>1 DEF Control, StartDrain, DropUnsendable
<1>2. CASE Context \/ InstallContext
  BY <1>2 DEF Context, InstallContext
<1>3. CASE Stage \/ WriteOutbox \/ ClearDirty
  BY <1>3 DEF Stage, WriteOutbox, ClearDirty
<1>4. CASE SendBatch \/ Answered
  BY <1>4 DEF SendBatch, Answered
<1>5. ASSUME NEW k \in {"full", "usage"}, Scan(k) PROVE Moves
  BY <1>5 DEF Scan
<1>6. CASE Users
  BY <1>6 DEF Users, WriteLog, ToggleUpload, Logout, CutShort, LoseCache, TimePasses, Login, Delete
<1>7. CASE \/ \E f \in Flight : RelayHandles(f) \/ Lost(f)
           \/ RevokeArrives \/ LogoutAnswered \/ UNCHANGED vars
  BY <1>7 DEF RelayHandles, Lost, RevokeArrives, LogoutAnswered, vars
<1> QED  BY <1>1, <1>2, <1>3, <1>4, <1>5, <1>6, <1>7 DEF Next, Refresh

LEMMA WhereInit == Init => HoursWhere
  BY NoHoursParcel DEF Init, HoursWhere

LEMMA WhereStep == HoursWhere /\ [Next]_vars => HoursWhere'
<1> SUFFICES ASSUME HoursWhere, [Next]_vars PROVE HoursWhere'
  OBVIOUS
<1> USE NoHoursParcel DEF Goto, laneVars, HoursWhere
<1>f. Finish => HoursWhere'
  BY DEF Finish
<1>1. CASE Control \/ Context \/ InstallContext
  BY <1>1, <1>f DEF Control, Context, InstallContext
<1>2. CASE Stage \/ WriteOutbox \/ ClearDirty
  BY <1>2, <1>f DEF Stage, WriteOutbox, ClearDirty
<1>3. CASE StartDrain
  BY <1>3, <1>f DEF StartDrain
<1>4. CASE DropUnsendable
  BY <1>4 DEF DropUnsendable
<1>5. CASE SendBatch \/ Answered
  BY <1>5, <1>f DEF SendBatch, Answered
<1>6. ASSUME NEW k \in {"full", "usage"}, Scan(k) PROVE HoursWhere'
  BY <1>6, <1>f DEF Scan
<1>7. CASE Users
  BY <1>7, <1>f DEF Users, WriteLog, ToggleUpload, Logout, CutShort, LoseCache, TimePasses, Login, Delete
<1>8. CASE \/ \E f \in Flight : RelayHandles(f) \/ Lost(f)
           \/ RevokeArrives \/ LogoutAnswered \/ UNCHANGED vars
  BY <1>8 DEF RelayHandles, Lost, RevokeArrives, LogoutAnswered, vars
<1> QED  BY <1>1, <1>2, <1>3, <1>4, <1>5, <1>6, <1>7, <1>8 DEF Next, Refresh

(* What is known of a device's generation stays true as the Relay goes on. *)
LEMMA KnowsStays ==
  ASSUME RelayTypeOK, RelayTypeOK', [RelayNext]_relayVars, NEW s \in Sessions, Knows(s)
  PROVE  Knows(s)'
<1>1. /\ s.device \in Device /\ s.generation \in Nat
      /\ devices[s.device].generation \in Nat /\ devices'[s.device].generation \in Nat
  BY SessionParts DEF RelayTypeOK, DeviceRow
<1> QED  BY <1>1, RelayGrows DEF Knows

LEMMA FitsStays ==
  ASSUME RelayTypeOK, RelayTypeOK', [RelayNext]_relayVars, NEW d \in Device, NEW g \in Nat, NEW h,
         Fits(d, g, h)
  PROVE  Fits(d, g, h)'
<1>1. devices[d].generation \in Nat /\ devices'[d].generation \in Nat
  BY DEF RelayTypeOK, DeviceRow
<1> QED  BY <1>1, RelayGrows DEF Fits

LEMMA FitInit == Init => HoursFit /\ CutHourStaysHome
<1> SUFFICES ASSUME Init PROVE HoursFit /\ CutHourStaysHome
  OBVIOUS
<1>1. HoursFit
  BY NoHoursParcel DEF Init, RelayInit, HoursFit
<1>2. CutHourStaysHome
  BY DEF Init, RelayInit, CutHourStaysHome
<1> QED  BY <1>1, <1>2

(* The Mac is the only device of its Account database. *)
OneDevice == \A d, e \in Device : d = e

LEMMA FitStep ==
  ASSUME SyncInv, SyncInv', HoursWhere, HoursFit, [Next]_vars, SentUnderItsOwnIdentity' \/ OneDevice
  PROVE  HoursFit'
<1>t. /\ TypeOK /\ TypeOK' /\ RelayTypeOK /\ RelayTypeOK' /\ [RelayNext]_relayVars
  BY SyncIsAClient DEF SyncInv, TypeOK
<1>s. ASSUME session # None
      PROVE  /\ session \in Sessions /\ session.device \in Device /\ session.generation \in Nat
             /\ Knows(session)
             /\ session.generation <= devices'[session.device].generation
             /\ session.generation = devices'[session.device].generation =>
                  session.deletedBefore = devices'[session.device].deletedBefore
  <2>1. session \in Sessions /\ session.device \in Device /\ session.generation \in Nat
        /\ Knows(session)
    BY <1>s, <1>t, SessionParts DEF TypeOK, HoursFit
  <2> QED  BY <1>t, <2>1, KnowsStays DEF Knows
<1>p. ASSUME snap # None
      PROVE  /\ snap \in Sessions /\ snap.device \in Device /\ snap.generation \in Nat
             /\ snap.generation <= devices'[snap.device].generation
             /\ snap.generation = devices'[snap.device].generation =>
                  snap.deletedBefore = devices'[snap.device].deletedBefore
  <2>1. snap \in Sessions /\ snap.device \in Device /\ snap.generation \in Nat /\ Knows(snap)
    BY <1>p, <1>t, SessionParts DEF TypeOK, HoursFit
  <2> QED  BY <1>t, <2>1, KnowsStays DEF Knows
<1>1. ASSUME session' # None PROVE Knows(session)'
  <2>1. CASE UNCHANGED session
    BY <1>1, <1>s, <2>1 DEF Knows
  <2>2. CASE session' # session
    <3>1. /\ session'.generation = devices'[session'.device].generation
          /\ session'.deletedBefore = devices'[session'.device].deletedBefore
          /\ devices'[session'.device].generation \in Nat
      BY <1>1, <1>t, <2>2, SessionMoves DEF RelayTypeOK, DeviceRow
    <3> QED  BY <3>1 DEF Knows
  <2> QED  BY <2>1, <2>2
<1>2. ASSUME snap' # None PROVE Knows(snap)'
  <2>1. snap' = snap \/ snap' = session
    BY <1>2, SnapMoves
  <2> QED  BY <1>2, <1>s, <1>p, <2>1 DEF Knows
<1>3. ASSUME NEW h \in Hour, outbox'[h] # None
      PROVE  Fits(outbox[h].device, outbox[h].generation, h)'
  <2>1. CASE outbox'[h] = outbox[h]
    <3>1. /\ outbox[h].device \in Device /\ outbox[h].generation \in Nat
          /\ Fits(outbox[h].device, outbox[h].generation, h)
      BY <1>3, <1>t, <2>1, EntryParts DEF HoursFit
    <3> QED  BY <1>t, <2>1, <3>1, FitsStays DEF Fits
  <2>2. CASE /\ h \in DOMAIN staged /\ snap # None
             /\ outbox'[h].device = snap.device /\ outbox'[h].generation = snap.generation
    <3>1. snap.device \in Device /\ snap.generation \in Nat /\ Fits(snap.device, snap.generation, h)
      BY <1>p, <2>2 DEF HoursFit
    <3> QED  BY <1>t, <2>2, <3>1, FitsStays DEF Fits
  <2> QED  BY <1>3, <2>1, <2>2, OutboxStep
<1>k. ASSUME NEW h \in Hour, snap # None, snap' = snap, Fits(snap.device, snap.generation, h)
      PROVE  Fits(snap.device, snap.generation, h)'
  BY <1>p, <1>t, <1>k, FitsStays DEF Fits
<1>4. ASSUME NEW h \in DOMAIN staged' PROVE Fits(snap.device, snap.generation, h)'
  <2>0. h \in Hour
    BY <1>t, <1>4, ParcelParts DEF TypeOK
  <2>1. CASE UNCHANGED staged
    <3>1. pc \in {"write", "clear", "drain"} /\ staged' # NoHours
      BY <1>4, <2>1, NoHoursParcel DEF HoursWhere
    <3>2. snap' = snap /\ snap # None
      BY <3>1, SnapMoves DEF SyncInv, StepsHoldTheirs
    <3> QED  BY <1>4, <1>k, <2>0, <2>1, <3>2 DEF HoursFit
  <2>2. CASE session # None /\ snap' = session /\ h >= FirstHour(session)
    BY <1>s, <2>2 DEF Fits, FirstHour
  <2> QED  BY <1>4, <2>1, <2>2, StagedStep
<1>5. ASSUME NEW h \in DOMAIN todo' PROVE Fits(snap.device, snap.generation, h)'
  <2>0. h \in Hour
    BY <1>t, <1>5, ParcelParts DEF TypeOK
  <2>1. CASE h \in DOMAIN todo
    <3>1. pc \in {"send", "await"} /\ todo' # NoHours
      BY <1>5, <2>1, NoHoursParcel DEF HoursWhere
    <3>2. snap' = snap /\ snap # None
      BY <3>1, SnapMoves DEF SyncInv, StepsHoldTheirs
    <3> QED  BY <1>k, <2>0, <2>1, <3>2 DEF HoursFit
  <2>2. CASE session # None /\ snap' = session /\ Owned(outbox[h], session)
    <3>1. Fits(session.device, session.generation, h)
      BY <2>0, <2>2 DEF Owned, HoursFit
    <3> QED  BY <1>s, <1>t, <2>2, <3>1, FitsStays DEF Fits
  <2> QED  BY <1>5, <2>1, <2>2, TodoStep
<1>6. ASSUME NEW f \in Flight, flight'[f] # NoRequest, NEW h \in DOMAIN flight'[f].hours
      PROVE  Fits(flight[f].device, flight[f].generation, h)'
  <2>1. CASE /\ flight[f] # NoRequest
             /\ flight'[f].hours = flight[f].hours /\ flight'[f].device = flight[f].device
             /\ flight'[f].generation = flight[f].generation
    <3>1. flight[f].device \in Device /\ flight[f].generation \in Nat
      BY <1>t, <2>1, RequestParts DEF Request
    <3>2. Fits(flight[f].device, flight[f].generation, h)
      BY <1>6, <2>1 DEF HoursFit
    <3> QED  BY <1>t, <2>1, <3>1, <3>2, FitsStays DEF Fits
  <2>2. CASE /\ session # None /\ snap # None
             /\ UNCHANGED <<snap, devices>> /\ pc' = "await" /\ awaiting' = f
             /\ flight'[f].hours = Only(Batch, todo) /\ Batch \subseteq DOMAIN todo
             /\ flight'[f].device = session.device /\ flight'[f].generation = snap.generation
    <3>1. h \in DOMAIN todo
      BY <1>6, <2>2 DEF Only
    <3>2. session.device = snap.device
      BY <1>s, <1>p, <2>2 DEF SentUnderItsOwnIdentity, OneDevice
    <3>3. Fits(snap.device, snap.generation, h)
      BY <3>1 DEF HoursFit
    <3> QED  BY <2>2, <3>2, <3>3 DEF Fits
  <2> QED  BY <1>6, <2>1, <2>2, FlightStep
<1> QED  BY <1>1, <1>2, <1>3, <1>4, <1>5, <1>6 DEF HoursFit

LEMMA CutHourStep ==
  ASSUME SyncInv, SyncInv', HoursFit, CutHourStaysHome, [Next]_vars
  PROVE  CutHourStaysHome'
<1>t. /\ RelayTypeOK /\ RelayTypeOK' /\ [RelayNext]_relayVars
  BY SyncIsAClient DEF SyncInv, TypeOK
<1> SUFFICES ASSUME NEW d \in Device, NEW h \in Hour, h < CeilHour(devices'[d].deletedBefore)
             PROVE  stored'[d][h] = Nothing
  BY DEF CutHourStaysHome
<1>0. devices[d].deletedBefore = devices'[d].deletedBefore \/ stored'[d][h] = Nothing
  BY <1>t, RelayGrows DEF DeleteDevice, RelayTypeOK
<1>1. CASE stored'[d][h] = stored[d][h] /\ devices[d].deletedBefore = devices'[d].deletedBefore
  BY <1>1 DEF CutHourStaysHome
<1>2. ASSUME NEW f \in Flight, flight[f] # NoRequest, flight[f].device = d,
             h \in DOMAIN flight[f].hours, flight[f].generation = devices[d].generation,
             devices[d].deletedBefore = devices'[d].deletedBefore
      PROVE  FALSE
  <2>1. h >= CeilHour(devices[d].deletedBefore)
    BY <1>2 DEF HoursFit, Fits
  <2>2. CeilHour(devices[d].deletedBefore) \in Nat /\ h \in Nat
    BY <1>t DEF RelayTypeOK, DeviceRow, CeilHour
  <2> QED  BY <1>2, <2>1, <2>2
<1> QED  BY <1>0, <1>1, <1>2, StoredStep

CutInv == HoursWhere /\ HoursFit /\ CutHourStaysHome

LEMMA CutInit == Init => CutInv
  BY WhereInit, FitInit DEF CutInv

LEMMA CutStep ==
  SyncInv /\ SyncInv' /\ CutInv /\ [Next]_vars /\ (SentUnderItsOwnIdentity' \/ OneDevice) => CutInv'
  BY WhereStep, FitStep, CutHourStep DEF CutInv

(***************************************************************************)
(* Of the hour a deletion fell into the Account holds nothing again, as    *)
(* long as every batch goes out for the device its entries were queued for *)
(* ...                                                                     *)
(***************************************************************************)
THEOREM CutHourUnderItsOwnIdentity ==
  SafetySpec /\ []SentUnderItsOwnIdentity => []CutHourStaysHome
<1>1. CutInv => CutHourStaysHome
  BY DEF CutInv
<1> QED  BY <1>1, CutInit, CutStep, SyncInvariant, PTL DEF SafetySpec

(* ... which a Mac that is the only device cannot help doing. *)
THEOREM CutHourOfOneDevice ==
  ASSUME OneDevice PROVE SafetySpec => []CutHourStaysHome
<1>1. CutInv => CutHourStaysHome
  BY DEF CutInv
<1>2. SyncInv /\ SyncInv' /\ CutInv /\ [Next]_vars => CutInv'
  BY CutStep
<1> QED  BY <1>1, <1>2, CutInit, SyncInvariant, PTL DEF SafetySpec

-------------------------------------------------------------------------------
(***************************************************************************)
(* Delivery.  Without a sign-out a session ends only when its device was   *)
(* deleted, so that a lane keeps the session it began with, and what the   *)
(* queue is owed to is the session's own identity while it can be sent.    *)
(* An hour that Relay refuses takes the rest of its batch with it, unless  *)
(* a batch is one hour.                                                    *)
(***************************************************************************)
NobodySignsOut == "logout" \notin Mishaps

RefusedAlone == Refused = {} \/ BatchHours = 1

Current(d, g) == devices[d].generation = g

SessionIsKnown ==
  /\ ~leaving
  /\ session # None =>
       /\ Current(session.device, session.generation) =>
            /\ devices[session.device].session = session.serial
            /\ devices[session.device].deletedBefore = session.deletedBefore
       /\ devices[session.device].session = session.serial =>
            Current(session.device, session.generation)

LaneHasItsSession ==
  /\ pc # "idle" => session # None
  /\ pc \in {"install", "write", "clear", "send", "await"} => snap = session
  /\ pc = "context" /\ kind = "usage" => snap = session
  /\ pc = "control" => kind = "full"

(* What a request that the lane waits for was sent with, and is told. *)
WaitsForItsOwn ==
  pc = "await" =>
    /\ flight[awaiting] # NoRequest
    /\ flight[awaiting].device = session.device
    /\ flight[awaiting].session = session.serial
    /\ flight[awaiting].generation = session.generation
    /\ flight[awaiting].stage = "answered" /\ flight[awaiting].answer = "unauthorized" =>
         ~Current(session.device, session.generation)

SignedInv == SessionIsKnown /\ LaneHasItsSession /\ WaitsForItsOwn

LEMMA SignedInit == Init => SignedInv
  BY DEF Init, SignedInv, SessionIsKnown, LaneHasItsSession, WaitsForItsOwn

(* Who may still be at a device: its session, until it is deleted or signed in again. *)
LEMMA DevicesMove ==
  ASSUME SyncInv, ~leaving, [Next]_vars, NEW d \in Device
  PROVE  /\ devices'[d].generation \in Nat /\ devices[d].generation \in Nat
         /\ \/ /\ devices'[d].session = devices[d].session
               /\ devices'[d].generation = devices[d].generation
               /\ devices'[d].deletedBefore = devices[d].deletedBefore
            \/ Delete(d) /\ devices'[d].generation = devices[d].generation + 1
            \/ /\ Login(d) /\ devices'[d].session = serial + 1
               /\ devices'[d].generation = devices[d].generation
               /\ devices'[d].deletedBefore = devices[d].deletedBefore
<1>t. devices \in [Device -> DeviceRow] /\ devices' \in [Device -> DeviceRow]
  BY SyncStep DEF SyncInv, TypeOK, RelayTypeOK
<1> DEFINE Same == /\ devices'[d].session = devices[d].session
                   /\ devices'[d].generation = devices[d].generation
                   /\ devices'[d].deletedBefore = devices[d].deletedBefore
           Moves == \/ Same
                    \/ Delete(d) /\ devices'[d].generation = devices[d].generation + 1
                    \/ /\ Login(d) /\ devices'[d].session = serial + 1
                       /\ devices'[d].generation = devices[d].generation
                       /\ devices'[d].deletedBefore = devices[d].deletedBefore
<1>0. devices'[d].generation \in Nat /\ devices[d].generation \in Nat
  BY <1>t DEF DeviceRow
<1>1. ASSUME NEW e \in Device, Login(e) PROVE Moves
  <2>1. devices' = [devices EXCEPT ![e].session = serial + 1, ![e].present = TRUE]
    BY <1>1 DEF Login, SignIn
  <2> QED  BY <1>1, <1>t, <2>1 DEF DeviceRow
<1>2. ASSUME NEW e \in Device, Delete(e) PROVE Moves
  <2>1. /\ devices'[e].generation = devices[e].generation + 1
        /\ \A c \in Device \ {e} : devices'[c] = devices[c]
    BY <1>2, <1>t DEF Delete, DeleteDevice
  <2> QED  BY <1>2, <2>1
<1>3. ASSUME NEW f \in Flight, RelayHandles(f) PROVE Same
  <2>1. CASE UNCHANGED devices
    BY <2>1
  <2>2. CASE devices' # devices
    <3>1. devices' = [devices EXCEPT ![flight[f].device].revision = @ + 1]
      BY <1>3, <2>2 DEF RelayHandles, Handle, Refuse, CheckUsage, CommitUsage
    <3> QED  BY <1>t, <3>1 DEF DeviceRow
  <2> QED  BY <2>1, <2>2
<1>4. ASSUME \/ Control \/ Context \/ InstallContext \/ Stage \/ WriteOutbox \/ ClearDirty
             \/ StartDrain \/ DropUnsendable \/ SendBatch \/ Answered
      PROVE  UNCHANGED devices
  BY <1>4 DEF Control, Context, InstallContext, Stage, WriteOutbox, ClearDirty, StartDrain,
              DropUnsendable, SendBatch, Answered, relayVars
<1>5. ASSUME \/ \E h \in Hour, r \in Rows : WriteLog(h, r)
             \/ ToggleUpload \/ LoseCache \/ Logout \/ CutShort \/ TimePasses
      PROVE  UNCHANGED devices
  BY <1>5 DEF WriteLog, ToggleUpload, LoseCache, Logout, CutShort, TimePasses, Tick, relayVars
<1>6. ASSUME \/ \E k \in {"full", "usage"} : Scan(k)
             \/ \E f \in Flight : Lost(f)
             \/ UNCHANGED vars
      PROVE  UNCHANGED devices
  BY <1>6 DEF Scan, Lost, vars, relayVars
<1>7. ~RevokeArrives /\ ~LogoutAnswered
  BY DEF RevokeArrives, LogoutAnswered
<1> QED
  BY <1>0, <1>1, <1>2, <1>3, <1>4, <1>5, <1>6, <1>7 DEF Next, Refresh, Users

(* How a session comes, goes and is brought up to date. *)
LEMMA SessionKeeps ==
  ASSUME SyncInv, NobodySignsOut, ~leaving, [Next]_vars
  PROVE  /\ ~leaving'
         /\ \/ UNCHANGED session
            \/ /\ pc = "control" /\ pc' = "idle" /\ session' = None /\ session # None
               /\ UNCHANGED devices
               /\ devices[session.device].session # session.serial
            \/ /\ pc = "control" /\ pc' = "context" /\ session' # None /\ session # None
               /\ UNCHANGED devices
               /\ devices[session.device].session = session.serial
               /\ session'.device = session.device /\ session'.serial = session.serial
               /\ session'.generation = devices[session.device].generation
               /\ session'.deletedBefore = devices[session.device].deletedBefore
               /\ Control
            \/ /\ pc = "await" /\ pc' = "idle" /\ session' = None /\ UNCHANGED devices
               /\ flight[awaiting].stage = "answered" /\ flight[awaiting].answer = "unauthorized"
            \/ /\ session = None /\ session' # None /\ UNCHANGED laneVars
               /\ \E d \in Device :
                    /\ Login(d)
                    /\ session'.device = d /\ session'.serial = serial + 1
                    /\ session'.generation = devices[d].generation
                    /\ session'.deletedBefore = devices[d].deletedBefore
<1> DEFINE Moves ==
         \/ UNCHANGED session
         \/ /\ pc = "control" /\ pc' = "idle" /\ session' = None /\ session # None
            /\ UNCHANGED devices
            /\ devices[session.device].session # session.serial
         \/ /\ pc = "control" /\ pc' = "context" /\ session' # None /\ session # None
            /\ UNCHANGED devices
            /\ devices[session.device].session = session.serial
            /\ session'.device = session.device /\ session'.serial = session.serial
            /\ session'.generation = devices[session.device].generation
            /\ session'.deletedBefore = devices[session.device].deletedBefore
            /\ Control
         \/ /\ pc = "await" /\ pc' = "idle" /\ session' = None /\ UNCHANGED devices
            /\ flight[awaiting].stage = "answered" /\ flight[awaiting].answer = "unauthorized"
         \/ /\ session = None /\ session' # None /\ UNCHANGED laneVars
            /\ \E d \in Device :
                 /\ Login(d)
                 /\ session'.device = d /\ session'.serial = serial + 1
                 /\ session'.generation = devices[d].generation
                 /\ session'.deletedBefore = devices[d].deletedBefore
<1>1. CASE Control
  <2>0. UNCHANGED <<devices, leaving>> /\ pc = "control"
    BY <1>1 DEF Control, relayVars, sessionVars
  <2>1. CASE session # None /\ devices[session.device].session = session.serial
    <3>1. /\ session' = [session EXCEPT !.generation = devices[session.device].generation,
                                        !.revision = devices[session.device].revision,
                                        !.deletedBefore = devices[session.device].deletedBefore]
          /\ pc' = "context"
      BY <1>1, <2>1 DEF Control, Active, Goto
    <3>2. session \in Sessions
      BY <2>1 DEF SyncInv, TypeOK
    <3>3. session' # None
      <4>1. devices[session.device] \in DeviceRow
        BY <3>2, SessionParts DEF SyncInv, TypeOK, RelayTypeOK
      <4>2. session' \in Sessions
        BY <3>1, <3>2, <4>1 DEF DeviceRow, Sessions
      <4> QED  BY <4>2, NoneIsNoRow
    <3> QED  BY <1>1, <2>0, <2>1, <3>1, <3>2, <3>3 DEF Sessions
  <2>2. CASE session # None /\ devices[session.device].session # session.serial
    BY <1>1, <2>0, <2>2 DEF Control, Active, Finish
  <2>3. CASE session = None
    BY <1>1, <2>0, <2>3 DEF Control, Active, sessionVars
  <2> QED  BY <2>0, <2>1, <2>2, <2>3
<1>2. CASE Answered
  BY <1>2 DEF Answered, Finish
<1>3. ASSUME NEW d \in Device, Login(d) PROVE Moves /\ ~leaving'
  <2>1. session' = [device |-> d, generation |-> devices[d].generation,
                    revision |-> devices[d].revision,
                    deletedBefore |-> devices[d].deletedBefore, serial |-> serial + 1]
        /\ session = None /\ ~leaving' /\ UNCHANGED laneVars
    BY <1>3 DEF Login
  <2>2. session' # None
    <3>1. serial + 1 \in 1..LastSerial /\ devices[d] \in DeviceRow
      BY <1>3 DEF Login, SignIn, SyncInv, TypeOK, RelayTypeOK
    <3>2. session' \in Sessions
      BY <2>1, <3>1 DEF DeviceRow, Sessions
    <3> QED  BY <3>2, NoneIsNoRow
  <2> QED  BY <1>3, <2>1, <2>2
<1>4. CASE Context \/ InstallContext \/ Stage \/ WriteOutbox \/ ClearDirty \/ StartDrain
           \/ DropUnsendable \/ SendBatch
  BY <1>4 DEF Context, InstallContext, Stage, WriteOutbox, ClearDirty, StartDrain,
              DropUnsendable, SendBatch, sessionVars
<1>5. CASE \/ \E h \in Hour, r \in Rows : WriteLog(h, r)
           \/ \E d \in Device : Delete(d)
           \/ ToggleUpload \/ LoseCache \/ CutShort \/ TimePasses
  BY <1>5 DEF WriteLog, Delete, ToggleUpload, LoseCache, CutShort, TimePasses, sessionVars
<1>6. CASE \/ \E k \in {"full", "usage"} : Scan(k)
           \/ \E f \in Flight : RelayHandles(f) \/ Lost(f)
           \/ UNCHANGED vars
  BY <1>6 DEF Scan, RelayHandles, Lost, vars, sessionVars
<1>7. ~RevokeArrives /\ ~LogoutAnswered /\ ~Logout
  BY DEF RevokeArrives, LogoutAnswered, Logout, Mishap, NobodySignsOut
<1> QED
  BY <1>1, <1>2, <1>3, <1>4, <1>5, <1>6, <1>7 DEF Next, Refresh, Users

(* Where a refresh goes, and the session it goes with. *)
LEMMA LaneMoves ==
  ASSUME [Next]_vars
  PROVE  \/ UNCHANGED <<pc, kind, snap>>
         \/ pc' = "idle"
         \/ /\ pc = "idle" /\ session # None /\ UNCHANGED session /\ snap' = session
            /\ \/ pc' = "control" /\ kind' = "full"
               \/ pc' = "context" /\ kind' = "usage"
         \/ pc = "control" /\ pc' = "context" /\ UNCHANGED kind
         \/ /\ pc = "context" /\ pc' = "install" /\ UNCHANGED session
            /\ snap' = IF kind = "full" /\ session # None THEN session ELSE snap
         \/ pc # "idle" /\ pc' \in {"stage", "drain"}
         \/ pc \in {"stage", "drain"} /\ pc' \in {"write", "send"} /\ UNCHANGED session /\ snap' = session
         \/ pc = "write" /\ pc' = "clear" /\ UNCHANGED <<session, snap>>
         \/ pc \in {"send", "await"} /\ pc' \in {"send", "await"} /\ UNCHANGED <<session, snap>>
<1> DEFINE Moves ==
         \/ UNCHANGED <<pc, kind, snap>>
         \/ pc' = "idle"
         \/ /\ pc = "idle" /\ session # None /\ UNCHANGED session /\ snap' = session
            /\ \/ pc' = "control" /\ kind' = "full"
               \/ pc' = "context" /\ kind' = "usage"
         \/ pc = "control" /\ pc' = "context" /\ UNCHANGED kind
         \/ /\ pc = "context" /\ pc' = "install" /\ UNCHANGED session
            /\ snap' = IF kind = "full" /\ session # None THEN session ELSE snap
         \/ pc # "idle" /\ pc' \in {"stage", "drain"}
         \/ pc \in {"stage", "drain"} /\ pc' \in {"write", "send"} /\ UNCHANGED session /\ snap' = session
         \/ pc = "write" /\ pc' = "clear" /\ UNCHANGED <<session, snap>>
         \/ pc \in {"send", "await"} /\ pc' \in {"send", "await"} /\ UNCHANGED <<session, snap>>
<1> USE DEF Finish, Goto, sessionVars, laneVars
<1>1. CASE Control
  BY <1>1 DEF Control
<1>2. CASE Context
  BY <1>2 DEF Context
<1>3. CASE InstallContext \/ ClearDirty
  BY <1>3 DEF InstallContext, ClearDirty
<1>4. CASE Stage
  BY <1>4 DEF Stage
<1>5. CASE WriteOutbox
  BY <1>5 DEF WriteOutbox
<1>6. CASE StartDrain
  BY <1>6 DEF StartDrain
<1>7. CASE DropUnsendable
  BY <1>7 DEF DropUnsendable
<1>8. CASE SendBatch
  BY <1>8 DEF SendBatch
<1>9. CASE Answered
  BY <1>9 DEF Answered
<1>10. ASSUME NEW k \in {"full", "usage"}, Scan(k) PROVE Moves
  BY <1>10 DEF Scan, AfterScan, Active
<1>11. CASE Users
  BY <1>11 DEF Users, WriteLog, ToggleUpload, Logout, CutShort, LoseCache, TimePasses, Login, Delete
<1>12. CASE \/ \E f \in Flight : RelayHandles(f) \/ Lost(f)
            \/ RevokeArrives \/ LogoutAnswered \/ UNCHANGED vars
  BY <1>12 DEF RelayHandles, Lost, RevokeArrives, LogoutAnswered, vars
<1> QED
  BY <1>1, <1>2, <1>3, <1>4, <1>5, <1>6, <1>7, <1>8, <1>9, <1>10, <1>11, <1>12 DEF Next, Refresh

LEMMA LaneStep ==
  ASSUME SyncInv, NobodySignsOut, SignedInv, [Next]_vars
  PROVE  LaneHasItsSession'
<1>1. SessionIsKnown /\ LaneHasItsSession
  BY DEF SignedInv
<1>2. /\ pc' \notin {"idle", "context"} => UNCHANGED session \/ (session = None /\ UNCHANGED laneVars)
      /\ pc' = "context" => \/ UNCHANGED session \/ (session = None /\ UNCHANGED laneVars)
                            \/ pc = "control" /\ session' # None
  BY <1>1, SessionKeeps DEF SessionIsKnown
<1>3. session = None => pc = "idle"
  BY <1>1 DEF LaneHasItsSession
<1>4. pc' # "idle" => session' # None
  BY <1>1, <1>2, <1>3, LaneMoves DEF LaneHasItsSession, laneVars
<1>5. ASSUME pc' \in {"install", "write", "clear", "send", "await"} PROVE snap' = session'
  <2>1. UNCHANGED session
    BY <1>2, <1>3, <1>5 DEF laneVars
  <2>2. CASE UNCHANGED <<pc, kind, snap>>
    BY <1>1, <1>5, <2>1, <2>2 DEF LaneHasItsSession
  <2>3. CASE pc = "context" /\ snap' = IF kind = "full" /\ session # None THEN session ELSE snap
    <3>1. session # None /\ kind \in {"full", "usage"}
      BY <1>3, <2>3 DEF SyncInv, TypeOK
    <3> QED  BY <1>1, <2>1, <2>3, <3>1 DEF LaneHasItsSession
  <2>4. CASE pc \in {"write", "send", "await"} /\ UNCHANGED snap
    BY <1>1, <2>1, <2>4 DEF LaneHasItsSession
  <2> QED  BY <1>5, <2>1, <2>2, <2>3, <2>4, LaneMoves
<1>6. /\ pc' = "context" /\ kind' = "usage" => snap' = session'
      /\ pc' = "control" => kind' = "full"
  BY <1>1, <1>2, <1>3, LaneMoves DEF LaneHasItsSession, laneVars
<1> QED  BY <1>4, <1>5, <1>6 DEF LaneHasItsSession

LEMMA KnownStep ==
  ASSUME SyncInv, NobodySignsOut, SignedInv, [Next]_vars
  PROVE  SessionIsKnown'
<1>t. /\ devices \in [Device -> DeviceRow] /\ SessionStands /\ SessionIsKnown /\ ~leaving
      /\ session # None => session \in Sessions
  BY DEF SyncInv, TypeOK, RelayTypeOK, SignedInv, SessionIsKnown
<1>1. CASE UNCHANGED session /\ session # None
  <2> DEFINE d == session.device
  <2>1. d \in Device /\ session.serial \in Nat \ {0} /\ session.generation \in Nat
        /\ session.generation <= devices[d].generation
    BY <1>1, <1>t, SessionParts DEF SessionStands
  <2>2. ~Login(d)
    BY <1>1 DEF Login
  <2>3. Delete(d) => devices'[d].session = 0
    BY <1>t, <2>1 DEF Delete, DeleteDevice
  <2>4. ~leaving'
    BY <1>t, SessionKeeps
  <2> QED  BY <1>1, <1>t, <2>1, <2>2, <2>3, <2>4, DevicesMove DEF SessionIsKnown, Current
<1>2. ASSUME NEW d \in Device, Login(d), session' # None,
             session'.device = d, session'.serial = serial + 1,
             session'.generation = devices[d].generation,
             session'.deletedBefore = devices[d].deletedBefore
      PROVE  SessionIsKnown'
  <2>1. devices' = [devices EXCEPT ![d].session = serial + 1, ![d].present = TRUE]
    BY <1>2 DEF Login, SignIn
  <2>2. /\ devices'[d].session = serial + 1 /\ devices'[d].generation = devices[d].generation
        /\ devices'[d].deletedBefore = devices[d].deletedBefore
    BY <1>t, <2>1 DEF DeviceRow
  <2>3. ~leaving'
    BY <1>t, SessionKeeps
  <2> QED  BY <1>2, <2>2, <2>3 DEF SessionIsKnown, Current
<1> QED
  BY <1>1, <1>2, <1>t, SessionKeeps DEF SessionIsKnown, Current

(* What becomes of a request. *)
LEMMA RequestMoves ==
  ASSUME SyncInv, [Next]_vars, NEW f \in Flight, flight'[f] # NoRequest
  PROVE  \/ flight'[f] = flight[f]
         \/ /\ SendBatch /\ awaiting' = f /\ pc' = "await"
            /\ UNCHANGED <<session, snap, todo, devices, stored, outbox, facts>>
            /\ flight'[f] = [stage |-> "sent", device |-> session.device, session |-> session.serial,
                             generation |-> snap.generation, hours |-> Only(Batch, todo),
                             accepted |-> {}, answer |-> "none"]
         \/ /\ flight[f] # NoRequest /\ UNCHANGED <<session, laneVars, outbox, facts, serial>>
            /\ flight'[f].device = flight[f].device /\ flight'[f].session = flight[f].session
            /\ flight'[f].generation = flight[f].generation /\ flight'[f].hours = flight[f].hours
            /\ \/ /\ Refuse(f)
                  /\ flight'[f].stage = "answered" /\ flight'[f].answer = Refusal(f)
               \/ /\ CheckUsage(f) /\ Newer(f) = {}
                  /\ flight'[f].stage = "answered" /\ flight'[f].answer = "written"
               \/ /\ CheckUsage(f)
                  /\ flight'[f].stage = "checked" /\ flight'[f].accepted = Newer(f)
               \/ /\ CommitUsage(f)
                  /\ flight'[f].stage = "answered" /\ flight'[f].answer = "written"
<1>t. flight \in [Flight -> Request \cup {NoRequest}]
  BY DEF SyncInv, TypeOK, RelayTypeOK
<1>1. CASE SendBatch /\ flight' # flight
  <2>1. PICK g \in Flight :
          /\ Send(g, session.device, session.serial, snap.generation, Only(Batch, todo))
          /\ awaiting' = g /\ pc' = "await" /\ UNCHANGED <<snap, todo>>
    BY <1>1 DEF SendBatch, Finish
  <2>2. UNCHANGED <<session, devices, stored, outbox, facts>>
    BY <1>1 DEF SendBatch, sessionVars, queueVars, cacheVars
  <2> QED  BY <1>1, <1>t, <2>1, <2>2 DEF Send
<1>2. CASE Answered
  BY <1>2, <1>t DEF Answered, Forget
<1>3. ASSUME NEW g \in Flight, Lost(g)
      PROVE  flight'[f] = flight[f]
  BY <1>3, <1>t DEF Lost, Forget
<1>4. ASSUME NEW g \in Flight, RelayHandles(g), f # g PROVE flight'[f] = flight[f]
  BY <1>4, <1>t DEF RelayHandles, Handle, Refuse, CheckUsage, CommitUsage, Answer
<1>5. CASE RelayHandles(f)
  <2>1. flight[f] # NoRequest
    BY <1>5 DEF RelayHandles, Handle, Refuse, CheckUsage, CommitUsage, NoRequest
  <2>2. flight[f] \in Request
    BY <2>1, <1>t
  <2>3. UNCHANGED <<session, laneVars, outbox, facts, serial>>
    BY <1>5 DEF RelayHandles, sessionVars, queueVars, cacheVars, Handle, Refuse, CheckUsage, CommitUsage
  <2>a. ASSUME NEW a, Answer(f, a)
        PROVE  /\ flight'[f].device = flight[f].device /\ flight'[f].session = flight[f].session
               /\ flight'[f].generation = flight[f].generation /\ flight'[f].hours = flight[f].hours
               /\ flight'[f].stage = "answered" /\ flight'[f].answer = a
    BY <1>t, <2>2, <2>a DEF Answer, Request
  <2>4. CASE Refuse(f)
    BY <2>1, <2>3, <2>4, <2>a DEF Refuse
  <2>5. CASE CommitUsage(f)
    BY <2>1, <2>3, <2>5, <2>a DEF CommitUsage
  <2>6. CASE CheckUsage(f) /\ Newer(f) = {}
    BY <2>1, <2>3, <2>6, <2>a DEF CheckUsage
  <2>7. CASE CheckUsage(f) /\ Newer(f) # {}
    <3>1. flight' = [flight EXCEPT ![f].stage = "checked", ![f].accepted = Newer(f)]
      BY <2>7 DEF CheckUsage
    <3>2. /\ flight'[f].device = flight[f].device /\ flight'[f].session = flight[f].session
          /\ flight'[f].generation = flight[f].generation /\ flight'[f].hours = flight[f].hours
          /\ flight'[f].stage = "checked" /\ flight'[f].accepted = Newer(f)
      BY <1>t, <2>2, <3>1 DEF Request
    <3> QED  BY <2>1, <2>3, <2>7, <3>2
  <2> QED  BY <1>5, <2>4, <2>5, <2>6, <2>7 DEF RelayHandles, Handle
<1> QED  BY <1>1, <1>2, <1>3, <1>4, <1>5, WhoWrites

LEMMA WaitsStep ==
  ASSUME SyncInv, NobodySignsOut, SignedInv, [Next]_vars
  PROVE  WaitsForItsOwn'
<1> SUFFICES ASSUME pc' = "await" PROVE WaitsForItsOwn'
  BY DEF WaitsForItsOwn
<1>t. /\ SessionStands /\ SessionIsKnown /\ LaneHasItsSession /\ WaitsForItsOwn /\ ~leaving
      /\ session # None => session \in Sessions
      /\ flight \in [Flight -> Request \cup {NoRequest}]
  BY DEF SyncInv, TypeOK, RelayTypeOK, SignedInv, SessionIsKnown
<1>s. UNCHANGED session /\ session # None /\ pc # "idle"
  <2>1. pc # "idle"
    BY LaneMoves
  <2> QED  BY <1>t, <2>1, SessionKeeps DEF LaneHasItsSession
<1>d. /\ session.device \in Device /\ session.serial \in Nat \ {0} /\ session.generation \in Nat
      /\ session.generation <= devices[session.device].generation
  BY <1>s, <1>t, SessionParts DEF SessionStands
<1>c. ~Current(session.device, session.generation) => ~Current(session.device, session.generation)'
  <2>1. ~Login(session.device)
    BY <1>s DEF Login
  <2> QED  BY <1>s, <1>t, <1>d, <2>1, DevicesMove DEF Current
<1>1. CASE SendBatch
  <2>1. PICK f \in Flight :
          /\ Send(f, session.device, session.serial, snap.generation, Only(Batch, todo))
          /\ awaiting' = f
    BY <1>1 DEF SendBatch, Finish
  <2>2. pc = "send" /\ snap = session
    BY <1>1, <1>t DEF SendBatch, LaneHasItsSession
  <2>3. /\ flight'[f].device = session.device /\ flight'[f].session = session.serial
        /\ flight'[f].generation = session.generation /\ flight'[f].stage = "sent"
    BY <1>t, <2>1, <2>2 DEF Send
  <2>4. flight'[f] # NoRequest
    BY <2>3 DEF NoRequest
  <2> QED  BY <1>s, <2>1, <2>3, <2>4 DEF WaitsForItsOwn
<1>2. CASE ~SendBatch
  <2>a. pc = "await" /\ UNCHANGED awaiting
    <3> USE DEF Finish, Goto, sessionVars, laneVars
    <3>1. CASE Control \/ Context \/ InstallContext \/ ClearDirty \/ Stage \/ WriteOutbox \/ StartDrain
               \/ DropUnsendable \/ Answered
      BY <3>1 DEF Control, Context, InstallContext, ClearDirty, Stage, WriteOutbox, StartDrain,
                  DropUnsendable, Answered
    <3>2. ASSUME NEW k \in {"full", "usage"}, Scan(k) PROVE FALSE
      BY <1>s, <3>2 DEF Scan
    <3>3. CASE Users
      BY <3>3 DEF Users, WriteLog, ToggleUpload, Logout, CutShort, LoseCache, TimePasses, Login, Delete
    <3>4. CASE \/ \E f \in Flight : RelayHandles(f) \/ Lost(f)
               \/ RevokeArrives \/ LogoutAnswered \/ UNCHANGED vars
      BY <3>4 DEF RelayHandles, Lost, RevokeArrives, LogoutAnswered, vars
    <3> QED  BY <1>2, <3>1, <3>2, <3>3, <3>4 DEF Next, Refresh
  <2>0. pc = "await" /\ UNCHANGED awaiting /\ awaiting \in Flight
    BY <2>a DEF SyncInv, StepsHoldTheirs
  <2>1. flight[awaiting] # NoRequest
    BY <1>t, <2>0 DEF WaitsForItsOwn
  <2>2. flight'[awaiting] # NoRequest
    <3>1. CASE Answered
      BY <3>1, <2>0 DEF Answered, Finish
    <3>2. ASSUME NEW f \in Flight, Lost(f) PROVE flight'[awaiting] = flight[awaiting]
      BY <1>t, <3>2 DEF Lost, Forget
    <3>3. ASSUME NEW f \in Flight, RelayHandles(f) PROVE flight'[awaiting] # NoRequest
      <4>1. \/ \E a : flight' = [flight EXCEPT ![f].stage = "answered", ![f].answer = a]
            \/ flight' = [flight EXCEPT ![f].stage = "checked", ![f].accepted = Newer(f)]
        BY <3>3 DEF RelayHandles, Handle, Refuse, CheckUsage, CommitUsage, Answer
      <4>2. f = awaiting => flight[f] \in Request
        BY <1>t, <2>1
      <4> QED  BY <1>t, <2>0, <2>1, <4>1, <4>2 DEF Request, NoRequest
    <3> QED  BY <1>2, <2>1, <3>1, <3>2, <3>3, WhoWrites
  <2>3. CASE flight'[awaiting] = flight[awaiting]
    BY <1>t, <1>s, <1>c, <2>0, <2>3 DEF WaitsForItsOwn
  <2>4. CASE flight'[awaiting] # flight[awaiting]
    <3>1. /\ flight'[awaiting].device = flight[awaiting].device
          /\ flight'[awaiting].session = flight[awaiting].session
          /\ flight'[awaiting].generation = flight[awaiting].generation
          /\ \/ Refuse(awaiting) /\ flight'[awaiting].answer = Refusal(awaiting)
             \/ flight'[awaiting].answer = "written"
             \/ flight'[awaiting].stage = "checked"
      BY <1>2, <2>0, <2>2, <2>4, RequestMoves
    <3>2. ASSUME Refusal(awaiting) = "unauthorized" PROVE ~Current(session.device, session.generation)
      <4>1. ~Authorized(awaiting)
        BY <3>2 DEF Refusal
      <4> QED  BY <1>t, <1>s, <1>d, <2>0, <4>1 DEF Authorized, Live, Current, SessionIsKnown, WaitsForItsOwn
    <3> QED  BY <1>t, <1>s, <1>c, <2>0, <2>2, <3>1, <3>2 DEF WaitsForItsOwn
  <2> QED  BY <2>3, <2>4
<1> QED  BY <1>1, <1>2

LEMMA SignedStep ==
  ASSUME NobodySignsOut PROVE SyncInv /\ SignedInv /\ [Next]_vars => SignedInv'
  BY KnownStep, LaneStep, WaitsStep DEF SignedInv

(* A batch goes out for the device its entries were queued for, as long as nobody signs out. *)
THEOREM OwnIdentity == ASSUME NobodySignsOut PROVE SafetySpec => []SentUnderItsOwnIdentity
<1>1. SignedInv => SentUnderItsOwnIdentity
  BY DEF SignedInv, LaneHasItsSession, WaitsForItsOwn, SentUnderItsOwnIdentity
<1> QED  BY <1>1, SignedInit, SignedStep, SyncInvariant, PTL DEF SafetySpec

(* ... and of the hour a deletion fell into the Account holds nothing again. *)
THEOREM CutHourWithoutSignOut == ASSUME NobodySignsOut PROVE SafetySpec => []CutHourStaysHome
  BY OwnIdentity, CutHourUnderItsOwnIdentity, PTL

-------------------------------------------------------------------------------
(* What is queued is owed to the session's identity, as long as that can be sent. *)
ContextIsTheSessions ==
  context # None =>
    /\ context.generation <= devices[context.device].generation
    /\ Current(context.device, context.generation) =>
         /\ session # None
         /\ context.device = session.device /\ context.generation = session.generation
         /\ context.deletedBefore = session.deletedBefore

LEMMA ContextMoves == [Next]_vars => UNCHANGED context \/ InstallContext
<1> SUFFICES ASSUME [Next]_vars PROVE UNCHANGED context \/ InstallContext
  OBVIOUS
<1> USE DEF queueVars
<1>1. CASE Refresh
  BY <1>1 DEF Refresh, Control, Context, Stage, WriteOutbox, ClearDirty, StartDrain, DropUnsendable,
              SendBatch, Answered
<1>2. CASE Users
  BY <1>2 DEF Users, WriteLog, ToggleUpload, Logout, CutShort, LoseCache, TimePasses, Login, Delete
<1>3. ASSUME NEW k \in {"full", "usage"}, Scan(k) PROVE UNCHANGED context
  BY <1>3 DEF Scan
<1>4. CASE \/ \E f \in Flight : RelayHandles(f) \/ Lost(f)
           \/ RevokeArrives \/ LogoutAnswered \/ UNCHANGED vars
  BY <1>4 DEF RelayHandles, Lost, RevokeArrives, LogoutAnswered, vars
<1> QED  BY <1>1, <1>2, <1>3, <1>4 DEF Next

(* A generation that has not come yet is not there after the step, either. *)
LEMMA StillCurrent ==
  ASSUME SyncInv, ~leaving, [Next]_vars, NEW d \in Device, NEW g \in Nat,
         g <= devices[d].generation, devices'[d].generation = g
  PROVE  /\ Current(d, g) /\ ~Delete(d)
         /\ devices'[d].deletedBefore = devices[d].deletedBefore
         /\ devices'[d].session = devices[d].session \/ devices'[d].session = serial + 1
<1>1. devices[d].generation \in Nat /\ (Delete(d) => devices'[d].generation = devices[d].generation + 1)
  BY DevicesMove DEF Delete, DeleteDevice, SyncInv, TypeOK, RelayTypeOK
<1> QED  BY <1>1, DevicesMove DEF Current

LEMMA ContextStep ==
  ASSUME SyncInv, NobodySignsOut, SignedInv, ContextIsTheSessions, [Next]_vars
  PROVE  ContextIsTheSessions'
<1>t. /\ SessionStands /\ SessionIsKnown /\ LaneHasItsSession /\ WaitsForItsOwn /\ ~leaving
      /\ session # None => session \in Sessions
      /\ context # None => /\ context.device \in Device /\ context.generation \in Nat
      /\ RelayTypeOK /\ RelayTypeOK' /\ [RelayNext]_relayVars
  BY SyncIsAClient, SyncStep DEF SyncInv, TypeOK, SignedInv, SessionIsKnown, Contexts
<1>1. CASE InstallContext
  <2>1. /\ context' = Identity(snap) /\ UNCHANGED <<session, devices>> /\ snap = session /\ session # None
    BY <1>1, <1>t DEF InstallContext, sessionVars, relayVars, LaneHasItsSession
  <2> QED  BY <1>t, <2>1 DEF Identity, SessionStands, ContextIsTheSessions
<1>2. CASE UNCHANGED context /\ context # None
  <2> DEFINE d == context.device
             g == context.generation
  <2>1. g <= devices'[d].generation
    <3>1. devices[d].generation \in Nat /\ devices'[d].generation \in Nat
      BY <1>2, <1>t, DevicesMove
    <3> QED  BY <1>2, <1>t, <3>1, RelayGrows DEF ContextIsTheSessions
  <2>2. ASSUME devices'[d].generation = g
        PROVE  /\ session' # None
               /\ d = session'.device /\ g = session'.generation
               /\ context.deletedBefore = session'.deletedBefore
    <3>1. Current(d, g)
      BY <1>2, <1>t, <2>2, StillCurrent DEF ContextIsTheSessions
    <3>2. /\ session # None /\ d = session.device /\ g = session.generation
          /\ context.deletedBefore = session.deletedBefore
      BY <1>2, <3>1 DEF ContextIsTheSessions
    <3>3. /\ devices[d].session = session.serial /\ devices[d].generation = g
          /\ devices[d].deletedBefore = session.deletedBefore
      BY <1>t, <3>1, <3>2 DEF SessionIsKnown, Current
    <3>4. ~(pc = "await" /\ flight[awaiting].stage = "answered" /\ flight[awaiting].answer = "unauthorized")
      BY <1>t, <3>1, <3>2 DEF WaitsForItsOwn
    <3>5. CASE UNCHANGED session
      BY <3>2, <3>5
    <3>6. CASE /\ session' # None /\ session'.device = session.device
               /\ session'.generation = devices[session.device].generation
               /\ session'.deletedBefore = devices[session.device].deletedBefore
      BY <3>2, <3>3, <3>6
    <3>7. /\ ~(devices[session.device].session # session.serial)
          /\ session # None
      BY <3>2, <3>3
    <3>8. \/ UNCHANGED session
          \/ /\ session' # None /\ session'.device = session.device
             /\ session'.generation = devices[session.device].generation
             /\ session'.deletedBefore = devices[session.device].deletedBefore
      BY <1>t, <3>4, <3>7, SessionKeeps
    <3> QED  BY <3>5, <3>6, <3>8
  <2> QED  BY <1>2, <2>1, <2>2 DEF ContextIsTheSessions, Current
<1> QED  BY <1>1, <1>2, ContextMoves DEF ContextIsTheSessions

-------------------------------------------------------------------------------
(***************************************************************************)
(* What the Relay answers.  Written means that the Account has the hour    *)
(* at that version or a newer one, while the generation lasts; refused     *)
(* that one of the hours is.                                               *)
(***************************************************************************)
Landed(f, h) ==
  \/ flight[f].stage = "answered" /\ flight[f].answer = "written"
  \/ flight[f].stage = "checked" /\ h \notin flight[f].accepted

AnswersStand ==
  \A f \in Flight : flight[f] # NoRequest =>
    LET d == flight[f].device
    IN  /\ flight[f].stage = "answered" /\ flight[f].answer = "refused" => Malformed(f)
        /\ Current(d, flight[f].generation) =>
             /\ flight[f].stage = "checked" => Live(d)
             /\ \A h \in DOMAIN flight[f].hours :
                  (h >= FloorHour(devices[d].deletedBefore) /\ Landed(f, h))
                    => stored[d][h].version >= flight[f].hours[h].version

(* What the Account holds of an hour only gets newer while the generation lasts. *)
LEMMA StoredGrows ==
  ASSUME SyncInv, [Next]_vars, NEW d \in Device, NEW h \in Hour, ~Delete(d)
  PROVE  /\ stored[d][h].version \in Nat /\ stored'[d][h].version \in Nat
         /\ stored'[d][h] = stored[d][h] \/ stored'[d][h].version > stored[d][h].version
<1>t. /\ stored \in [Device -> [Hour -> Reading \cup {Nothing}]]
      /\ stored' \in [Device -> [Hour -> Reading \cup {Nothing}]]
  BY SyncStep DEF SyncInv, TypeOK, RelayTypeOK
<1>0. stored[d][h].version \in Nat /\ stored'[d][h].version \in Nat
  <2>1. stored[d][h] \in Reading \cup {Nothing} /\ stored'[d][h] \in Reading \cup {Nothing}
    BY <1>t
  <2> QED  BY <2>1 DEF Reading, Nothing
<1>1. ASSUME NEW e \in Device, Delete(e)
      PROVE  stored'[d][h] = stored[d][h]
  BY <1>1, <1>t DEF Delete, DeleteDevice
<1>2. ASSUME NEW f \in Flight, RelayHandles(f), stored'[d][h] # stored[d][h]
      PROVE  stored'[d][h].version > stored[d][h].version
  <2> DEFINE e == flight[f].device
             Written == {g \in flight[f].accepted : NoNewerScan(f, g)}
  <2>1. stored' = [stored EXCEPT ![e] =
             [g \in Hour |-> IF g \in Written THEN flight[f].hours[g] ELSE @[g]]]
    BY <1>2 DEF RelayHandles, Handle, Refuse, CheckUsage, CommitUsage
  <2>2. d = e /\ h \in Written /\ stored'[d][h] = flight[f].hours[h]
    BY <1>t, <1>2, <2>1
  <2> QED  BY <2>2 DEF NoNewerScan
<1> QED  BY <1>0, <1>1, <1>2, WhoWrites

LEMMA AnswersStep ==
  ASSUME SyncInv, SignedInv, AnswersStand, [Next]_vars
  PROVE  AnswersStand'
<1>t. /\ ~leaving /\ flight \in [Flight -> Request \cup {NoRequest}] /\ serial \in Nat
      /\ OfThePast /\ AcceptedWasSent
      /\ stored \in [Device -> [Hour -> Reading \cup {Nothing}]]
  BY DEF SyncInv, TypeOK, RelayTypeOK, SignedInv, SessionIsKnown, RelayInv
<1> SUFFICES ASSUME NEW f \in Flight, flight'[f] # NoRequest
             PROVE  LET d == flight'[f].device
                    IN  /\ flight'[f].stage = "answered" /\ flight'[f].answer = "refused" => Malformed(f)'
                        /\ devices'[d].generation = flight'[f].generation =>
                             /\ flight'[f].stage = "checked" => devices'[d].session # 0
                             /\ \A h \in DOMAIN flight'[f].hours :
                                  (h >= FloorHour(devices'[d].deletedBefore) /\ Landed(f, h)')
                                    => stored'[d][h].version >= flight'[f].hours[h].version
  BY DEF AnswersStand, Current, Live
<1>1. CASE flight'[f].stage = "sent"
  BY <1>1 DEF Landed
<1>2. CASE flight[f] # NoRequest /\ flight'[f].device = flight[f].device
           /\ flight'[f].generation = flight[f].generation /\ flight'[f].hours = flight[f].hours
  <2> DEFINE d == flight[f].device
             g == flight[f].generation
             hs == flight[f].hours
  <2>0. /\ d \in Device /\ g \in Nat /\ g <= devices[d].generation /\ hs \in Parcel
        /\ DOMAIN hs \subseteq Hour /\ \A h \in DOMAIN hs : hs[h].version \in Nat
    <3>1. d \in Device /\ g \in Nat /\ g <= devices[d].generation /\ hs \in Parcel
      BY <1>2, <1>t, RequestParts DEF Request, OfThePast, Asked, SyncInv
    <3> QED  BY <3>1, ParcelParts DEF Reading
  <2>s. ASSUME NEW h \in Hour PROVE stored[d][h].version \in Nat
    <3>1. stored[d][h] \in Reading \cup {Nothing}
      BY <1>t, <2>0
    <3> QED  BY <3>1 DEF Reading, Nothing
  <2>c. ASSUME devices'[d].generation = g
        PROVE  /\ Current(d, g) /\ ~Delete(d)
               /\ devices'[d].deletedBefore = devices[d].deletedBefore
               /\ devices[d].session # 0 => devices'[d].session # 0
    <3>1. /\ Current(d, g) /\ ~Delete(d)
          /\ devices'[d].deletedBefore = devices[d].deletedBefore
          /\ devices'[d].session = devices[d].session \/ devices'[d].session = serial + 1
      BY <1>t, <2>0, <2>c, StillCurrent
    <3> QED  BY <1>t, <3>1
  <2>k. ASSUME devices'[d].generation = g, NEW h \in DOMAIN hs,
               h >= FloorHour(devices[d].deletedBefore), stored[d][h].version >= hs[h].version
        PROVE  stored'[d][h].version >= hs[h].version
    <3>1. h \in Hour /\ hs[h].version \in Nat /\ d \in Device /\ ~Delete(d)
      BY <2>0, <2>c, <2>k
    <3>2. /\ stored[d][h].version \in Nat /\ stored'[d][h].version \in Nat
          /\ stored'[d][h] = stored[d][h] \/ stored'[d][h].version > stored[d][h].version
      BY <3>1, StoredGrows
    <3>3. stored'[d][h].version >= stored[d][h].version
      BY <3>2
    <3> QED  BY <2>k, <3>1, <3>2, <3>3
  <2>1. CASE flight'[f] = flight[f]
    <3>1. Malformed(f) => Malformed(f)'
      BY <1>2 DEF Malformed
    <3>2. ASSUME devices'[d].generation = g, NEW h \in DOMAIN hs,
                 h >= FloorHour(devices'[d].deletedBefore), Landed(f, h)'
          PROVE  stored'[d][h].version >= hs[h].version
      BY <1>2, <2>1, <2>c, <2>k, <3>2 DEF AnswersStand, Landed
    <3> QED  BY <1>2, <2>1, <2>c, <3>1, <3>2 DEF AnswersStand, Live
  <2>2. CASE Refuse(f) /\ flight'[f].stage = "answered" /\ flight'[f].answer = Refusal(f)
    <3>1. Refusal(f) = "refused" => Malformed(f)
      BY <2>2 DEF Refuse, Refusal, Admissible
    <3>2. Malformed(f) => Malformed(f)'
      BY <1>2 DEF Malformed
    <3>3. \A h \in Hour : ~Landed(f, h)'
      BY <2>2 DEF Landed, Refusal
    <3> QED  BY <1>2, <2>0, <2>2, <3>1, <3>2, <3>3
  <2>3. CASE CheckUsage(f) /\ Newer(f) = {} /\ flight'[f].stage = "answered" /\ flight'[f].answer = "written"
    <3>1. UNCHANGED <<devices, stored>>
      BY <2>3 DEF CheckUsage
    <3>2. ASSUME NEW h \in DOMAIN hs, h >= FloorHour(devices[d].deletedBefore)
          PROVE  stored[d][h].version >= hs[h].version
      <4>1. ~(hs[h].version > stored[d][h].version)
        BY <2>3, <3>2 DEF Newer
      <4>2. hs[h].version \in Nat /\ stored[d][h].version \in Nat
        BY <2>0, <2>s
      <4> QED  BY <4>1, <4>2
    <3> QED  BY <1>2, <2>3, <3>1, <3>2
  <2>4. CASE CheckUsage(f) /\ flight'[f].stage = "checked" /\ flight'[f].accepted = Newer(f)
    <3>1. UNCHANGED <<devices, stored>> /\ devices[d].session # 0
      BY <2>4 DEF CheckUsage, Admissible, Authorized, Live
    <3>2. ASSUME NEW h \in DOMAIN hs, h >= FloorHour(devices[d].deletedBefore), h \notin Newer(f)
          PROVE  stored[d][h].version >= hs[h].version
      <4>1. ~(hs[h].version > stored[d][h].version)
        BY <3>2 DEF Newer
      <4>2. hs[h].version \in Nat /\ stored[d][h].version \in Nat
        BY <2>0, <2>s
      <4> QED  BY <4>1, <4>2
    <3> QED  BY <1>2, <2>4, <3>1, <3>2 DEF Landed, Live
  <2>5. CASE CommitUsage(f) /\ flight'[f].stage = "answered" /\ flight'[f].answer = "written"
    <3> DEFINE Written == {h \in flight[f].accepted : NoNewerScan(f, h)}
    <3>1. ASSUME devices'[d].generation = g, NEW h \in DOMAIN hs,
                 h >= FloorHour(devices'[d].deletedBefore)
          PROVE  stored'[d][h].version >= hs[h].version
      <4>1. Current(d, g) /\ devices'[d].deletedBefore = devices[d].deletedBefore
        BY <2>c, <3>1
      <4>2. DeviceIsCurrent(f) /\ flight[f].stage = "checked"
        BY <1>2, <2>5, <4>1 DEF AnswersStand, DeviceIsCurrent, CommitUsage, Current
      <4>3. stored' = [stored EXCEPT ![d] =
               [x \in Hour |-> IF x \in Written THEN hs[x] ELSE @[x]]]
        BY <2>5, <4>2 DEF CommitUsage
      <4>4. h \in Hour /\ hs[h].version \in Nat /\ stored[d][h].version \in Nat
        BY <2>0, <2>s
      <4>5. CASE h \in Written
        BY <1>t, <2>0, <4>3, <4>4, <4>5
      <4>6. CASE h \notin Written
        <5>1. stored'[d][h] = stored[d][h]
          BY <1>t, <2>0, <4>3, <4>4, <4>6
        <5>2. CASE h \in flight[f].accepted
          BY <4>4, <4>6, <5>1, <5>2 DEF NoNewerScan
        <5>3. CASE h \notin flight[f].accepted
          BY <1>2, <3>1, <4>1, <4>2, <5>1, <5>3 DEF AnswersStand, Landed
        <5> QED  BY <5>2, <5>3
      <4> QED  BY <4>5, <4>6
    <3> QED  BY <1>2, <2>5, <3>1
  <2>7. \/ flight'[f] = flight[f]
        \/ flight'[f].stage = "sent"
        \/ Refuse(f) /\ flight'[f].stage = "answered" /\ flight'[f].answer = Refusal(f)
        \/ CheckUsage(f) /\ Newer(f) = {} /\ flight'[f].stage = "answered" /\ flight'[f].answer = "written"
        \/ CheckUsage(f) /\ flight'[f].stage = "checked" /\ flight'[f].accepted = Newer(f)
        \/ CommitUsage(f) /\ flight'[f].stage = "answered" /\ flight'[f].answer = "written"
    <3>1. flight'[f] = [stage |-> "sent", device |-> session.device, session |-> session.serial,
                        generation |-> snap.generation, hours |-> Only(Batch, todo),
                        accepted |-> {}, answer |-> "none"] => flight'[f].stage = "sent"
      OBVIOUS
    <3> HIDE DEF d, g, hs
    <3> QED  BY <3>1, RequestMoves
  <2> QED  BY <1>1, <1>2, <2>1, <2>2, <2>3, <2>4, <2>5, <2>7
<1>3. flight'[f] = [stage |-> "sent", device |-> session.device, session |-> session.serial,
                    generation |-> snap.generation, hours |-> Only(Batch, todo),
                    accepted |-> {}, answer |-> "none"] => flight'[f].stage = "sent"
  OBVIOUS
<1> QED  BY <1>1, <1>2, <1>3, RequestMoves

-------------------------------------------------------------------------------
(***************************************************************************)
(* The facts of an hour are the newest of its copies, and its mark is      *)
(* their version: a scan that replaces the one replaces the other.         *)
(***************************************************************************)
CopiesBehind ==
  \A h \in Hour, v \in 0..LastVersion, r \in Rows :
    facts[h].version # 0 /\ Occurs(h, v, r) => v <= facts[h].version

MarksTell ==
  \A h \in Hour : facts[h].version # 0 /\ dirty[h] # 0 => dirty[h] = facts[h].version

LEMMA ScanMarks ==
  ASSUME NEW k \in {"full", "usage"}, Scan(k), NEW h \in Hour
  PROVE  \/ facts'[h] = facts[h] /\ dirty'[h] = dirty[h]
         \/ dirty'[h] = scanVersion + 1 /\ (facts'[h] = Nothing \/ facts'[h].version = scanVersion + 1)
<1>0. scanVersion' = scanVersion + 1
  BY DEF Scan
<1>1. PICK unread \in SUBSET Hour :
        LET moved == {g \in Hour \ unread : logs[g] # facts[g].rows}
        IN  /\ facts' = [g \in Hour |->
                 IF g \notin moved THEN facts[g]
                 ELSE IF logs[g] = Empty THEN Nothing
                 ELSE [version |-> scanVersion', rows |-> logs[g]]]
            /\ dirty' = [g \in Hour |-> IF g \in moved THEN scanVersion' ELSE dirty[g]]
  BY DEF Scan
<1> QED  BY <1>0, <1>1

LEMMA BehindStep ==
  ASSUME SyncInv, VersionsTell, CopiesBehind, [Next]_vars
  PROVE  CopiesBehind'
<1> SUFFICES ASSUME NEW h \in Hour, NEW v \in 0..LastVersion, NEW r \in Rows,
                    facts'[h].version # 0, Occurs(h, v, r)'
             PROVE  v <= facts'[h].version
  BY DEF CopiesBehind
<1>t. facts[h].version \in Nat /\ scanVersion \in Nat
  BY FactParts DEF SyncInv, TypeOK
<1>1. CASE \A k \in {"full", "usage"} : ~Scan(k)
  <2>0. Nothing.version = 0
    BY DEF Nothing
  <2>1. facts'[h] = facts[h]
    BY <1>1, <2>0, FactsStep
  <2>2. Occurs(h, v, r) \/ v = 0
    BY <1>1, CopiesOnly
  <2> QED  BY <1>t, <2>1, <2>2 DEF CopiesBehind
<1>2. ASSUME NEW k \in {"full", "usage"}, Scan(k) PROVE v <= facts'[h].version
  <2>1. Occurs(h, v, r) \/ v = 0 \/ v = scanVersion + 1
    BY <1>2, ScanIntroduces
  <2>2. CASE facts'[h] = facts[h] /\ dirty'[h] = dirty[h]
    <3>1. Occurs(h, v, r) \/ v = 0
      <4>1. UNCHANGED <<outbox, stored, flight>>
        BY <1>2 DEF Scan, queueVars, relayVars
      <4>2. h \in DOMAIN staged' => UNCHANGED staged
        BY <1>2, NoHoursParcel DEF Scan, Finish
      <4>3. h \in DOMAIN todo' => UNCHANGED todo
        BY <1>2, NoHoursParcel DEF Scan, Finish
      <4> QED  BY <2>2, <4>1, <4>2, <4>3 DEF Occurs
    <3> QED  BY <1>t, <2>2, <3>1 DEF CopiesBehind
  <2>3. CASE facts'[h].version = scanVersion + 1
    <3>1. Occurs(h, v, r) => v <= scanVersion
      BY DEF VersionsTell
    <3> QED  BY <1>t, <2>1, <2>3, <3>1
  <2> QED  BY <1>2, <2>2, <2>3, ScanMarks DEF Nothing
<1> QED  BY <1>1, <1>2

LEMMA MarksStep ==
  ASSUME SyncInv, MarksTell, [Next]_vars
  PROVE  MarksTell'
<1> SUFFICES ASSUME NEW h \in Hour, facts'[h].version # 0, dirty'[h] # 0
             PROVE  dirty'[h] = facts'[h].version
  BY DEF MarksTell
<1>1. CASE \A k \in {"full", "usage"} : ~Scan(k)
  BY <1>1, DirtyStep DEF MarksTell
<1>2. ASSUME NEW k \in {"full", "usage"}, Scan(k) PROVE dirty'[h] = facts'[h].version
  BY <1>2, ScanMarks DEF MarksTell, Nothing
<1> QED  BY <1>1, <1>2

(* The oldest hour of a set is one hour. *)
LEMMA OldestIsOne ==
  ASSUME NEW hs \in SUBSET Hour, NEW g \in Oldest(1, hs), NEW h \in Oldest(1, hs)
  PROVE  g = h
<1>1. ASSUME NEW x \in Oldest(1, hs), NEW y \in hs PROVE ~(y < x)
  <2> DEFINE before == {z \in hs : z < x}
  <2>0. x \in Nat /\ hs \subseteq Nat
    BY DEF Oldest
  <2>i. IsFiniteSet(0..x)
    BY <2>0, FS_Interval
  <2>1. before \in SUBSET (0..x)
    <3>1. \A z \in before : z \in Nat /\ z < x
      BY <2>0
    <3>2. \A z \in Nat : z < x => z \in 0..x
      BY <2>0
    <3> HIDE DEF before
    <3> QED  BY <3>1, <3>2
  <2>2. IsFiniteSet(before)
    BY <2>i, <2>1, FS_Subset
  <2>3. Cardinality(before) \in Nat /\ Cardinality(before) < 1
    BY <1>1, <2>2, FS_CardinalityType DEF Oldest
  <2>4. before = {}
    BY <2>2, <2>3, FS_EmptySet
  <2> QED  BY <1>1, <2>4
<1>2. g \in Nat /\ h \in Nat /\ g \in hs /\ h \in hs
  BY DEF Oldest
<1> QED  BY <1>1, <1>2

-------------------------------------------------------------------------------
(***************************************************************************)
(* What a refresh holds on its way from the marks to the Account.          *)
(***************************************************************************)
LaneHolds ==
  \A h \in Hour :
    /\ pc = "install" /\ h >= FloorHour(snap.deletedBefore) /\ facts[h].version # 0 => dirty[h] # 0
    /\ pc = "write" /\ h \in DOMAIN staged /\ facts[h].version # 0 =>
         staged[h].version = facts[h].version
    /\ pc = "clear" /\ h \in DOMAIN staged /\ facts[h].version # 0 =>
         Owned(outbox[h], snap) /\ outbox[h].version = facts[h].version
    /\ pc \in {"send", "await"} /\ h \in DOMAIN todo =>
         /\ Owned(outbox[h], snap)
         /\ outbox[h].version = todo[h].version /\ outbox[h].rows = todo[h].rows

RequestIsOfTheDrain ==
  pc = "await" =>
    /\ \A h \in DOMAIN flight[awaiting].hours :
         h \in DOMAIN todo /\ flight[awaiting].hours[h] = todo[h]
    /\ BatchHours = 1 => \A g, h \in DOMAIN flight[awaiting].hours : g = h

(* What happens around a refresh leaves it what it holds, or takes the cache away. *)
LEMMA AroundTheLane ==
  ASSUME [Next]_vars, ~Refresh, pc' # "idle"
  PROVE  \/ /\ UNCHANGED <<laneVars, outbox, context>>
            /\ UNCHANGED cacheVars \/ \A h \in Hour : facts'[h] = Nothing
         \/ /\ pc = "idle" /\ \E k \in {"full", "usage"} : Scan(k)
            /\ pc' \in {"control", "context"}
<1> USE DEF queueVars
<1>1. CASE Users
  <2>1. CASE LoseCache
    BY <2>1 DEF LoseCache
  <2>2. CASE CutShort
    BY <2>2 DEF CutShort, Finish
  <2> QED
    BY <1>1, <2>1, <2>2 DEF Users, WriteLog, ToggleUpload, Logout, TimePasses, Login, Delete
<1>2. ASSUME NEW k \in {"full", "usage"}, Scan(k)
      PROVE  pc = "idle" /\ pc' \in {"control", "context"}
  BY <1>2 DEF Scan, Finish
<1>3. CASE \/ \E f \in Flight : RelayHandles(f) \/ Lost(f)
           \/ RevokeArrives \/ LogoutAnswered
  BY <1>3 DEF RelayHandles, Lost, RevokeArrives, LogoutAnswered
<1>4. CASE UNCHANGED vars
  BY <1>4 DEF vars
<1> QED  BY <1>1, <1>2, <1>3, <1>4 DEF Next

LEMMA LaneHoldsStep ==
  ASSUME SyncInv, MarksTell, LaneHolds, [Next]_vars
  PROVE  LaneHolds'
<1> USE DEF Goto, Finish
<1>0. Nothing.version = 0 /\ pc \in Steps
  BY DEF Nothing, SyncInv, TypeOK
<1>1. CASE ~Refresh
  <2>1. CASE pc' \in {"idle", "control", "context"}
    BY <2>1 DEF LaneHolds
  <2>2. CASE UNCHANGED <<laneVars, outbox>> /\ UNCHANGED cacheVars
    BY <2>2 DEF LaneHolds, laneVars, cacheVars, Owned
  <2>3. CASE UNCHANGED <<laneVars, outbox>> /\ \A h \in Hour : facts'[h] = Nothing
    BY <1>0, <2>3 DEF LaneHolds, laneVars, Owned
  <2> QED  BY <1>1, <2>1, <2>2, <2>3, AroundTheLane
<1>2. CASE Control \/ InstallContext \/ ClearDirty
  <2>1. pc' \in {"idle", "context", "stage", "drain"}
    BY <1>2 DEF Control, InstallContext, ClearDirty
  <2> QED  BY <2>1 DEF LaneHolds
<1>3. CASE Context
  <2>1. CASE pc' \in {"idle", "stage"}
    BY <2>1 DEF LaneHolds
  <2>2. CASE pc' = "install" /\ UNCHANGED facts /\ dirty' = Reseed(snap')
    BY <2>2 DEF LaneHolds, Reseed
  <2> QED  BY <1>3, <2>1, <2>2 DEF Context
<1>4. CASE Stage
  <2>1. CASE pc' = "drain"
    BY <2>1 DEF LaneHolds
  <2>2. CASE pc' = "write"
    <3> DEFINE batch == Oldest(MaxStaged, {h \in Hour : /\ dirty[h] # 0
                                                       /\ h >= FirstHour(session)
                                                       /\ h < CompleteUntil})
    <3>1. /\ staged' = [h \in batch |-> [version |-> dirty[h], rows |-> facts[h].rows]]
          /\ UNCHANGED facts
      BY <1>4, <2>2 DEF Stage
    <3>2. \A h \in batch : h \in Hour /\ dirty[h] # 0
      BY DEF Oldest
    <3>3. \A h \in DOMAIN staged' : facts'[h].version # 0 => staged'[h].version = facts'[h].version
      BY <3>1, <3>2 DEF MarksTell
    <3> QED  BY <2>2, <3>3 DEF LaneHolds
  <2> QED  BY <1>4, <2>1, <2>2 DEF Stage
<1>5. CASE WriteOutbox
  <2>1. CASE pc' \in {"idle", "drain"}
    BY <2>1 DEF LaneHolds
  <2>2. CASE pc' = "clear"
    <3>1. /\ pc = "write" /\ UNCHANGED <<facts, staged, snap>>
          /\ outbox' = [h \in Hour |->
                IF h \notin DOMAIN staged THEN outbox[h]
                ELSE [version |-> staged[h].version, rows |-> staged[h].rows,
                      device |-> snap.device, generation |-> snap.generation]]
      BY <1>5, <2>2 DEF WriteOutbox, cacheVars
    <3>2. ASSUME NEW h \in Hour, h \in DOMAIN staged', facts'[h].version # 0
          PROVE  Owned(outbox'[h], snap') /\ outbox'[h].version = facts'[h].version
      <4>1. outbox'[h] = [version |-> staged[h].version, rows |-> staged[h].rows,
                          device |-> snap.device, generation |-> snap.generation]
        BY <3>1, <3>2
      <4>2. outbox'[h] \in Entry
        <5>1. staged[h] \in Reading
          BY <3>1, <3>2, ParcelParts DEF SyncInv, TypeOK
        <5>2. snap \in Sessions
          BY <3>1 DEF SyncInv, TypeOK, StepsHoldTheirs
        <5> QED  BY <4>1, <5>1, <5>2, SessionParts DEF Reading, Entry
      <4>3. staged[h].version = facts[h].version
        BY <3>1, <3>2 DEF LaneHolds
      <4> QED  BY <3>1, <4>1, <4>2, <4>3, NoneIsNoRow DEF Owned
    <3> QED  BY <2>2, <3>2 DEF LaneHolds
  <2> QED  BY <1>5, <2>1, <2>2 DEF WriteOutbox
<1>6. CASE StartDrain
  <2>1. CASE pc' = "idle"
    BY <2>1 DEF LaneHolds
  <2>2. CASE pc' = "send"
    <3>1. /\ todo' = [h \in {h \in Hour : Owned(outbox[h], session)} |->
                       [version |-> outbox[h].version, rows |-> outbox[h].rows]]
          /\ snap' = session /\ UNCHANGED outbox
      BY <1>6, <2>2 DEF StartDrain, queueVars
    <3>2. \A h \in DOMAIN todo' : /\ Owned(outbox'[h], snap')
                                  /\ outbox'[h].version = todo'[h].version
                                  /\ outbox'[h].rows = todo'[h].rows
      BY <3>1
    <3> QED  BY <2>2, <3>2 DEF LaneHolds
  <2> QED  BY <1>6, <2>1, <2>2 DEF StartDrain
<1>7. ASSUME pc \in {"send", "await"}, pc' \in {"send", "await"}, UNCHANGED snap,
             \A h \in DOMAIN todo' : /\ h \in DOMAIN todo /\ todo'[h] = todo[h]
                                     /\ h \in Hour => outbox'[h] = outbox[h]
      PROVE  LaneHolds'
  BY <1>7 DEF LaneHolds, Owned
<1>8. CASE DropUnsendable
  <2>1. \A h \in DOMAIN todo' : /\ h \in DOMAIN todo /\ todo'[h] = todo[h]
                                /\ h \in Hour => outbox'[h] = outbox[h]
    BY <1>8 DEF DropUnsendable, Only, Dropped
  <2> QED  BY <1>7, <1>8, <2>1 DEF DropUnsendable
<1>9. CASE SendBatch
  BY <1>7, <1>9 DEF SendBatch, LaneHolds, queueVars
<1>10. CASE Answered
  <2>1. CASE pc' = "idle"
    BY <2>1 DEF LaneHolds
  <2>2. CASE pc' = "send"
    <3>1. \A h \in DOMAIN todo' : /\ h \in DOMAIN todo /\ todo'[h] = todo[h]
                                  /\ h \in Hour => outbox'[h] = outbox[h]
      BY <1>10, <2>2 DEF Answered, Only, Dropped
    <3> QED  BY <1>7, <1>10, <2>2, <3>1 DEF Answered
  <2> QED  BY <1>10, <2>1, <2>2 DEF Answered
<1> QED
  BY <1>1, <1>2, <1>3, <1>4, <1>5, <1>6, <1>8, <1>9, <1>10 DEF Refresh

LEMMA RequestOfTheDrainStep ==
  ASSUME SyncInv, LaneHasItsSession, WaitsForItsOwn', RequestIsOfTheDrain, [Next]_vars
  PROVE  RequestIsOfTheDrain'
<1> SUFFICES ASSUME pc' = "await" PROVE RequestIsOfTheDrain'
  BY DEF RequestIsOfTheDrain
<1>1. flight'[awaiting'] # NoRequest
  BY DEF WaitsForItsOwn
<1>2. CASE SendBatch
  <2>1. PICK f \in Flight :
          /\ Send(f, session.device, session.serial, snap.generation, Only(Batch, todo))
          /\ awaiting' = f /\ UNCHANGED todo
    BY <1>2 DEF SendBatch, Finish
  <2>2. flight'[f].hours = Only(Batch, todo)
    <3>1. flight \in [Flight -> Request \cup {NoRequest}]
      BY DEF SyncInv, TypeOK, RelayTypeOK
    <3> QED  BY <2>1, <3>1 DEF Send
  <2>3. Batch \subseteq DOMAIN todo /\ (BatchHours = 1 => Batch \subseteq Oldest(1, DOMAIN todo))
    BY DEF Batch, Oldest
  <2>4. BatchHours = 1 => \A g, h \in Batch : g = h
    <3>1. DOMAIN todo \in SUBSET Hour
      BY ParcelParts DEF SyncInv, TypeOK
    <3> QED  BY <2>3, <3>1, OldestIsOne
  <2>5. DOMAIN Only(Batch, todo) = Batch /\ \A h \in Batch : Only(Batch, todo)[h] = todo[h]
    BY DEF Only
  <2> QED  BY <2>1, <2>2, <2>3, <2>4, <2>5 DEF RequestIsOfTheDrain
<1>3. CASE ~SendBatch
  <2>1. pc = "await" /\ UNCHANGED <<awaiting, todo>>
    <3> USE DEF Finish, Goto
    <3>1. CASE Refresh
      BY <1>3, <3>1 DEF Refresh, Control, Context, InstallContext, ClearDirty, Stage, WriteOutbox,
                        StartDrain, DropUnsendable, Answered
    <3>2. CASE ~Refresh
      BY <3>2, AroundTheLane DEF laneVars
    <3> QED  BY <3>1, <3>2
  <2>2. awaiting \in Flight
    BY <2>1 DEF SyncInv, StepsHoldTheirs
  <2>3. flight'[awaiting].hours = flight[awaiting].hours
    BY <1>1, <1>3, <2>1, <2>2, RequestMoves
  <2> QED  BY <2>1, <2>3 DEF RequestIsOfTheDrain
<1> QED  BY <1>2, <1>3

-------------------------------------------------------------------------------
(***************************************************************************)
(* An hour worth sending is marked, queued as the cache has it, or on the  *)
(* Account as the cache has it.                                            *)
(***************************************************************************)
Sendable(h) == facts[h].rows \notin {Empty} \cup Unsendable \cup Refused

Accounted(h) ==
  \/ dirty[h] # 0
  \/ Owned(outbox[h], context) /\ outbox[h].version = facts[h].version
  \/ stored[context.device][h] = facts[h]

NothingIsForgotten ==
  context # None /\ Current(context.device, context.generation) =>
    \A h \in Hour : h >= CeilHour(context.deletedBefore) /\ Sendable(h) => Accounted(h)

DeliveryInv ==
  /\ SignedInv /\ ContextIsTheSessions /\ AnswersStand /\ VersionsTell
  /\ CopiesBehind /\ MarksTell /\ LaneHolds /\ RequestIsOfTheDrain

LEMMA CeilAboveFloor ==
  ASSUME NEW i \in Nat, NEW h \in Nat, h >= CeilHour(i) PROVE h >= FloorHour(i)
  BY DEF CeilHour, FloorHour

(* What a reading of the hour at the version of the facts is. *)
LEMMA OfThatVersion ==
  ASSUME VersionsTell, NEW h \in Hour, NEW v \in 0..LastVersion, NEW r \in Rows, NEW q \in Rows,
         Occurs(h, v, r), Occurs(h, v, q)
  PROVE  q = r
  BY DEF VersionsTell

(* What is on the Account as the cache has it is not replaced while the cache has it so. *)
LEMMA StaysOnTheAccount ==
  ASSUME SyncInv, CopiesBehind', [Next]_vars, NEW d \in Device, NEW h \in Hour, ~Delete(d),
         facts'[h] = facts[h], facts[h].version # 0, stored[d][h] = facts[h]
  PROVE  stored'[d][h] = facts'[h]
<1>1. CASE stored'[d][h].version > stored[d][h].version
  <2>1. stored'[d][h] \in Reading \cup {Nothing}
    BY SyncStep DEF SyncInv, TypeOK, RelayTypeOK
  <2>2. stored'[d][h].version \in 0..LastVersion /\ stored'[d][h].rows \in Rows
    BY <2>1 DEF Reading, Nothing
  <2>3. PICK v \in 0..LastVersion, r \in Rows : stored'[d][h].version = v /\ stored'[d][h].rows = r
    BY <2>2
  <2>o. Occurs(h, v, r)'
    BY <2>3 DEF Occurs
  <2>4. v <= facts'[h].version
    BY <2>o DEF CopiesBehind
  <2>5. facts[h].version \in Nat
    <3>1. facts[h].version \in 0..LastVersion
      BY FactParts DEF SyncInv
    <3> QED  BY <3>1
  <2> QED  BY <1>1, <2>3, <2>4, <2>5
<1> QED  BY <1>1, StoredGrows

(* Who the queue is owed to is who the refresh is for. *)
LEMMA ForTheContext ==
  ASSUME SyncInv, SignedInv, ContextIsTheSessions, context # None,
         Current(context.device, context.generation)
  PROVE  /\ session \in Sessions /\ session # None
         /\ session.device = context.device /\ session.generation = context.generation
         /\ session.deletedBefore = context.deletedBefore
         /\ devices[session.device].deletedBefore = context.deletedBefore
         /\ pc \in {"install", "write", "clear", "send", "await"} => snap = session
         /\ pc = "context" => (IF kind = "full" /\ session # None THEN session ELSE snap) = session
         /\ context.device \in Device /\ context.deletedBefore \in Nat
<1>1. /\ session # None
      /\ session.device = context.device /\ session.generation = context.generation
      /\ session.deletedBefore = context.deletedBefore
  BY DEF ContextIsTheSessions
<1>2. session \in Sessions /\ context \in Contexts /\ kind \in {"full", "usage"}
  BY <1>1 DEF SyncInv, TypeOK
<1>3. devices[session.device].deletedBefore = context.deletedBefore
  BY <1>1 DEF SignedInv, SessionIsKnown, Current
<1>4. /\ pc \in {"install", "write", "clear", "send", "await"} => snap = session
      /\ pc = "context" => (IF kind = "full" /\ session # None THEN session ELSE snap) = session
  BY <1>1, <1>2 DEF SignedInv, LaneHasItsSession
<1>5. context.device \in Device /\ context.deletedBefore \in Nat
  BY <1>2 DEF Contexts
<1> QED  BY <1>1, <1>2, <1>3, <1>4, <1>5

(* A mark goes when the hour is queued, or was not to be sent. *)
LEMMA MarkGoes ==
  ASSUME SyncInv, DeliveryInv, [Next]_vars, UNCHANGED context, context # None,
         Current(context.device, context.generation),
         NEW h \in Hour, h >= CeilHour(context.deletedBefore),
         facts'[h] = facts[h], facts[h].version # 0, dirty[h] # 0, dirty'[h] = 0
  PROVE  /\ Owned(outbox'[h], context) /\ outbox'[h].version = facts[h].version
<1>d. /\ VersionsTell /\ LaneHolds /\ SignedInv /\ ContextIsTheSessions
  BY DEF DeliveryInv
<1>s. /\ session.device = context.device /\ session.generation = context.generation
      /\ session.deletedBefore = context.deletedBefore
      /\ pc \in {"install", "write", "clear", "send", "await"} => snap = session
      /\ pc = "context" => (IF kind = "full" /\ session # None THEN session ELSE snap) = session
      /\ h >= FloorHour(context.deletedBefore)
  BY <1>d, ForTheContext, CeilAboveFloor
<1>1. CASE LoseCache
  <2>1. facts'[h].version = 0
    BY <1>1 DEF LoseCache, Nothing
  <2> QED  BY <2>1
<1>2. CASE Context
  <2>1. dirty' = Reseed(session) \/ UNCHANGED dirty
    BY <1>2, <1>s DEF Context
  <2> QED  BY <1>s, <2>1 DEF Reseed
<1>3. CASE Stage
  <2>1. UNCHANGED dirty \/ dirty' = [g \in Hour |-> IF g < FirstHour(session) THEN 0 ELSE dirty[g]]
    BY <1>3 DEF Stage
  <2>2. ~(h < FirstHour(session))
    <3>1. FirstHour(session) \in Nat /\ h \in Nat /\ h >= FirstHour(session)
      <4>1. context.deletedBefore \in Nat
        BY <1>d, ForTheContext
      <4> QED  BY <1>s, <4>1 DEF FirstHour, CeilHour
    <3> QED  BY <3>1
  <2> QED  BY <2>1, <2>2
<1>4. CASE ClearDirty
  <2>1. pc = "clear" /\ h \in DOMAIN staged /\ UNCHANGED outbox
    BY <1>4 DEF ClearDirty, queueVars
  <2>2. Owned(outbox[h], snap) /\ outbox[h].version = facts[h].version
    BY <1>d, <2>1 DEF LaneHolds
  <2> QED  BY <1>s, <2>1, <2>2 DEF Owned
<1>5. ASSUME NEW k \in {"full", "usage"}, Scan(k) PROVE FALSE
  <2>1. scanVersion \in Nat
    BY DEF SyncInv, TypeOK
  <2> QED  BY <1>5, <2>1, ScanMarks
<1> QED  BY <1>1, <1>2, <1>3, <1>4, <1>5, WhoWrites

(* A queue entry goes when the Account has the hour, unless none takes it. *)
LEMMA EntryGoes ==
  ASSUME SyncInv, DeliveryInv, RefusedAlone, [Next]_vars, UNCHANGED context, ~InstallContext,
         context # None, Current(context.device, context.generation),
         NEW h \in Hour, h >= CeilHour(context.deletedBefore), Sendable(h),
         facts[h].version # 0, facts'[h] = facts[h],
         Owned(outbox[h], context), outbox[h].version = facts[h].version
  PROVE  \/ Owned(outbox'[h], context) /\ outbox'[h].version = facts[h].version
         \/ stored'[context.device][h] = facts[h]
<1>d. /\ VersionsTell /\ LaneHolds /\ SignedInv /\ ContextIsTheSessions /\ AnswersStand
      /\ CopiesBehind /\ RequestIsOfTheDrain /\ WaitsForItsOwn
  BY DEF DeliveryInv, SignedInv
<1>s. /\ session # None
      /\ session.device = context.device /\ session.generation = context.generation
      /\ devices[context.device].deletedBefore = context.deletedBefore
      /\ pc \in {"install", "write", "clear", "send", "await"} => snap = session
      /\ pc = "context" => (IF kind = "full" /\ session # None THEN session ELSE snap) = session
      /\ h >= FloorHour(context.deletedBefore)
      /\ context.device \in Device
  BY <1>d, ForTheContext, CeilAboveFloor
<1>f. /\ facts[h].version \in 0..LastVersion /\ facts[h].rows \in Rows
      /\ Occurs(h, facts[h].version, facts[h].rows)
  BY FactParts DEF SyncInv, Occurs
<1>e. outbox[h].rows = facts[h].rows
  <2>1. outbox[h] # None /\ outbox[h].rows \in Rows
    BY EntryParts DEF SyncInv, Owned
  <2>2. Occurs(h, facts[h].version, outbox[h].rows)
    BY <2>1 DEF Occurs
  <2> QED  BY <1>d, <1>f, <2>1, <2>2, OfThatVersion
<1>k. CASE outbox'[h] = outbox[h]
  BY <1>k
<1>1. CASE Context
  <2>1. UNCHANGED outbox
        \/ outbox' = [g \in Hour |-> IF Owned(outbox[g], session) THEN outbox[g] ELSE None]
    BY <1>1, <1>s DEF Context
  <2> QED  BY <1>s, <1>k, <2>1 DEF Owned
<1>2. CASE WriteOutbox
  <2>1. CASE UNCHANGED outbox
    BY <1>k, <2>1
  <2>2. CASE outbox' # outbox
    <3>1. /\ pc = "write" /\ snap = session
          /\ outbox' = [g \in Hour |->
                IF g \notin DOMAIN staged THEN outbox[g]
                ELSE [version |-> staged[g].version, rows |-> staged[g].rows,
                      device |-> snap.device, generation |-> snap.generation]]
      BY <1>2, <1>s, <2>2 DEF WriteOutbox
    <3>2. CASE h \in DOMAIN staged
      <4>1. staged[h].version = facts[h].version
        BY <1>d, <3>1, <3>2 DEF LaneHolds
      <4>2. outbox'[h] = [version |-> staged[h].version, rows |-> staged[h].rows,
                          device |-> snap.device, generation |-> snap.generation]
        BY <3>1, <3>2
      <4>3. outbox'[h] # None
        <5>1. staged[h] \in Reading /\ session \in Sessions
          BY <1>s, <3>2, ParcelParts DEF SyncInv, TypeOK
        <5>2. outbox'[h] \in Entry
          BY <3>1, <4>2, <5>1, SessionParts DEF Reading, Entry
        <5> QED  BY <5>2, NoneIsNoRow
      <4> QED  BY <1>s, <3>1, <4>1, <4>2, <4>3 DEF Owned
    <3> QED  BY <1>k, <3>1, <3>2
  <2> QED  BY <2>1, <2>2
<1>3. CASE DropUnsendable /\ outbox'[h] # outbox[h]
  <2>1. pc = "send" /\ h \in OldestHour /\ OldestHour \cap TooBig # {}
    BY <1>3 DEF DropUnsendable, Dropped
  <2>2. h \in TooBig
    <3>1. DOMAIN todo \in SUBSET Hour
      BY ParcelParts DEF SyncInv, TypeOK
    <3>2. PICK g \in OldestHour : g \in TooBig
      BY <2>1
    <3>3. g = h
      BY <2>1, <3>1, <3>2, OldestIsOne DEF OldestHour
    <3> QED  BY <3>2, <3>3
  <2>3. todo[h].rows = outbox[h].rows /\ todo[h].rows \in Unsendable
    BY <1>d, <2>1, <2>2 DEF LaneHolds, TooBig
  <2> QED  BY <1>e, <2>3 DEF Sendable
<1>4. CASE Answered /\ outbox'[h] # outbox[h]
  <2> DEFINE hs == DOMAIN flight[awaiting].hours
  <2>1. /\ pc = "await" /\ h \in hs /\ flight[awaiting].stage = "answered" /\ UNCHANGED stored
        /\ flight[awaiting].answer \in {"refused", "written"}
    BY <1>4 DEF Answered, Dropped
  <2>2. /\ flight[awaiting] # NoRequest /\ awaiting \in Flight
        /\ flight[awaiting].device = context.device
        /\ flight[awaiting].generation = context.generation
    BY <1>d, <1>s, <2>1 DEF WaitsForItsOwn, SyncInv, StepsHoldTheirs
  <2>3. /\ h \in DOMAIN todo /\ flight[awaiting].hours[h] = todo[h]
        /\ BatchHours = 1 => \A g \in hs : g = h
    BY <1>d, <2>1 DEF RequestIsOfTheDrain
  <2>4. flight[awaiting].hours[h].version = facts[h].version
        /\ flight[awaiting].hours[h].rows = facts[h].rows
    BY <1>d, <1>e, <2>1, <2>3 DEF LaneHolds
  <2>5. CASE flight[awaiting].answer = "refused"
    <3>1. \E g \in hs : flight[awaiting].hours[g].rows \in Refused
      BY <1>d, <2>1, <2>2, <2>5 DEF AnswersStand, Malformed
    <3> QED  BY <2>3, <2>4, <3>1 DEF RefusedAlone, Sendable
  <2>6. CASE flight[awaiting].answer = "written"
    <3> DEFINE held == stored[context.device][h]
    <3>1. held.version >= facts[h].version
      BY <1>d, <1>s, <2>1, <2>2, <2>4, <2>6 DEF AnswersStand, Landed
    <3>2. held \in Reading \cup {Nothing} /\ facts[h] \in Reading \cup {Nothing}
      <4>1. /\ stored \in [Device -> [Hour -> Reading \cup {Nothing}]]
            /\ facts \in [Hour -> Reading \cup {Nothing}]
            /\ context.device \in Device
        BY <1>s DEF SyncInv, TypeOK, RelayTypeOK
      <4> QED  BY <4>1
    <3>3. held.version \in 0..LastVersion /\ held.rows \in Rows
      BY <3>2 DEF Reading, Nothing
    <3>4. Occurs(h, held.version, held.rows)
      BY <1>s DEF Occurs
    <3>5. held.version <= facts[h].version
      BY <1>d, <3>3, <3>4 DEF CopiesBehind
    <3>6. held.version = facts[h].version
      BY <1>f, <3>1, <3>3, <3>5
    <3>7. held.rows = facts[h].rows
      BY <1>d, <1>f, <3>3, <3>4, <3>6, OfThatVersion
    <3>8. held = facts[h]
      BY <3>2, <3>6, <3>7 DEF Reading, Nothing
    <3> QED  BY <2>1, <3>8
  <2> QED  BY <2>1, <2>5, <2>6
<1> QED  BY <1>k, <1>1, <1>2, <1>3, <1>4, WhoWrites

LEMMA ForgottenStep ==
  ASSUME SyncInv, DeliveryInv, DeliveryInv', NothingIsForgotten, RefusedAlone, [Next]_vars
  PROVE  NothingIsForgotten'
<1> SUFFICES ASSUME context' # None, devices'[context'.device].generation = context'.generation,
                    NEW h \in Hour, h >= CeilHour(context'.deletedBefore), Sendable(h)'
             PROVE  Accounted(h)'
  BY DEF NothingIsForgotten, Current
<1>d. /\ MarksTell /\ LaneHolds /\ SignedInv /\ ContextIsTheSessions /\ CopiesBehind'
      /\ SessionIsKnown /\ ~leaving
  BY DEF DeliveryInv, SignedInv, SessionIsKnown
<1>z. facts'[h].version # 0 /\ facts'[h] # Nothing
  <2>1. facts'[h] \in Reading \cup {Nothing} /\ facts'[h] # Nothing
    BY SyncStep DEF SyncInv, TypeOK, Sendable, Nothing
  <2> QED  BY <2>1 DEF Reading
<1>1. CASE InstallContext
  <2>1. /\ pc = "install" /\ context' = Identity(snap) /\ UNCHANGED <<facts, dirty>>
    BY <1>1 DEF InstallContext, cacheVars
  <2>2. h >= FloorHour(snap.deletedBefore)
    <3>1. snap.deletedBefore \in Nat
      BY <2>1, SessionParts DEF SyncInv, StepsHoldTheirs, TypeOK
    <3> QED  BY <2>1, <3>1, CeilAboveFloor DEF Identity
  <2> QED  BY <1>d, <1>z, <2>1, <2>2 DEF LaneHolds, Accounted
<1>2. CASE UNCHANGED context /\ ~InstallContext
  <2>1. /\ context.device \in Device /\ context.generation \in Nat
        /\ context.generation <= devices[context.device].generation
    BY <1>2, <1>d DEF SyncInv, TypeOK, Contexts, ContextIsTheSessions
  <2>2. Current(context.device, context.generation) /\ ~Delete(context.device)
    BY <1>2, <1>d, <2>1, StillCurrent
  <2>3. CASE dirty'[h] # 0
    BY <2>3 DEF Accounted
  <2>4. CASE dirty'[h] = 0
    <3>1. facts'[h] = facts[h]
      <4>1. ASSUME NEW k \in {"full", "usage"}, Scan(k) PROVE facts'[h] = facts[h]
        <5>1. scanVersion \in Nat
          BY DEF SyncInv, TypeOK
        <5> QED  BY <2>4, <4>1, <5>1, ScanMarks
      <4> QED  BY <1>z, <4>1, FactsStep
    <3>2. Accounted(h)
      BY <1>2, <2>2, <3>1 DEF NothingIsForgotten, Sendable
    <3>3. CASE dirty[h] # 0
      BY <1>2, <1>z, <2>2, <2>4, <3>1, <3>3, MarkGoes DEF Accounted
    <3>4. CASE Owned(outbox[h], context) /\ outbox[h].version = facts[h].version
      BY <1>2, <1>z, <2>2, <3>1, <3>4, EntryGoes DEF Accounted, Sendable
    <3>5. CASE stored[context.device][h] = facts[h]
      BY <1>2, <1>d, <1>z, <2>1, <2>2, <3>1, <3>5, StaysOnTheAccount DEF Accounted
    <3> QED  BY <3>2, <3>3, <3>4, <3>5 DEF Accounted
  <2> QED  BY <2>3, <2>4
<1> QED  BY <1>1, <1>2, ContextMoves

-------------------------------------------------------------------------------
LEMMA DeliveryInit == Init => DeliveryInv /\ NothingIsForgotten
<1> SUFFICES ASSUME Init PROVE DeliveryInv /\ NothingIsForgotten
  OBVIOUS
<1>1. SignedInv /\ VersionsTell
  BY SignedInit, VersionsInit
<1>2. ContextIsTheSessions /\ NothingIsForgotten
  BY DEF Init, ContextIsTheSessions, NothingIsForgotten
<1>3. AnswersStand
  BY DEF Init, RelayInit, AnswersStand
<1>4. CopiesBehind /\ MarksTell
  BY DEF Init, Nothing, CopiesBehind, MarksTell
<1>5. LaneHolds /\ RequestIsOfTheDrain
  BY DEF Init, LaneHolds, RequestIsOfTheDrain
<1> QED  BY <1>1, <1>2, <1>3, <1>4, <1>5 DEF DeliveryInv

LEMMA DeliveryStep ==
  ASSUME NobodySignsOut, SyncInv, DeliveryInv, [Next]_vars
  PROVE  DeliveryInv'
<1>1. SignedInv' /\ WaitsForItsOwn'
  BY SignedStep DEF DeliveryInv, SignedInv
<1>2. ContextIsTheSessions' /\ AnswersStand'
  BY ContextStep, AnswersStep DEF DeliveryInv
<1>3. VersionsTell' /\ CopiesBehind' /\ MarksTell'
  BY VersionsStep, BehindStep, MarksStep DEF DeliveryInv
<1>4. LaneHolds' /\ RequestIsOfTheDrain'
  BY <1>1, LaneHoldsStep, RequestOfTheDrainStep DEF DeliveryInv, SignedInv
<1> QED  BY <1>1, <1>2, <1>3, <1>4 DEF DeliveryInv

LEMMA SettledHasIt ==
  ASSUME SyncInv, DeliveryInv, NothingIsForgotten PROVE SettledIsDelivered
<1> SUFFICES ASSUME Settled, NEW h \in Owing, Sendable(h)
             PROVE  stored[session.device][h] = facts[h]
  BY DEF SettledIsDelivered, Sendable
<1>1. /\ session # None /\ context = Identity(session) /\ h \in Hour
      /\ h >= CeilHour(session.deletedBefore) /\ dirty[h] = 0 /\ outbox[h] = None
      /\ devices[session.device].session = session.serial
  BY DEF Settled, Owing, Active
<1>2. context # None
  BY <1>1, SessionParts, NoneIsNoRow DEF SyncInv, TypeOK
<1>3. Current(context.device, context.generation)
  BY <1>1 DEF DeliveryInv, SignedInv, SessionIsKnown, Identity, Current
<1>4. Accounted(h)
  BY <1>1, <1>2, <1>3 DEF NothingIsForgotten, Identity
<1> QED  BY <1>1, <1>4 DEF Accounted, Owned, Identity

(***************************************************************************)
(* When a Mac nobody signed out is done, it has delivered: of every hour   *)
(* that is over and worth sending the Account holds what the cache has,    *)
(* whatever was lost, refused, deleted, switched off or cut short on the   *)
(* way, as long as a refused hour does not take others with it.            *)
(***************************************************************************)
THEOREM WhatIsSettledIsDelivered ==
  ASSUME NobodySignsOut, RefusedAlone PROVE SafetySpec => []SettledIsDelivered
<1> DEFINE Inv == DeliveryInv /\ NothingIsForgotten
<1>1. SyncInv /\ Inv /\ [Next]_vars => Inv'
  BY DeliveryStep, ForgottenStep
<1>2. SyncInv /\ Inv => SettledIsDelivered
  BY SettledHasIt
<1>3. Init => Inv
  BY DeliveryInit
<1> HIDE DEF Inv
<1> QED  BY <1>1, <1>2, <1>3, SyncInvariant, PTL DEF SafetySpec
===============================================================================
