------------------------- MODULE QuotaReports_proofs -------------------------
(***************************************************************************)
(* That what the Account stores of a Mac only ever gives way to a later    *)
(* reading or becomes a failure, and that after a refresh it is what the   *)
(* Mac last read, for any number of Macs and subscriptions and any number  *)
(* of uploads that are lost, late or cross.                                *)
(*                                                                         *)
(* What a batch writes was compared twice, in a read before it and again   *)
(* by the batch itself; that rows only grow needs only the second          *)
(* comparison, that they are the report needs both.                        *)
(***************************************************************************)
EXTENDS QuotaReports, TLAPS

USE DEF Instant, Generation, OrNone

(* What a report is made of is a result. *)
LEMMA ResultTypes ==
  /\ NoReadings \in [Subscription -> OrNone(Instant)]
  /\ Nothing \in Result
  /\ \A outcome \in Outcomes : Unread(outcome) \in Result
  /\ now \in Instant => \A got \in SUBSET Subscription : ReadNow(got) \in Result
  <1>1. NoReadings \in [Subscription -> OrNone(Instant)]
    BY DEF NoReadings
  <1>2. Nothing \in Result
    BY <1>1 DEF Nothing, Result, Outcomes
  <1>3. \A outcome \in Outcomes : Unread(outcome) \in Result
    BY <1>1 DEF Unread, Result
  <1>4. ASSUME now \in Instant, NEW got \in SUBSET Subscription PROVE ReadNow(got) \in Result
    BY <1>4 DEF ReadNow, Result, Outcomes
  <1> QED BY <1>1, <1>2, <1>3, <1>4

(* What an upload carries are readings. *)
LEMMA EnvelopeType ==
  ASSUME ReportsTypeOK, NEW d \in Device
  PROVE  Envelope(d) \in [Subscription -> OrNone(Reading)]
  <1>1. report[d] \in Result /\ previous[d] \in Result
    BY DEF ReportsTypeOK
  <1>2. ASSUME NEW s \in Subscription
        PROVE  /\ report[d].readings[s] \in OrNone(Instant)
               /\ previous[d].readings[s] \in OrNone(Instant)
               /\ s \in Restated(d) => previous[d].readings[s] # None
    BY <1>1 DEF Result, Restated
  <1> QED BY <1>2 DEF Envelope, Reading

(* Giving an upload up marks it as unheard or drops it. *)
LEMMA UnheardType ==
  ASSUME ReportsTypeOK, NEW d \in Device, Unheard(d)
  PROVE  wire' \subseteq Upload
  <1>1. wire \subseteq Upload
    BY DEF ReportsTypeOK
  <1>2. \A u \in Upload : [u EXCEPT !.heard = FALSE] \in Upload
    BY DEF Upload
  <1> QED BY <1>1, <1>2 DEF Unheard

LEMMA RestType ==
  ASSUME ReportsTypeOK, NEW d \in Device, Rest(d)
  PROVE  /\ previous' \in [Device -> Result]
         /\ step' \in [Device -> {"idle", "collected", "waiting"}]
         /\ tries' \in [Device -> 0..2]
  BY ResultTypes DEF ReportsTypeOK, Rest

LEMMA GoUntoldType ==
  ASSUME ReportsTypeOK, NEW d \in Device, GoUntold(d)
  PROVE  untold' \in [Device -> SUBSET Subscription]
  <1>1. Dropped(d) \subseteq Subscription
    BY DEF Dropped
  <1> QED BY <1>1 DEF ReportsTypeOK, GoUntold

LEMMA MishapType ==
  ASSUME ReportsTypeOK, NEW m, Mishap(m)
  PROVE  events' \in 0..MaxEvents
  BY ReportsAssumption DEF ReportsTypeOK, Mishap

(***************************************************************************)
(* Type correctness, action by action.                                     *)
(***************************************************************************)
LEMMA PassType ==
  ASSUME ReportsTypeOK, NEW d \in Device, NEW result \in Result, Pass(d, result),
         asked' \in [Device -> 0..LastInstant]
  PROVE  ReportsTypeOK'
  <1>1. /\ previous' \in [Device -> Result] /\ report' \in [Device -> Result]
        /\ step' \in [Device -> {"idle", "collected", "waiting"}]
        /\ told' \in [Device -> BOOLEAN]
    BY DEF ReportsTypeOK, Pass
  <1>2. tries' \in [Device -> 0..2]
    BY DEF ReportsTypeOK, Pass, Active
  <1>3. UNCHANGED <<now, session, device, rows, wire, events, untold>>
    BY DEF Pass, relayVars
  <1> QED BY <1>1, <1>2, <1>3 DEF ReportsTypeOK

LEMMA AsksType ==
  ASSUME ReportsTypeOK, NEW d \in Device, Ask(d) \/ AskNothing(d)
  PROVE  ReportsTypeOK'
  <1>1. report[d] \in Result
    BY DEF ReportsTypeOK
  <1>2. CASE Ask(d)
    <2>1. asked' \in [Device -> 0..LastInstant]
      BY <1>2, ReportsAssumption DEF ReportsTypeOK, Ask
    <2>2. PICK result \in Answers \cup {AfterLimit(report[d])} : Pass(d, result)
      BY <1>2 DEF Ask
    <2>3. now \in Instant
      BY DEF ReportsTypeOK
    <2>4. AfterLimit(report[d]) \in Result
      BY <1>1, ResultTypes DEF AfterLimit, Outcomes
    <2>5. result \in Result
      BY <2>2, <2>3, <2>4, ResultTypes DEF Answers, Outcomes
    <2> QED BY <2>1, <2>2, <2>5, PassType
  <1>3. CASE AskNothing(d)
    <2>1. asked' \in [Device -> 0..LastInstant]
      BY <1>3 DEF ReportsTypeOK, AskNothing
    <2> QED BY <1>1, <1>3, <2>1, PassType DEF AskNothing
  <1> QED BY <1>2, <1>3

LEMMA SendsType ==
  ASSUME ReportsTypeOK, NEW d \in Device, Send(d) \/ SendNothing(d) \/ SkipUpload(d)
  PROVE  ReportsTypeOK'
  <1>1. CASE Send(d)
    <2>1. session[d] \in Generation
      BY <1>1 DEF ReportsTypeOK, Send, Active
    <2>2. Envelope(d) \in [Subscription -> OrNone(Reading)]
      BY EnvelopeType
    <2>3. wire' \subseteq Upload
      <3>1. [device |-> d, generation |-> session[d], readings |-> Envelope(d), stage |-> "sent",
             accepted |-> {}, heard |-> TRUE, alone |-> TRUE] \in Upload
        BY <2>1, <2>2 DEF Upload
      <3> QED BY <1>1, <3>1 DEF ReportsTypeOK, Send
    <2>4. step' \in [Device -> {"idle", "collected", "waiting"}]
      BY <1>1 DEF ReportsTypeOK, Send
    <2>5. UNCHANGED <<now, report, previous, tries, session, asked, device, rows, events, told, untold>>
      BY <1>1 DEF Send, relayVars, historyVars
    <2> QED BY <2>3, <2>4, <2>5 DEF ReportsTypeOK
  <1>2. CASE SendNothing(d)
    <2>1. Rest(d) /\ told' \in [Device -> BOOLEAN]
      BY <1>2 DEF ReportsTypeOK, SendNothing
    <2>2. UNCHANGED <<now, report, session, asked, device, rows, wire, events, untold>>
      BY <1>2 DEF SendNothing, relayVars
    <2> QED BY <2>1, <2>2, RestType DEF ReportsTypeOK
  <1>3. CASE SkipUpload(d)
    <2>1. Rest(d) /\ GoUntold(d)
      BY <1>3 DEF SkipUpload
    <2>2. UNCHANGED <<now, report, session, asked, device, rows, wire, events, told>>
      BY <1>3 DEF SkipUpload, relayVars
    <2> QED BY <2>1, <2>2, RestType, GoUntoldType DEF ReportsTypeOK
  <1> QED BY <1>1, <1>2, <1>3

(* What a batch leaves of a subscription is a reading of the upload or the old one. *)
LEMMA StoredType ==
  ASSUME ReportsTypeOK, NEW u \in wire
  PROVE  [s \in Subscription |-> Stored(u, s)] \in [Subscription -> OrNone(Reading)]
  <1>1. u \in Upload
    BY DEF ReportsTypeOK
  <1>2. u.device \in Device /\ u.readings \in [Subscription -> OrNone(Reading)]
    BY <1>1 DEF Upload
  <1>3. rows[u.device] \in [Subscription -> OrNone(Reading)]
    BY <1>2 DEF ReportsTypeOK
  <1> QED BY <1>2, <1>3 DEF Stored

LEMMA RelayType ==
  ASSUME ReportsTypeOK, NEW u \in wire, Check(u) \/ Write(u) \/ Refuse(u)
  PROVE  ReportsTypeOK'
  <1>1. wire \subseteq Upload /\ u \in Upload /\ u.device \in Device
    BY DEF ReportsTypeOK, Upload
  <1>2. CASE Check(u)
    <2>1. \A S \in SUBSET Subscription :
            [u EXCEPT !.stage = "checked", !.alone = TRUE, !.accepted = S] \in Upload
      BY <1>1 DEF Upload
    <2>2. wire' \subseteq Upload
      BY <1>1, <1>2, <2>1 DEF Check
    <2> QED BY <1>2, <2>2 DEF Check, ReportsTypeOK, macVars, relayVars, historyVars
  <1>3. CASE Write(u)
    <2>1. rows' \in [Device -> [Subscription -> OrNone(Reading)]]
      BY <1>3, StoredType DEF Write, ReportsTypeOK
    <2>2. [u EXCEPT !.stage = "written"] \in Upload
      BY <1>1 DEF Upload
    <2>3. \A v \in Upload : [v EXCEPT !.alone = @ /\ v.device # u.device] \in Upload
      BY DEF Upload
    <2>4. wire' \subseteq Upload
      BY <1>1, <1>3, <2>2, <2>3 DEF Write
    <2>5. (u.heard /\ u.alone /\ Speaks(u.device, u.generation)) \in BOOLEAN
      OBVIOUS
    <2>6. told' \in [Device -> BOOLEAN]
      BY <1>3, <2>5 DEF Write, ReportsTypeOK
    <2>7. Unreported(u.device) \subseteq Subscription
      BY DEF Unreported
    <2>8. untold' \in [Device -> SUBSET Subscription]
      BY <1>1, <1>3, <2>7 DEF Write, ReportsTypeOK
    <2>9. UNCHANGED <<now, report, previous, step, tries, session, asked, device, events>>
      BY <1>3 DEF Write, macVars
    <2> QED BY <2>1, <2>4, <2>6, <2>8, <2>9 DEF ReportsTypeOK
  <1>4. CASE Refuse(u)
    <2>1. wire' \subseteq Upload
      BY <1>1, <1>4 DEF Refuse
    <2>2. UNCHANGED <<now, report, asked, device, rows, events, told>>
      BY <1>4 DEF Refuse, relayVars
    <2>3. CASE u.heard
      <3>1. Rest(u.device) /\ GoUntold(u.device)
        BY <1>4, <2>3 DEF Refuse
      <3>2. session' \in [Device -> {0} \cup Generation]
        BY <1>4, <2>3 DEF Refuse, ReportsTypeOK
      <3> QED BY <1>1, <2>1, <2>2, <3>1, <3>2, RestType, GoUntoldType DEF ReportsTypeOK
    <2>4. CASE ~u.heard
      <3>1. UNCHANGED <<previous, step, tries, session, untold>>
        BY <1>4, <2>4 DEF Refuse
      <3> QED BY <2>1, <2>2, <3>1 DEF ReportsTypeOK
    <2> QED BY <2>3, <2>4
  <1> QED BY <1>2, <1>3, <1>4

LEMMA AnswersType ==
  ASSUME ReportsTypeOK, NEW d \in Device, Hear(d) \/ GiveUp(d) \/ Restart(d)
  PROVE  ReportsTypeOK'
  <1>1. CASE Hear(d)
    <2>1. Rest(d) /\ wire' \subseteq wire
      BY <1>1 DEF Hear
    <2>2. UNCHANGED <<now, report, session, asked, device, rows, events, told, untold>>
      BY <1>1 DEF Hear, relayVars, historyVars
    <2> QED BY <2>1, <2>2, RestType DEF ReportsTypeOK
  <1>2. CASE GiveUp(d)
    <2>1. wire' \subseteq Upload
      BY <1>2, UnheardType DEF GiveUp
    <2>2. events' \in 0..MaxEvents
      BY <1>2, MishapType DEF GiveUp
    <2>3. UNCHANGED <<now, report, session, asked, device, rows, told>>
      BY <1>2 DEF GiveUp, relayVars
    <2>4. CASE TriesAgain(d)
      BY <2>1, <2>2, <2>3, <2>4 DEF TriesAgain, ReportsTypeOK
    <2>5. CASE GivesUp(d)
      BY <2>1, <2>2, <2>3, <2>5, RestType, GoUntoldType DEF GivesUp, ReportsTypeOK
    <2> QED BY <1>2, <2>4, <2>5 DEF GiveUp
  <1>3. CASE Restart(d)
    <2>1. wire' \subseteq Upload
      BY <1>3, UnheardType DEF Restart
    <2>2. events' \in 0..MaxEvents
      BY <1>3, MishapType DEF Restart
    <2>3. UNCHANGED <<now, report, session, asked, device, rows, told>>
      BY <1>3 DEF Restart, relayVars
    <2> QED BY <1>3, <2>1, <2>2, <2>3, RestType, GoUntoldType DEF Restart, GivesUp, ReportsTypeOK
  <1> QED BY <1>1, <1>2, <1>3

LEMMA SessionsType ==
  ASSUME ReportsTypeOK, NEW d \in Device, SignOut(d) \/ SignIn(d) \/ DeleteDevice(d)
  PROVE  ReportsTypeOK'
  <1>1. device[d] \in [generation : Generation, current : BOOLEAN]
    BY DEF ReportsTypeOK
  <1>2. CASE SignOut(d)
    <2>1. wire' \subseteq Upload /\ events' \in 0..MaxEvents /\ Rest(d)
      BY <1>2, UnheardType, MishapType DEF SignOut
    <2>2. untold' \in [Device -> SUBSET Subscription]
      BY <1>2, GoUntoldType DEF SignOut, ReportsTypeOK
    <2>3. /\ session' \in [Device -> {0} \cup Generation] /\ told' \in [Device -> BOOLEAN]
          /\ device' \in [Device -> [generation : Generation, current : BOOLEAN]]
      BY <1>1, <1>2 DEF SignOut, ReportsTypeOK
    <2>4. UNCHANGED <<now, report, asked, rows>>
      BY <1>2 DEF SignOut
    <2> QED BY <2>1, <2>2, <2>3, <2>4, RestType DEF ReportsTypeOK
  <1>3. CASE SignIn(d)
    <2>1. /\ session' \in [Device -> {0} \cup Generation]
          /\ device' \in [Device -> [generation : Generation, current : BOOLEAN]]
      BY <1>1, <1>3 DEF SignIn, ReportsTypeOK
    <2> QED BY <1>3, <2>1 DEF SignIn, ReportsTypeOK, historyVars
  <1>4. CASE DeleteDevice(d)
    <2>1. events' \in 0..MaxEvents
      BY <1>4, MishapType DEF DeleteDevice
    <2>2. device[d].generation + 1 \in Generation
      BY <1>1, <1>4, ReportsAssumption DEF DeleteDevice
    <2>3. device' \in [Device -> [generation : Generation, current : BOOLEAN]]
      BY <1>4, <2>2 DEF DeleteDevice, ReportsTypeOK
    <2>4. NoReadings \in [Subscription -> OrNone(Reading)]
      BY DEF NoReadings
    <2>5. /\ rows' \in [Device -> [Subscription -> OrNone(Reading)]]
          /\ told' \in [Device -> BOOLEAN] /\ untold' \in [Device -> SUBSET Subscription]
      BY <1>4, <2>4 DEF DeleteDevice, ReportsTypeOK
    <2>6. UNCHANGED <<now, report, previous, step, tries, session, asked, wire>>
      BY <1>4 DEF DeleteDevice, macVars
    <2> QED BY <2>1, <2>3, <2>5, <2>6 DEF ReportsTypeOK
  <1> QED BY <1>2, <1>3, <1>4

LEMMA TypeInit == ReportsInit => ReportsTypeOK
  <1> SUFFICES ASSUME ReportsInit PROVE ReportsTypeOK
    OBVIOUS
  <1>1. NoReadings \in [Subscription -> OrNone(Reading)]
    BY DEF NoReadings
  <1> QED BY <1>1, ResultTypes, ReportsAssumption DEF ReportsInit, ReportsTypeOK

LEMMA TypeStep == ReportsTypeOK /\ [ReportsNext]_reportsVars => ReportsTypeOK'
  <1> SUFFICES ASSUME ReportsTypeOK, [ReportsNext]_reportsVars PROVE ReportsTypeOK'
    OBVIOUS
  <1>1. ASSUME NEW d \in Device, MacNext(d) PROVE ReportsTypeOK'
    BY <1>1, AsksType, SendsType, AnswersType, SessionsType DEF MacNext
  <1>2. ASSUME RelayNext PROVE ReportsTypeOK'
    BY <1>2, RelayType DEF RelayNext
  <1>3. ASSUME Tick PROVE ReportsTypeOK'
    BY <1>3, ReportsAssumption DEF Tick, ReportsTypeOK, macVars, relayVars, historyVars
  <1>4. ASSUME UNCHANGED reportsVars PROVE ReportsTypeOK'
    BY <1>4 DEF ReportsTypeOK, reportsVars, macVars, relayVars, historyVars
  <1> QED BY <1>1, <1>2, <1>3, <1>4 DEF ReportsNext

(***************************************************************************)
(* Every variable of QuotaReports keeps its type: reports hold results,    *)
(* uploads under way and stored rows hold readings.                        *)
(***************************************************************************)
THEOREM ReportsTypes == ReportsSpec => []ReportsTypeOK
  <1> QED BY TypeInit, TypeStep, PTL DEF ReportsSpec

-------------------------------------------------------------------------------
(* Only a batch and a deletion change what is stored. *)
LEMMA WhoWritesRows ==
  ASSUME ReportsTypeOK, ReportsNext, rows' # rows
  PROVE  \/ \E u \in wire : Write(u)
         \/ \E d \in Device : DeleteDevice(d)
  <1>1. ASSUME NEW d \in Device, MacNext(d), ~DeleteDevice(d) PROVE rows' = rows
    BY <1>1 DEF MacNext, Ask, AskNothing, Pass, Send, SendNothing, SkipUpload, Hear, GiveUp,
                Restart, SignOut, SignIn, relayVars
  <1>2. ASSUME NEW u \in wire, Check(u) \/ Refuse(u) PROVE rows' = rows
    BY <1>2 DEF Check, Refuse, relayVars
  <1>3. ASSUME Tick PROVE rows' = rows
    BY <1>3 DEF Tick, relayVars
  <1> QED BY <1>1, <1>2, <1>3 DEF ReportsNext, RelayNext

(* A batch writes over a reading only what outranks it. *)
LEMMA BatchOutranks ==
  ASSUME ReportsTypeOK, NEW u \in wire, Write(u), NEW d \in Device, NEW s \in Subscription,
         rows[d][s] # None, rows'[d][s] \notin {None, rows[d][s]}
  PROVE  Outranks(rows'[d][s], rows[d][s])
  <1>1. u.device \in Device
    BY DEF ReportsTypeOK, Upload
  <1>2. u.device = d /\ rows'[d][s] = Stored(u, s)
    BY <1>1 DEF ReportsTypeOK, Write
  <1> QED BY <1>2 DEF Stored

(***************************************************************************)
(* Whatever uploads cross, are late or repeated, a stored reading gives    *)
(* way only to a later one, or to a failure of the same instant, until     *)
(* nothing is stored (recordSnapshot, snapshotWriteIsAccepted).            *)
(***************************************************************************)
THEOREM NewestWinsAlways == ReportsSpec => NewestWins
  <1>1. ASSUME ReportsTypeOK, [ReportsNext]_reportsVars,
               NEW d \in Device, NEW s \in Subscription,
               rows[d][s] # None, rows'[d][s] \notin {None, rows[d][s]}
        PROVE  \/ rows'[d][s].at > rows[d][s].at
               \/ rows'[d][s].at = rows[d][s].at /\ rows'[d][s].status = "failed"
    <2>1. rows' # rows
      BY <1>1
    <2>2. ReportsNext
      BY <1>1, <2>1 DEF reportsVars, relayVars
    <2>3. rows'[d][s] \in Reading
      <3>1. ReportsTypeOK'
        BY <1>1, TypeStep
      <3> QED BY <1>1, <3>1 DEF ReportsTypeOK
    <2>4. CASE \E u \in wire : Write(u)
      <3>1. Outranks(rows'[d][s], rows[d][s])
        BY <1>1, <2>4, BatchOutranks
      <3> QED BY <1>1, <2>3, <3>1 DEF Outranks, Reading
    <2>5. CASE \E e \in Device : DeleteDevice(e)
      <3>1. rows'[d][s] \in {None, rows[d][s]}
        BY <1>1, <2>5 DEF DeleteDevice, ReportsTypeOK, NoReadings
      <3> QED BY <1>1, <3>1
    <2> QED BY <1>1, <2>1, <2>2, <2>4, <2>5, WhoWritesRows
  <1>2. ReportsTypeOK /\ [ReportsNext]_reportsVars =>
          [\A d \in Device, s \in Subscription :
             rows[d][s] # None /\ rows'[d][s] \notin {None, rows[d][s]} =>
               \/ rows'[d][s].at > rows[d][s].at
               \/ rows'[d][s].at = rows[d][s].at /\ rows'[d][s].status = "failed"]_reportsVars
    BY <1>1
  <1> QED BY <1>2, ReportsTypes, PTL DEF ReportsSpec, NewestWins

-------------------------------------------------------------------------------
(***************************************************************************)
(* Why what the Account holds is what the Mac last read.  The invariant    *)
(* follows a reading from the report into the upload and into the row.     *)
(***************************************************************************)
(***************************************************************************)
(* The report is newer than whatever it sent: a reading of the same        *)
(* instant is the same reading, and none has become a failure yet.  What   *)
(* is no longer read is newer in the report before.                        *)
(***************************************************************************)
NewestIsHere ==
  \A d \in Device, s \in Subscription :
    /\ report[d].readings[s] # None => report[d].readings[s] <= asked[d]
    /\ previous[d].readings[s] # None => previous[d].readings[s] <= asked[d]

RankedBelow(r, d, s) ==
  r # None =>
    /\ r.at <= asked[d]
    /\ report[d].readings[s] # None =>
         r.at <= report[d].readings[s] /\ (r.at = report[d].readings[s] => r.status = "available")
    /\ report[d].readings[s] = None /\ previous[d].readings[s] # None =>
         r.at <= previous[d].readings[s]

RowsAreOlder == \A d \in Device, s \in Subscription : RankedBelow(rows[d][s], d, s)

WireIsOlder ==
  \A u \in wire : \A s \in Subscription : RankedBelow(u.readings[s], u.device, s)

(* A result is a success exactly when something was read; none was preceded by any. *)
SuccessReads ==
  \A d \in Device :
    /\ report[d].outcome = "success" <=> \E s \in Subscription : report[d].readings[s] # None
    /\ report[d].outcome = "none" => \A s \in Subscription : previous[d].readings[s] = None

(* Between refreshes there is no report before. *)
IdleForgets ==
  \A d \in Device : step[d] = "idle" => \A s \in Subscription : previous[d].readings[s] = None

(* A Mac waits for one upload, which states what its report and the one before do. *)
Faithful(u, s) ==
  LET t == report[u.device].readings[s]
      p == previous[u.device].readings[s]
  IN  IF t # None THEN u.readings[s] = [at |-> t, status |-> "available"]
      ELSE u.readings[s] = None \/ (p # None /\ u.readings[s] = [at |-> p, status |-> "failed"])

WaitsForOne ==
  /\ \A u \in wire : u.heard =>
       /\ step[u.device] = "waiting"
       /\ u.generation = session[u.device]
       /\ \A s \in Subscription : Faithful(u, s)
  /\ \A u, v \in wire : u.heard /\ v.heard /\ u.device = v.device => u = v

(***************************************************************************)
(* A session is of the device's generation or of an earlier one, and what  *)
(* its Mac ever sent is no later; deleting the device empties its rows and *)
(* nothing fills them before the next sign-in.                             *)
(***************************************************************************)
GenerationsGrow ==
  /\ \A d \in Device :
       Active(d) => /\ session[d] <= device[d].generation
                    /\ session[d] = device[d].generation => device[d].current
                    /\ session[d] # device[d].generation => rows[d] = NoReadings
  /\ \A u \in wire : u.generation <= device[u.device].generation
                     /\ (Active(u.device) => u.generation <= session[u.device])

(* What was refused when the rows were read would still be refused. *)
RefusedStays ==
  \A u \in wire : \A s \in Subscription :
    u.heard /\ u.alone /\ u.stage = "checked" /\ session[u.device] = device[u.device].generation
      /\ u.readings[s] # None /\ s \notin u.accepted
    => ~Outranks(u.readings[s], rows[u.device][s])

(***************************************************************************)
(* What is current on the Account and not excused is in the report, or it  *)
(* is in the report before while this refresh may still take it back.      *)
(***************************************************************************)
Pursued(d, s) ==
  \/ report[d].readings[s] # None
  \/ previous[d].readings[s] # None
     /\ \A u \in wire : u.device = d /\ u.heard => u.stage # "written"

CurrentIsKnown ==
  \A d \in Device, s \in Subscription :
    IsCurrent(rows[d][s]) => s \in untold[d] \/ Pursued(d, s)

(* Told, whether or not the Mac may speak at the moment. *)
ToldIsHeld ==
  \A d \in Device : told[d] => \A s \in Subscription \ untold[d] : Holds(d, s)

HeldInv ==
  /\ ReportsTypeOK /\ NewestIsHere /\ RowsAreOlder /\ WireIsOlder /\ SuccessReads /\ IdleForgets
  /\ WaitsForOne /\ GenerationsGrow /\ RefusedStays /\ CurrentIsKnown /\ ToldIsHeld

(* The parts of the invariant, but for the types and the generations. *)
Follows ==
  /\ NewestIsHere /\ RowsAreOlder /\ WireIsOlder /\ SuccessReads /\ IdleForgets
  /\ WaitsForOne /\ RefusedStays /\ CurrentIsKnown /\ ToldIsHeld

LEMMA HeldParts == HeldInv <=> ReportsTypeOK /\ GenerationsGrow /\ Follows
  BY DEF HeldInv, Follows

(* What is known of any upload and of any row. *)
LEMMA UploadParts ==
  ASSUME ReportsTypeOK, NEW u \in wire
  PROVE  /\ u \in Upload
         /\ u.device \in Device /\ u.generation \in Generation
         /\ u.readings \in [Subscription -> OrNone(Reading)]
  BY DEF ReportsTypeOK, Upload

LEMMA RowParts ==
  ASSUME ReportsTypeOK, NEW d \in Device, NEW s \in Subscription
  PROVE  /\ rows[d][s] \in OrNone(Reading)
         /\ report[d].readings[s] \in OrNone(Instant)
         /\ previous[d].readings[s] \in OrNone(Instant)
         /\ report[d].outcome \in Outcomes
         /\ asked[d] \in 0..LastInstant /\ now \in Instant
  BY DEF ReportsTypeOK, Result

(***************************************************************************)
(* A refresh that ends.  It is enough that no upload is waited for any     *)
(* more, that the others are those of before, and that what is current is  *)
(* in the report or excused.                                               *)
(***************************************************************************)
LEMMA RestFollows ==
  ASSUME ReportsTypeOK, Follows, NEW d \in Device, Rest(d),
         UNCHANGED <<now, report, asked, rows>>,
         \A w \in wire' : /\ ~(w.heard /\ w.device = d)
                          /\ \E v \in wire : /\ w.device = v.device /\ w.readings = v.readings
                                             /\ w.heard => w = v,
         \A e \in Device \ {d} : /\ session'[e] = session[e] /\ device'[e] = device[e]
                                 /\ told'[e] = told[e] /\ untold'[e] = untold[e],
         told'[d] => \A s \in Subscription \ untold'[d] : Holds(d, s),
         \A s \in Subscription : IsCurrent(rows[d][s]) =>
            s \in untold'[d] \/ report[d].readings[s] # None
  PROVE  Follows'
<1> USE DEF Follows
<1>1. /\ \A e \in Device \ {d} : previous'[e] = previous[e] /\ step'[e] = step[e]
      /\ previous'[d] = Nothing /\ step'[d] = "idle"
      /\ \A s \in Subscription : Nothing.readings[s] = None
  BY DEF Rest, ReportsTypeOK, Nothing, NoReadings
<1>2. \A w \in wire' : w.device \in Device /\ (w.heard => w \in wire /\ w.device # d)
  BY UploadParts
<1>3. NewestIsHere' /\ RowsAreOlder' /\ SuccessReads' /\ IdleForgets'
  BY <1>1 DEF NewestIsHere, RowsAreOlder, RankedBelow, SuccessReads, IdleForgets
<1>4. WireIsOlder'
  BY <1>1, <1>2 DEF WireIsOlder, RankedBelow
<1>5. WaitsForOne'
  BY <1>1, <1>2 DEF WaitsForOne, Faithful
<1>6. RefusedStays'
  BY <1>1, <1>2 DEF RefusedStays, Outranks
<1>7. CurrentIsKnown'
  BY <1>1, <1>2 DEF CurrentIsKnown, Pursued, IsCurrent, IsFresh
<1>8. ToldIsHeld'
  BY <1>1, <1>2 DEF ToldIsHeld, Holds, IsCurrent, IsFresh
<1> QED
  BY <1>3, <1>4, <1>5, <1>6, <1>7, <1>8

(* A refresh that could not say it leaves what it stopped reading excused. *)
LEMMA UntoldExcuses ==
  ASSUME ReportsTypeOK, Follows, NEW d \in Device, GoUntold(d), told'[d] => told[d]
  PROVE  /\ \A e \in Device \ {d} : untold'[e] = untold[e]
         /\ told'[d] => \A s \in Subscription \ untold'[d] : Holds(d, s)
         /\ \A s \in Subscription : IsCurrent(rows[d][s]) =>
              s \in untold'[d] \/ report[d].readings[s] # None
<1>1. CASE told[d]
  <2>1. untold' = untold
    BY <1>1 DEF GoUntold
  <2>2. \A s \in Subscription \ untold[d] : Holds(d, s)
    BY <1>1 DEF Follows, ToldIsHeld
  <2>3. ASSUME NEW s \in Subscription, IsCurrent(rows[d][s]) PROVE rows[d][s].at \in Instant
    <3>1. rows[d][s] \in OrNone(Reading)
      BY DEF ReportsTypeOK
    <3>2. rows[d][s] \in Reading
      BY <2>3, <3>1 DEF IsCurrent
    <3> QED  BY <3>2 DEF Reading
  <2>4. ASSUME NEW s \in Subscription, IsCurrent(rows[d][s]), s \notin untold[d]
        PROVE  report[d].readings[s] # None
    <3>1. rows[d][s].at = report[d].readings[s]
      BY <2>2, <2>4 DEF Holds
    <3> QED  BY <2>3, <2>4, <3>1, ReportsAssumption
  <2> QED  BY <2>1, <2>2, <2>4 DEF Holds, IsCurrent, IsFresh
<1>2. CASE ~told[d]
  <2>1. /\ \A e \in Device \ {d} : untold'[e] = untold[e]
        /\ untold'[d] = untold[d] \cup Dropped(d)
    BY <1>2 DEF GoUntold, ReportsTypeOK
  <2> QED  BY <1>2, <2>1 DEF Follows, CurrentIsKnown, Pursued, Dropped
<1> QED  BY <1>1, <1>2

(* Of an upload given up nobody waits, and what is left was there before. *)
LEMMA UnheardLeaves ==
  ASSUME ReportsTypeOK, NEW d \in Device, Unheard(d)
  PROVE  \A w \in wire' : /\ ~(w.heard /\ w.device = d)
                          /\ \E v \in wire : /\ w.device = v.device /\ w.readings = v.readings
                                             /\ w.generation = v.generation
                                             /\ w.heard => w = v
<1>1. \A u \in wire : LET w == [u EXCEPT !.heard = FALSE]
                      IN  /\ ~w.heard /\ w.device = u.device /\ w.readings = u.readings
                          /\ w.generation = u.generation
  <2> SUFFICES ASSUME NEW u \in wire
               PROVE  LET w == [u EXCEPT !.heard = FALSE]
                      IN  /\ ~w.heard /\ w.device = u.device /\ w.readings = u.readings
                          /\ w.generation = u.generation
    OBVIOUS
  <2>1. u \in Upload
    BY DEF ReportsTypeOK
  <2> DEFINE w == [u EXCEPT !.heard = FALSE]
  <2>2. /\ w.heard = FALSE /\ w.device = u.device /\ w.readings = u.readings
        /\ w.generation = u.generation
    BY <2>1 DEF Upload
  <2> QED  BY <2>2
<1> DEFINE mine == {u \in wire : u.device = d /\ u.heard}
             left == {[u EXCEPT !.heard = FALSE] : u \in {v \in mine : v.stage # "written"}}
<1>3. wire' = wire \ mine \/ wire' = (wire \ mine) \cup left
  BY DEF Unheard
<1>4. ASSUME NEW w \in wire \ mine
      PROVE  ~(w.heard /\ w.device = d)
  BY <1>4
<1>5. ASSUME NEW w \in left
      PROVE  ~w.heard /\ \E v \in wire : w.device = v.device /\ w.readings = v.readings
                                        /\ w.generation = v.generation
  <2>1. PICK u \in wire : w = [u EXCEPT !.heard = FALSE]
    BY <1>5
  <2> QED  BY <1>1, <2>1
<1> QED  BY <1>3, <1>4, <1>5

(***************************************************************************)
(* A pass.  A provider that is asked answers later than anything it ever   *)
(* answered; one that is not keeps its result.                             *)
(***************************************************************************)
LEMMA PassFollows ==
  ASSUME ReportsTypeOK, Follows, NEW d \in Device, NEW result \in Result, Pass(d, result),
         asked' \in [Device -> 0..LastInstant],
         \A e \in Device \ {d} : asked'[e] = asked[e],
         asked[d] <= asked'[d],
         \A s \in Subscription : result.readings[s] # None =>
           \/ result.readings[s] = report[d].readings[s]
           \/ result.readings[s] = asked'[d] /\ asked[d] < asked'[d],
         result.outcome = "success" <=> \E s \in Subscription : result.readings[s] # None,
         result.outcome = "none" => report[d].outcome = "none"
  PROVE  Follows'
<1> USE DEF Follows
<1>1. /\ \A e \in Device \ {d} : previous'[e] = previous[e] /\ step'[e] = step[e]
                                 /\ report'[e] = report[e] /\ told'[e] = told[e]
      /\ previous'[d] = report[d] /\ report'[d] = result
      /\ step[d] = "idle" /\ step'[d] = "collected" /\ told'[d] = FALSE
      /\ UNCHANGED <<now, session, device, rows, wire, events, untold>>
  BY DEF Pass, ReportsTypeOK, relayVars
<1>2. \A u \in wire : u.device \in Device /\ (u.heard => u.device # d)
  BY <1>1, UploadParts DEF WaitsForOne
<1>3. \A s \in Subscription : previous[d].readings[s] = None
  BY <1>1 DEF IdleForgets
<1>4. NewestIsHere'
  BY <1>1, RowParts, ReportsAssumption DEF NewestIsHere
<1>5. ASSUME NEW r, NEW e \in Device, NEW s \in Subscription, RankedBelow(r, e, s),
             r \in OrNone(Reading)
      PROVE  /\ r # None => r.at <= asked'[e]
             /\ r # None /\ report'[e].readings[s] # None =>
                  r.at <= report'[e].readings[s]
                  /\ (r.at = report'[e].readings[s] => r.status = "available")
             /\ r # None /\ report'[e].readings[s] = None /\ previous'[e].readings[s] # None =>
                  r.at <= previous'[e].readings[s]
  <2>1. r # None => r.at \in Instant
    BY <1>5 DEF Reading
  <2>2. /\ asked[e] \in Nat /\ asked'[e] \in Nat
        /\ report[e].readings[s] \in OrNone(Instant) /\ report'[e].readings[s] \in OrNone(Instant)
    BY <1>1, RowParts, ReportsAssumption DEF Result
  <2>3. CASE e = d
    BY <1>1, <1>5, <2>1, <2>2, <2>3, ReportsAssumption DEF RankedBelow
  <2>4. CASE e # d
    <3>1. report'[e] = report[e] /\ previous'[e] = previous[e] /\ asked[e] <= asked'[e]
      BY <1>1, <2>4, ReportsAssumption
    <3> QED  BY <1>5, <2>1, <2>2, <3>1 DEF RankedBelow
  <2> QED  BY <2>3, <2>4
<1>6. RowsAreOlder'
  <2>1. \A e \in Device, s \in Subscription :
          rows[e][s] \in OrNone(Reading) /\ RankedBelow(rows[e][s], e, s)
    BY RowParts DEF RowsAreOlder
  <2>2. rows' = rows
    BY <1>1
  <2>3. ASSUME NEW e \in Device, NEW s \in Subscription PROVE RankedBelow(rows[e][s], e, s)'
    <3> DEFINE r == rows[e][s]
    <3>1. r \in OrNone(Reading) /\ RankedBelow(r, e, s)
      BY <2>1
    <3> HIDE DEF r
    <3>2. /\ r # None => r.at <= asked'[e]
          /\ r # None /\ report'[e].readings[s] # None =>
               r.at <= report'[e].readings[s]
               /\ (r.at = report'[e].readings[s] => r.status = "available")
          /\ r # None /\ report'[e].readings[s] = None /\ previous'[e].readings[s] # None =>
               r.at <= previous'[e].readings[s]
      BY <1>5, <3>1
    <3>3. rows'[e][s] = r
      BY <2>2 DEF r
    <3> QED  BY <3>2, <3>3 DEF RankedBelow
  <2> QED  BY <2>3 DEF RowsAreOlder
<1>7. WireIsOlder'
  <2>1. \A u \in wire : \A s \in Subscription : u.readings[s] \in OrNone(Reading)
    BY UploadParts
  <2>2. ASSUME NEW u \in wire, NEW s \in Subscription
        PROVE  RankedBelow(u.readings[s], u.device, s)'
    <3> DEFINE r == u.readings[s]
               e == u.device
    <3>1. r \in OrNone(Reading) /\ e \in Device /\ RankedBelow(r, e, s)
      BY <1>2, <2>1 DEF WireIsOlder
    <3> HIDE DEF r, e
    <3>2. /\ r # None => r.at <= asked'[e]
          /\ r # None /\ report'[e].readings[s] # None =>
               r.at <= report'[e].readings[s]
               /\ (r.at = report'[e].readings[s] => r.status = "available")
          /\ r # None /\ report'[e].readings[s] = None /\ previous'[e].readings[s] # None =>
               r.at <= previous'[e].readings[s]
      BY <1>5, <3>1
    <3> QED  BY <3>2 DEF RankedBelow, r, e
  <2> QED  BY <1>1, <2>2 DEF WireIsOlder
<1>8. SuccessReads' /\ IdleForgets'
  BY <1>1, <1>3, RowParts DEF SuccessReads, IdleForgets, Outcomes
<1>9. WaitsForOne' /\ RefusedStays'
  BY <1>1, <1>2 DEF WaitsForOne, Faithful, RefusedStays, Outranks
<1>10. CurrentIsKnown'
  BY <1>1, <1>2, <1>3 DEF CurrentIsKnown, Pursued, IsCurrent, IsFresh
<1>11. ToldIsHeld'
  BY <1>1 DEF ToldIsHeld, Holds, IsCurrent, IsFresh
<1> QED
  BY <1>4, <1>6, <1>7, <1>8, <1>9, <1>10, <1>11

LEMMA AsksFollow ==
  ASSUME ReportsTypeOK, Follows, NEW d \in Device, Ask(d) \/ AskNothing(d)
  PROVE  Follows'
<1>0. /\ report[d] \in Result /\ now \in Instant /\ asked \in [Device -> 0..LastInstant]
      /\ report[d].outcome = "success" <=> \E s \in Subscription : report[d].readings[s] # None
  BY DEF ReportsTypeOK, Follows, SuccessReads
<1>1. CASE AskNothing(d)
  BY <1>0, <1>1, PassFollows, ReportsAssumption DEF AskNothing
<1>2. CASE Ask(d)
  <2>1. /\ asked' \in [Device -> 0..LastInstant]
        /\ \A e \in Device \ {d} : asked'[e] = asked[e]
        /\ asked[d] < asked'[d] /\ asked'[d] = now
    BY <1>0, <1>2, ReportsAssumption DEF Ask
  <2>2. PICK result \in Answers \cup {AfterLimit(report[d])} : Pass(d, result)
    BY <1>2 DEF Ask
  <2>3. /\ result \in Result
        /\ \A s \in Subscription : result.readings[s] # None =>
             result.readings[s] = report[d].readings[s] \/ result.readings[s] = now
        /\ result.outcome = "success" <=> \E s \in Subscription : result.readings[s] # None
        /\ result.outcome = "none" => report[d].outcome = "none"
    <3>1. CASE result \in {Unread("failed"), Unread("absent")}
      BY <3>1, ResultTypes DEF Unread, NoReadings, Outcomes
    <3>2. CASE \E got \in (SUBSET Subscription) \ {{}} : result = ReadNow(got)
      <4>1. PICK got \in (SUBSET Subscription) \ {{}} : result = ReadNow(got)
        BY <3>2
      <4>2. /\ result \in Result /\ result.outcome = "success"
            /\ \A s \in Subscription : result.readings[s] = IF s \in got THEN now ELSE None
        BY <1>0, <4>1, ResultTypes DEF ReadNow
      <4>3. got \subseteq Subscription /\ got # {}
        OBVIOUS
      <4>4. PICK s \in Subscription : s \in got
        BY <4>3
      <4> QED  BY <1>0, <4>2, <4>4, ReportsAssumption
    <3>3. CASE result = AfterLimit(report[d])
      BY <1>0, <3>3, ResultTypes DEF AfterLimit, Unread, NoReadings, Outcomes
    <3> QED  BY <2>2, <3>1, <3>2, <3>3 DEF Answers
  <2>4. asked[d] <= asked'[d]
    BY <1>0, <2>1, ReportsAssumption
  <2> QED  BY <2>1, <2>2, <2>3, <2>4, PassFollows
<1> QED  BY <1>1, <1>2

(* An upload begins: what it states are the readings of the report and of the one before. *)
LEMMA SendFollows ==
  ASSUME ReportsTypeOK, Follows, NEW d \in Device, Send(d)
  PROVE  Follows'
<1> USE DEF Follows
<1> DEFINE new == [device |-> d, generation |-> session[d], readings |-> Envelope(d),
                   stage |-> "sent", accepted |-> {}, heard |-> TRUE, alone |-> TRUE]
<1>1. /\ wire' = wire \cup {new}
      /\ step[d] = "collected" /\ step'[d] = "waiting"
      /\ \A e \in Device \ {d} : step'[e] = step[e]
      /\ UNCHANGED <<now, report, previous, session, asked, device, rows, told, untold>>
  BY DEF Send, relayVars, historyVars, ReportsTypeOK
<1>2. /\ new.device = d /\ new.generation = session[d] /\ new.readings = Envelope(d)
      /\ new.stage = "sent" /\ new.heard
  OBVIOUS
<1>3. \A u \in wire : u.device \in Device /\ (u.heard => u.device # d)
  BY <1>1, UploadParts DEF WaitsForOne
<1>4. ASSUME NEW s \in Subscription
      PROVE  /\ RankedBelow(Envelope(d)[s], d, s)
             /\ report[d].readings[s] # None =>
                  Envelope(d)[s] = [at |-> report[d].readings[s], status |-> "available"]
             /\ report[d].readings[s] = None =>
                  \/ Envelope(d)[s] = None
                  \/ /\ previous[d].readings[s] # None
                     /\ Envelope(d)[s] = [at |-> previous[d].readings[s], status |-> "failed"]
  <2>1. /\ report[d].readings[s] \in OrNone(Instant) /\ previous[d].readings[s] \in OrNone(Instant)
        /\ report[d].readings[s] # None => report[d].readings[s] <= asked[d]
        /\ previous[d].readings[s] # None => previous[d].readings[s] <= asked[d]
    BY RowParts DEF NewestIsHere
  <2> QED  BY <2>1, ReportsAssumption DEF Envelope, Restated, RankedBelow
<1>5. NewestIsHere' /\ RowsAreOlder' /\ SuccessReads' /\ IdleForgets'
  BY <1>1 DEF NewestIsHere, RowsAreOlder, RankedBelow, SuccessReads, IdleForgets
<1> HIDE DEF new
<1>6. WireIsOlder'
  <2>1. \A u \in wire, s \in Subscription : RankedBelow(u.readings[s], u.device, s)
    BY DEF WireIsOlder
  <2>2. \A s \in Subscription : RankedBelow(new.readings[s], new.device, s)
    BY <1>2, <1>4
  <2>3. \A u \in wire' : u \in wire \/ u = new
    BY <1>1
  <2> QED  BY <1>1, <2>1, <2>2, <2>3 DEF WireIsOlder, RankedBelow
<1>7. WaitsForOne'
  BY <1>1, <1>2, <1>3, <1>4 DEF WaitsForOne, Faithful
<1>8. RefusedStays' /\ CurrentIsKnown' /\ ToldIsHeld'
  BY <1>1, <1>2, <1>3
     DEF RefusedStays, Outranks, CurrentIsKnown, Pursued, ToldIsHeld, Holds, IsCurrent, IsFresh
<1> QED
  BY <1>5, <1>6, <1>7, <1>8

(* With nothing to state, nothing of the Mac's is current but what is excused. *)
LEMMA SendNothingFollows ==
  ASSUME ReportsTypeOK, Follows, NEW d \in Device, SendNothing(d)
  PROVE  Follows'
<1>1. /\ Rest(d) /\ step[d] = "collected" /\ Envelope(d) = NoReadings
      /\ told' = [told EXCEPT ![d] = TRUE]
      /\ UNCHANGED <<now, report, session, asked, device, rows, wire, untold>>
  BY DEF SendNothing, relayVars
<1>2. \A w \in wire : ~(w.heard /\ w.device = d)
  BY <1>1 DEF Follows, WaitsForOne
<1>3. \A s \in Subscription : report[d].readings[s] = None /\ s \notin Restated(d)
  <2> SUFFICES ASSUME NEW s \in Subscription
               PROVE  report[d].readings[s] = None /\ s \notin Restated(d)
    OBVIOUS
  <2>1. Envelope(d)[s] = None
    BY <1>1 DEF NoReadings
  <2>2. report[d].readings[s] \in OrNone(Instant) /\ previous[d].readings[s] \in OrNone(Instant)
    BY RowParts
  <2>3. ASSUME NEW t \in Instant, NEW status \in {"available", "failed"}
        PROVE  [at |-> t, status |-> status] # None
    BY NoReadingIsNone DEF Reading
  <2>4. report[d].readings[s] = None
    BY <2>1, <2>2, <2>3 DEF Envelope
  <2>5. s \in Restated(d) => previous[d].readings[s] # None
    BY DEF Restated
  <2> QED  BY <2>1, <2>2, <2>3, <2>4, <2>5 DEF Envelope
<1>5. report[d].outcome \in {"none", "failed", "absent"}
  BY <1>3, RowParts DEF Follows, SuccessReads, Outcomes, ReportsTypeOK, Result
<1>6. ASSUME NEW s \in Subscription, IsCurrent(rows[d][s])
      PROVE  s \in untold[d]
  <2>1. CASE previous[d].readings[s] = None
    BY <1>3, <1>6, <2>1 DEF Follows, CurrentIsKnown, Pursued
  <2>2. CASE previous[d].readings[s] # None
    <3>1. ~IsFresh(previous[d].readings[s])
      BY <1>3, <1>5, <2>2 DEF Restated, Follows, SuccessReads
    <3>2. rows[d][s] # None /\ rows[d][s].at <= previous[d].readings[s]
      BY <1>3, <1>6, <2>2 DEF Follows, RowsAreOlder, RankedBelow, IsCurrent
    <3>3. rows[d][s].at \in Nat /\ previous[d].readings[s] \in Nat /\ now \in Nat
      <4>1. rows[d][s] \in Reading
        BY <3>2, RowParts
      <4> QED  BY <2>2, <4>1, RowParts, ReportsAssumption DEF Reading
    <3> QED  BY <1>6, <3>1, <3>2, <3>3, ReportsAssumption DEF IsCurrent, IsFresh
  <2> QED  BY <2>1, <2>2
<1>7. told'[d] => \A s \in Subscription \ untold'[d] : Holds(d, s)
  BY <1>1, <1>3, <1>6 DEF Holds
<1>8. \A e \in Device \ {d} : told'[e] = told[e]
  BY <1>1 DEF ReportsTypeOK
<1> QED
  BY <1>1, <1>2, <1>6, <1>7, <1>8, RestFollows

LEMMA SkipFollows ==
  ASSUME ReportsTypeOK, Follows, NEW d \in Device, SkipUpload(d)
  PROVE  Follows'
<1>1. /\ Rest(d) /\ GoUntold(d) /\ step[d] = "collected"
      /\ UNCHANGED <<now, report, session, asked, device, rows, wire, told>>
  BY DEF SkipUpload, relayVars
<1>2. \A w \in wire : ~(w.heard /\ w.device = d)
  BY <1>1 DEF Follows, WaitsForOne
<1> QED
  BY <1>1, <1>2, UntoldExcuses, RestFollows

(* An answer ends the refresh; its batch has left nothing current that is not in the report. *)
LEMMA HearFollows ==
  ASSUME ReportsTypeOK, Follows, NEW d \in Device, Hear(d)
  PROVE  Follows'
<1>1. PICK u \in wire : u.device = d /\ u.heard /\ u.stage = "written" /\ wire' = wire \ {u}
  BY DEF Hear
<1>2. /\ Rest(d)
      /\ UNCHANGED <<now, report, session, asked, device, rows, told, untold>>
  BY DEF Hear, relayVars, historyVars
<1>3. \A w \in wire' : w \in wire /\ ~(w.heard /\ w.device = d)
  BY <1>1 DEF Follows, WaitsForOne
<1>4. \A s \in Subscription : IsCurrent(rows[d][s]) =>
         s \in untold'[d] \/ report[d].readings[s] # None
  BY <1>1, <1>2 DEF Follows, CurrentIsKnown, Pursued
<1>5. told'[d] => \A s \in Subscription \ untold'[d] : Holds(d, s)
  BY <1>2 DEF Follows, ToldIsHeld
<1> QED
  BY <1>2, <1>3, <1>4, <1>5, RestFollows

(* A refresh that gives its upload up, stops with its process, or is cancelled by a sign-out. *)
LEMMA GivesUpFollows ==
  ASSUME ReportsTypeOK, Follows, NEW d \in Device, Unheard(d), Rest(d), GoUntold(d),
         UNCHANGED <<now, report, asked, rows>>, told'[d] => told[d],
         \A e \in Device \ {d} : session'[e] = session[e] /\ device'[e] = device[e]
                                 /\ told'[e] = told[e]
  PROVE  Follows'
  BY UnheardLeaves, UntoldExcuses, RestFollows

LEMMA AnswersFollow ==
  ASSUME ReportsTypeOK, Follows, NEW d \in Device, GiveUp(d) \/ Restart(d) \/ SignOut(d)
  PROVE  Follows'
<1>1. CASE Restart(d)
  BY <1>1, GivesUpFollows DEF Restart, GivesUp, relayVars
<1>2. CASE GiveUp(d) /\ GivesUp(d)
  BY <1>2, GivesUpFollows DEF GiveUp, GivesUp, relayVars
<1>3. CASE GiveUp(d) /\ TriesAgain(d)
  <2>1. /\ step'[d] = "collected" /\ (\A e \in Device \ {d} : step'[e] = step[e])
        /\ UNCHANGED <<now, report, previous, session, asked, device, rows, told, untold>>
    BY <1>3 DEF GiveUp, TriesAgain, relayVars, ReportsTypeOK
  <2>2. \A w \in wire' : /\ ~(w.heard /\ w.device = d)
                         /\ \E v \in wire : /\ w.device = v.device /\ w.readings = v.readings
                                            /\ w.heard => w = v
    BY <1>3, UnheardLeaves DEF GiveUp
  <2>3. \A w \in wire' : w.device \in Device /\ (w.heard => w \in wire /\ w.device # d)
    BY <2>2, UploadParts
  <2> USE DEF Follows
  <2>4. NewestIsHere' /\ RowsAreOlder' /\ SuccessReads' /\ IdleForgets'
    BY <2>1 DEF NewestIsHere, RowsAreOlder, RankedBelow, SuccessReads, IdleForgets
  <2>5. WireIsOlder'
    BY <2>1, <2>2, <2>3 DEF WireIsOlder, RankedBelow
  <2>6. WaitsForOne' /\ RefusedStays'
    BY <2>1, <2>3 DEF WaitsForOne, Faithful, RefusedStays, Outranks
  <2>7. CurrentIsKnown' /\ ToldIsHeld'
    BY <2>1, <2>3 DEF CurrentIsKnown, Pursued, ToldIsHeld, Holds, IsCurrent, IsFresh
  <2> QED  BY <2>4, <2>5, <2>6, <2>7
<1>4. CASE SignOut(d)
  <2>1. /\ Unheard(d) /\ Rest(d)
        /\ UNCHANGED <<now, report, asked, rows>>
        /\ told'[d] = FALSE
        /\ \A e \in Device \ {d} : session'[e] = session[e] /\ device'[e] = device[e]
                                   /\ told'[e] = told[e]
    BY <1>4 DEF SignOut, ReportsTypeOK
  <2>2. CASE step[d] = "idle"
    <3>1. untold' = untold
      BY <1>4, <2>2 DEF SignOut
    <3>2. \A s \in Subscription : IsCurrent(rows[d][s]) =>
             s \in untold'[d] \/ report[d].readings[s] # None
      BY <2>2, <3>1 DEF Follows, CurrentIsKnown, Pursued, IdleForgets
    <3> QED  BY <2>1, <3>1, <3>2, UnheardLeaves, RestFollows
  <2>3. CASE step[d] # "idle"
    <3>1. GoUntold(d)
      BY <1>4, <2>3 DEF SignOut
    <3> QED  BY <2>1, <3>1, GivesUpFollows
  <2> QED  BY <2>2, <2>3
<1> QED
  BY <1>1, <1>2, <1>3, <1>4 DEF GiveUp

(* The Relay reads the rows and accepts what outranks them. *)
LEMMA CheckFollows ==
  ASSUME ReportsTypeOK, Follows, NEW u \in wire, Check(u)
  PROVE  Follows'
<1> USE DEF Follows
<1> DEFINE accepted == {s \in Subscription : u.readings[s] # None
                                             /\ Outranks(u.readings[s], rows[u.device][s])}
           new == [u EXCEPT !.stage = "checked", !.alone = TRUE, !.accepted = accepted]
<1>1. /\ wire' = (wire \ {u}) \cup {new} /\ u.stage = "sent"
      /\ UNCHANGED <<now, report, previous, step, session, asked, device, rows, told, untold>>
  BY DEF Check, macVars, relayVars, historyVars
<1>2. /\ u \in Upload /\ u.device \in Device
  BY UploadParts
<1>3. /\ new.device = u.device /\ new.generation = u.generation /\ new.readings = u.readings
      /\ new.heard = u.heard /\ new.stage = "checked" /\ new.accepted = accepted
  BY <1>2 DEF Upload
<1>4. \A s \in Subscription : u.readings[s] # None /\ s \notin accepted =>
         ~Outranks(u.readings[s], rows[u.device][s])
  OBVIOUS
<1> HIDE DEF new, accepted
<1>5. NewestIsHere' /\ RowsAreOlder' /\ SuccessReads' /\ IdleForgets'
  BY <1>1 DEF NewestIsHere, RowsAreOlder, RankedBelow, SuccessReads, IdleForgets
<1>6. WireIsOlder'
  BY <1>1, <1>3 DEF WireIsOlder, RankedBelow
<1>7. WaitsForOne'
  BY <1>1, <1>3 DEF WaitsForOne, Faithful
<1>8. RefusedStays'
  BY <1>1, <1>3, <1>4 DEF RefusedStays, Outranks
<1>9. CurrentIsKnown' /\ ToldIsHeld'
  BY <1>1, <1>3 DEF CurrentIsKnown, Pursued, ToldIsHeld, Holds, IsCurrent, IsFresh
<1> QED
  BY <1>5, <1>6, <1>7, <1>8, <1>9

(***************************************************************************)
(* The batch of an upload that is waited for, that nothing crossed and     *)
(* whose device may speak leaves exactly the report: a reading it states   *)
(* is stored or was, and what the report has lost is gone or has failed.   *)
(***************************************************************************)
LEMMA BatchTells ==
  ASSUME ReportsTypeOK, Follows, NEW u \in wire, Write(u), u.heard, u.alone,
         Speaks(u.device, u.generation), NEW s \in Subscription
  PROVE  LET r == Stored(u, s)
             t == report[u.device].readings[s]
         IN  /\ t # None => r = [at |-> t, status |-> "available"]
             /\ t = None => r = None \/ r.status = "failed"
<1> DEFINE d == u.device
           r == Stored(u, s)
           t == report[d].readings[s]
           p == previous[d].readings[s]
           old == rows[d][s]
<1>1. /\ d \in Device /\ u.readings[s] \in OrNone(Reading) /\ old \in OrNone(Reading)
      /\ t \in OrNone(Instant) /\ p \in OrNone(Instant)
  BY UploadParts, RowParts
<1>2. session[d] = device[d].generation /\ Faithful(u, s)
  BY DEF Follows, WaitsForOne, Speaks
<1>3. u.readings[s] # None /\ s \notin u.accepted => ~Outranks(u.readings[s], old)
  BY <1>2 DEF Follows, RefusedStays, Write
<1>4. /\ u.readings[s] # None /\ Outranks(u.readings[s], old) => r = u.readings[s]
      /\ u.readings[s] # None /\ ~Outranks(u.readings[s], old) => r = old
      /\ u.readings[s] = None => r = None
  BY <1>3 DEF Stored, Keeps
<1>5. RankedBelow(old, d, s)
  BY <1>1 DEF Follows, RowsAreOlder
<1>6. ASSUME NEW x \in Reading
      PROVE  /\ x.at \in Nat /\ x.status \in {"available", "failed"}
             /\ x = [at |-> x.at, status |-> x.status]
  BY <1>6, ReportsAssumption DEF Reading
<1>7. CASE t # None
  <2>1. /\ u.readings[s] = [at |-> t, status |-> "available"] /\ t \in Nat
        /\ u.readings[s] \in Reading
    BY <1>1, <1>2, <1>7, ReportsAssumption DEF Faithful, Reading
  <2>2. CASE Outranks(u.readings[s], old)
    BY <1>1, <1>4, <1>7, <2>1, <2>2, NoReadingIsNone
  <2>3. CASE ~Outranks(u.readings[s], old)
    <3>1. old # None /\ ~(t > old.at)
      BY <2>1, <2>3 DEF Outranks
    <3>2. old \in Reading
      BY <1>1, <3>1
    <3>3. old.at = t /\ old.status = "available"
      BY <1>5, <1>6, <1>7, <2>1, <3>1, <3>2 DEF RankedBelow
    <3>4. r = old
      BY <1>4, <2>1, <2>3, NoReadingIsNone
    <3> QED  BY <1>6, <1>7, <3>2, <3>3, <3>4
  <2> QED  BY <2>2, <2>3
<1>8. CASE t = None /\ u.readings[s] = None
  BY <1>4, <1>8
<1>9. CASE t = None /\ u.readings[s] # None
  <2>1. /\ p # None /\ p \in Nat /\ u.readings[s] = [at |-> p, status |-> "failed"]
    BY <1>1, <1>2, <1>9, ReportsAssumption DEF Faithful
  <2>2. CASE Outranks(u.readings[s], old)
    BY <1>4, <1>9, <2>1, <2>2
  <2>3. CASE ~Outranks(u.readings[s], old)
    <3>1. /\ old # None /\ ~(p > old.at) /\ ~(p = old.at /\ old.status = "available")
      BY <2>1, <2>3 DEF Outranks
    <3>2. old \in Reading
      BY <1>1, <3>1
    <3>3. old.at = p
      BY <1>5, <1>6, <1>9, <2>1, <3>1, <3>2 DEF RankedBelow
    <3>4. old.status = "failed"
      BY <1>6, <3>1, <3>2, <3>3
    <3> QED  BY <1>4, <1>9, <2>3, <3>4
  <2> QED  BY <2>2, <2>3
<1> QED
  BY <1>7, <1>8, <1>9

LEMMA WriteFollows ==
  ASSUME ReportsTypeOK, GenerationsGrow, Follows, NEW u \in wire, Write(u)
  PROVE  Follows'
<1> USE DEF Follows
<1> DEFINE d == u.device
           sure == u.heard /\ u.alone /\ Speaks(d, u.generation)
<1>1. /\ d \in Device /\ u \in Upload /\ u.stage = "checked"
      /\ UNCHANGED <<now, report, previous, step, session, asked, device>>
  BY UploadParts DEF Write, macVars
<1>2. /\ \A s \in Subscription : rows'[d][s] = Stored(u, s)
      /\ \A e \in Device \ {d} : rows'[e] = rows[e] /\ told'[e] = told[e] /\ untold'[e] = untold[e]
      /\ told'[d] = sure
      /\ u.heard /\ u.alone => untold'[d] = {}
      /\ ~(u.heard /\ u.alone) => untold'[d] = untold[d] \cup Unreported(d)
  BY <1>1 DEF Write, ReportsTypeOK
<1>3. \A w \in wire' : \E v \in wire :
        /\ w.device = v.device /\ w.readings = v.readings /\ w.generation = v.generation
        /\ w.heard = v.heard /\ w.accepted = v.accepted
        /\ v = u => u.heard /\ w.stage = "written"
        /\ v # u => /\ w.stage = v.stage
                    /\ w.alone => v.alone
                    /\ ~u.heard /\ v.device = d => ~w.alone
  <2>1. CASE u.heard
    <3>1. wire' = (wire \ {u}) \cup {[u EXCEPT !.stage = "written"]}
      BY <2>1 DEF Write
    <3>2. LET w == [u EXCEPT !.stage = "written"]
          IN  /\ w.device = u.device /\ w.readings = u.readings /\ w.generation = u.generation
              /\ w.heard = u.heard /\ w.accepted = u.accepted /\ w.stage = "written"
      BY <1>1 DEF Upload
    <3> QED  BY <2>1, <3>1, <3>2
  <2>2. CASE ~u.heard
    <3>1. wire' = {[v EXCEPT !.alone = @ /\ v.device # d] : v \in wire \ {u}}
      BY <2>2 DEF Write
    <3>2. ASSUME NEW v \in wire \ {u}
          PROVE  LET w == [v EXCEPT !.alone = @ /\ v.device # d]
                 IN  /\ w.device = v.device /\ w.readings = v.readings
                     /\ w.generation = v.generation
                     /\ w.heard = v.heard /\ w.accepted = v.accepted /\ w.stage = v.stage
                     /\ w.alone = (v.alone /\ v.device # d)
      <4>1. v \in Upload
        BY DEF ReportsTypeOK
      <4> QED  BY <4>1 DEF Upload
    <3> SUFFICES ASSUME NEW w \in wire'
                 PROVE  \E v \in wire :
                          /\ w.device = v.device /\ w.readings = v.readings
                          /\ w.generation = v.generation
                          /\ w.heard = v.heard /\ w.accepted = v.accepted
                          /\ v = u => u.heard /\ w.stage = "written"
                          /\ v # u => /\ w.stage = v.stage
                                      /\ w.alone => v.alone
                                      /\ ~u.heard /\ v.device = d => ~w.alone
      OBVIOUS
    <3>3. PICK v \in wire \ {u} : w = [v EXCEPT !.alone = @ /\ v.device # d]
      BY <3>1
    <3>4. /\ w.device = v.device /\ w.readings = v.readings /\ w.generation = v.generation
          /\ w.heard = v.heard /\ w.accepted = v.accepted /\ w.stage = v.stage
          /\ w.alone = (v.alone /\ v.device # d)
      BY <3>2, <3>3
    <3>5. (w.alone => v.alone) /\ (v.device = d => ~w.alone)
      BY <3>4
    <3> QED  BY <3>3, <3>4, <3>5
  <2> QED  BY <2>1, <2>2
<1>4. \A w \in wire' : w.device \in Device
  BY <1>3, UploadParts
<1>5. ASSUME NEW s \in Subscription
      PROVE  \/ Stored(u, s) = rows[d][s] \/ Stored(u, s) = None \/ Stored(u, s) = u.readings[s]
  BY DEF Stored
<1>6. NewestIsHere' /\ SuccessReads' /\ IdleForgets'
  BY <1>1 DEF NewestIsHere, SuccessReads, IdleForgets
<1>7. RowsAreOlder'
  BY <1>1, <1>2, <1>5 DEF RowsAreOlder, WireIsOlder, RankedBelow
<1>8. WireIsOlder'
  BY <1>1, <1>3 DEF WireIsOlder, RankedBelow
<1>9. WaitsForOne'
  <2>1. \A w \in wire' : w.heard =>
          /\ step[w.device] = "waiting" /\ w.generation = session[w.device]
          /\ \A s \in Subscription : Faithful(w, s)
    BY <1>3 DEF WaitsForOne, Faithful
  <2>2. \A v, w \in wire' : v.heard /\ w.heard /\ v.device = w.device => v = w
    <3> SUFFICES ASSUME NEW v \in wire', NEW w \in wire', v.heard, w.heard, v.device = w.device
                 PROVE  v = w
      OBVIOUS
    <3>1. ASSUME NEW x \in wire, NEW y \in wire, x.heard, y.heard, x.device = y.device
          PROVE  x = y
      BY <3>1 DEF WaitsForOne
    <3>2. CASE u.heard
      <4>1. wire' = (wire \ {u}) \cup {[u EXCEPT !.stage = "written"]}
        BY <3>2 DEF Write
      <4>2. [u EXCEPT !.stage = "written"].device = d
        BY <1>1 DEF Upload
      <4>3. \A x \in wire' : x \in wire \ {u} \/ x = [u EXCEPT !.stage = "written"]
        BY <4>1
      <4> QED  BY <3>1, <3>2, <4>2, <4>3
    <3>3. CASE ~u.heard
      <4>1. wire' = {[x EXCEPT !.alone = @ /\ x.device # d] : x \in wire \ {u}}
        BY <3>3 DEF Write
      <4>2. ASSUME NEW x \in wire
            PROVE  LET y == [x EXCEPT !.alone = @ /\ x.device # d]
                   IN  y.device = x.device /\ y.heard = x.heard
        <5>1. x \in Upload
          BY DEF ReportsTypeOK
        <5> QED  BY <5>1 DEF Upload
      <4>3. ASSUME NEW y \in wire'
            PROVE  \E x \in wire : y = [x EXCEPT !.alone = @ /\ x.device # d]
        BY <4>1
      <4>4. PICK x \in wire : v = [x EXCEPT !.alone = @ /\ x.device # d]
        BY <4>3
      <4>5. PICK y \in wire : w = [y EXCEPT !.alone = @ /\ y.device # d]
        BY <4>3
      <4>6. x = y
        BY <3>1, <4>2, <4>4, <4>5
      <4> QED  BY <4>4, <4>5, <4>6
    <3> QED  BY <3>2, <3>3
  <2> QED  BY <1>1, <2>1, <2>2 DEF WaitsForOne, Faithful
<1>10. RefusedStays'
  <2> SUFFICES ASSUME NEW w \in wire', NEW s \in Subscription,
                      w.heard, w.alone, w.stage = "checked",
                      session[w.device] = device[w.device].generation,
                      w.readings[s] # None, s \notin w.accepted
               PROVE  ~Outranks(w.readings[s], rows'[w.device][s])
    BY <1>1 DEF RefusedStays, Outranks
  <2>1. PICK v \in wire :
          /\ w.device = v.device /\ w.readings = v.readings /\ w.heard = v.heard
          /\ w.accepted = v.accepted /\ v # u /\ w.stage = v.stage /\ v.alone
          /\ ~(~u.heard /\ v.device = d)
    BY <1>3
  <2>2. v.device # d
    BY <2>1 DEF WaitsForOne
  <2> QED  BY <1>2, <1>4, <2>1, <2>2 DEF RefusedStays
<1>11. ASSUME sure, NEW s \in Subscription
       PROVE  /\ Holds(d, s)'
              /\ IsCurrent(rows[d][s])' => report[d].readings[s] # None
  <2>1. LET r == rows'[d][s]
            t == report[d].readings[s]
        IN  /\ t # None => r = [at |-> t, status |-> "available"]
            /\ t = None => r = None \/ r.status = "failed"
    BY <1>2, <1>11, BatchTells
  <2> QED  BY <1>1, <2>1 DEF Holds, IsCurrent
<1>12. ASSUME u.heard, u.alone, ~Speaks(d, u.generation), NEW s \in Subscription
       PROVE  rows'[d][s] = None
  <2>1. u.generation = session[d] /\ Active(d)
    BY <1>1, <1>12, UploadParts DEF WaitsForOne, Active
  <2>2. rows[d] = NoReadings
    BY <1>1, <1>12, <2>1 DEF GenerationsGrow, Speaks
  <2>3. rows[d][s] = None
    BY <2>2 DEF NoReadings
  <2> QED  BY <1>2, <1>12, <2>3 DEF Stored
<1>13. CurrentIsKnown'
  <2> SUFFICES ASSUME NEW e \in Device, NEW s \in Subscription, IsCurrent(rows[e][s])'
               PROVE  (s \in untold[e] \/ Pursued(e, s))'
    BY DEF CurrentIsKnown
  <2>1. CASE e # d
    <3>1. s \in untold[e] \/ Pursued(e, s)
      BY <1>1, <1>2, <2>1 DEF CurrentIsKnown, IsCurrent, IsFresh
    <3> QED  BY <1>1, <1>2, <1>3, <2>1, <3>1 DEF Pursued
  <2>2. CASE e = d /\ u.heard /\ u.alone
    BY <1>1, <1>11, <1>12, <2>2 DEF IsCurrent, Pursued
  <2>3. CASE e = d /\ ~(u.heard /\ u.alone)
    BY <1>1, <1>2, <2>3 DEF Unreported, Pursued
  <2> QED  BY <2>1, <2>2, <2>3
<1>14. ToldIsHeld'
  <2> SUFFICES ASSUME NEW e \in Device, told'[e], NEW s \in Subscription \ untold'[e]
               PROVE  Holds(e, s)'
    BY DEF ToldIsHeld
  <2>1. CASE e # d
    BY <1>1, <1>2, <2>1 DEF ToldIsHeld, Holds, IsCurrent, IsFresh
  <2>2. CASE e = d
    BY <1>2, <1>11, <2>2
  <2> QED  BY <2>1, <2>2
<1> QED
  BY <1>6, <1>7, <1>8, <1>9, <1>10, <1>13, <1>14

(* A token that is refused ends the session, and with it the refresh that waits. *)
LEMMA RefuseFollows ==
  ASSUME ReportsTypeOK, Follows, NEW u \in wire, Refuse(u)
  PROVE  Follows'
<1> DEFINE d == u.device
<1>1. /\ d \in Device /\ wire' = wire \ {u}
      /\ UNCHANGED <<now, report, asked, device, rows, told>>
  BY UploadParts DEF Refuse, relayVars
<1>2. CASE u.heard
  <2>1. /\ Rest(d) /\ GoUntold(d)
        /\ \A e \in Device \ {d} : session'[e] = session[e]
    BY <1>1, <1>2 DEF Refuse, ReportsTypeOK
  <2>2. \A w \in wire' : w \in wire /\ ~(w.heard /\ w.device = d)
    BY <1>1, <1>2 DEF Follows, WaitsForOne
  <2> HIDE DEF d
  <2> QED  BY <1>1, <2>1, <2>2, UntoldExcuses, RestFollows
<1>3. CASE ~u.heard
  <2>1. UNCHANGED <<previous, step, session, untold>>
    BY <1>3 DEF Refuse
  <2>2. \A w \in wire' : w \in wire
    BY <1>1
  <2>3. \A w \in wire : w.heard => w \in wire'
    BY <1>1, <1>3
  <2> USE DEF Follows
  <2>4. NewestIsHere' /\ RowsAreOlder' /\ WireIsOlder' /\ SuccessReads' /\ IdleForgets'
    BY <1>1, <2>1, <2>2
       DEF NewestIsHere, RowsAreOlder, WireIsOlder, RankedBelow, SuccessReads, IdleForgets
  <2>5. WaitsForOne' /\ RefusedStays'
    BY <1>1, <2>1, <2>2 DEF WaitsForOne, Faithful, RefusedStays, Outranks
  <2>6. CurrentIsKnown' /\ ToldIsHeld'
    BY <1>1, <2>1, <2>2
       DEF CurrentIsKnown, Pursued, ToldIsHeld, Holds, IsCurrent, IsFresh
  <2> QED  BY <2>4, <2>5, <2>6
<1> QED
  BY <1>2, <1>3

LEMMA SignInFollows ==
  ASSUME ReportsTypeOK, Follows, NEW d \in Device, SignIn(d)
  PROVE  Follows'
<1> USE DEF Follows
<1>1. /\ UNCHANGED <<now, report, previous, step, asked, rows, wire, told, untold>>
      /\ ~Active(d)
      /\ \A e \in Device \ {d} : session'[e] = session[e] /\ device'[e] = device[e]
  BY DEF SignIn, historyVars, ReportsTypeOK
<1>2. \A u \in wire : /\ u.device \in Device
                      /\ u.heard => u.device # d
  BY UploadParts DEF WaitsForOne, Active, Generation, SignIn
<1>3. NewestIsHere' /\ RowsAreOlder' /\ WireIsOlder' /\ SuccessReads' /\ IdleForgets'
  BY <1>1 DEF NewestIsHere, RowsAreOlder, WireIsOlder, RankedBelow, SuccessReads, IdleForgets
<1>4. WaitsForOne' /\ RefusedStays'
  BY <1>1, <1>2 DEF WaitsForOne, Faithful, RefusedStays, Outranks
<1>5. CurrentIsKnown' /\ ToldIsHeld'
  BY <1>1 DEF CurrentIsKnown, Pursued, ToldIsHeld, Holds, IsCurrent, IsFresh
<1> QED
  BY <1>3, <1>4, <1>5

(* Deleting the device leaves no row of it, and no session that names its generation. *)
LEMMA DeleteFollows ==
  ASSUME ReportsTypeOK, GenerationsGrow, Follows, NEW d \in Device, DeleteDevice(d)
  PROVE  Follows'
<1> USE DEF Follows
<1>1. /\ UNCHANGED <<now, report, previous, step, session, asked, wire>>
      /\ \A s \in Subscription : rows'[d][s] = None
      /\ told'[d] = FALSE /\ device'[d].generation = device[d].generation + 1
      /\ \A e \in Device \ {d} : /\ rows'[e] = rows[e] /\ device'[e] = device[e]
                                 /\ told'[e] = told[e] /\ untold'[e] = untold[e]
  BY DEF DeleteDevice, macVars, ReportsTypeOK, NoReadings
<1>2. \A u \in wire : u.device \in Device /\ (u.heard => u.generation = session[u.device])
  BY UploadParts DEF WaitsForOne
<1>3. ASSUME Active(d)
      PROVE  session[d] # device'[d].generation
  <2>1. /\ session[d] \in Nat /\ device[d].generation \in Nat
        /\ session[d] <= device[d].generation
    BY <1>3, ReportsAssumption DEF GenerationsGrow, ReportsTypeOK
  <2> QED  BY <1>1, <2>1
<1>4. ~Active(d) => session[d] # device'[d].generation
  <2>1. device[d].generation \in Nat
    BY ReportsAssumption DEF ReportsTypeOK
  <2> QED  BY <1>1, <2>1 DEF Active
<1>5. NewestIsHere' /\ RowsAreOlder' /\ WireIsOlder' /\ SuccessReads' /\ IdleForgets'
  BY <1>1 DEF NewestIsHere, RowsAreOlder, WireIsOlder, RankedBelow, SuccessReads, IdleForgets
<1>6. WaitsForOne'
  BY <1>1 DEF WaitsForOne, Faithful
<1>7. RefusedStays'
  BY <1>1, <1>2, <1>3, <1>4 DEF RefusedStays, Outranks
<1>8. CurrentIsKnown' /\ ToldIsHeld'
  BY <1>1 DEF CurrentIsKnown, Pursued, ToldIsHeld, Holds, IsCurrent, IsFresh
<1> QED
  BY <1>5, <1>6, <1>7, <1>8

(* Time only ever ends what is current. *)
LEMMA TickFollows ==
  ASSUME ReportsTypeOK, Follows, Tick
  PROVE  Follows'
<1> USE DEF Follows
<1>1. /\ UNCHANGED <<report, previous, step, session, asked, device, rows, wire, told, untold>>
      /\ now' = now + 1
  BY DEF Tick, macVars, relayVars, historyVars
<1>2. ASSUME NEW d \in Device, NEW s \in Subscription, IsCurrent(rows[d][s])'
      PROVE  IsCurrent(rows[d][s])
  <2>1. rows[d][s] # None /\ rows[d][s].status = "available" /\ now + 1 < rows[d][s].at + Validity
    BY <1>1, <1>2 DEF IsCurrent, IsFresh
  <2>2. rows[d][s] \in Reading
    BY <2>1, RowParts
  <2>3. rows[d][s].at \in Nat /\ now \in Nat /\ Validity \in Nat
    BY <2>2, RowParts, ReportsAssumption DEF Reading
  <2> QED  BY <2>1, <2>3 DEF IsCurrent, IsFresh
<1>3. NewestIsHere' /\ RowsAreOlder' /\ WireIsOlder' /\ SuccessReads' /\ IdleForgets'
  BY <1>1 DEF NewestIsHere, RowsAreOlder, WireIsOlder, RankedBelow, SuccessReads, IdleForgets
<1>4. WaitsForOne' /\ RefusedStays'
  BY <1>1 DEF WaitsForOne, Faithful, RefusedStays, Outranks
<1>5. CurrentIsKnown'
  BY <1>1, <1>2 DEF CurrentIsKnown, Pursued
<1>6. ToldIsHeld'
  BY <1>1, <1>2 DEF ToldIsHeld, Holds
<1> QED
  BY <1>3, <1>4, <1>5, <1>6

LEMMA StutterFollows ==
  ASSUME ReportsTypeOK, Follows, UNCHANGED reportsVars
  PROVE  Follows'
<1> USE DEF Follows, reportsVars, macVars, relayVars, historyVars
<1>1. NewestIsHere' /\ RowsAreOlder' /\ WireIsOlder' /\ SuccessReads' /\ IdleForgets'
  BY DEF NewestIsHere, RowsAreOlder, WireIsOlder, RankedBelow, SuccessReads, IdleForgets
<1>2. WaitsForOne' /\ RefusedStays'
  BY DEF WaitsForOne, Faithful, RefusedStays, Outranks
<1>3. CurrentIsKnown' /\ ToldIsHeld'
  BY DEF CurrentIsKnown, Pursued, ToldIsHeld, Holds, IsCurrent, IsFresh
<1> QED
  BY <1>1, <1>2, <1>3

(***************************************************************************)
(* The generations, action by action: only a sign-in and a deletion move   *)
(* them, and a batch stores nothing for a device that was deleted.         *)
(***************************************************************************)
LEMMA GenerationsStep ==
  ASSUME ReportsTypeOK, GenerationsGrow, ReportsNext
  PROVE  GenerationsGrow'
<1>1. \A d \in Device : session[d] \in {0} \cup Generation /\ device[d].generation \in Generation
  BY DEF ReportsTypeOK
<1>2. \A u \in wire : u.device \in Device /\ u.generation \in Generation
  BY UploadParts
<1>3. ASSUME UNCHANGED <<session, device, rows>>,
             \A w \in wire' : \/ \E v \in wire : w.device = v.device /\ w.generation = v.generation
                              \/ w.device \in Device /\ Active(w.device)
                                 /\ w.generation = session[w.device]
      PROVE  GenerationsGrow'
  BY <1>1, <1>2, <1>3, ReportsAssumption DEF GenerationsGrow, Active
<1>4. ASSUME UNCHANGED <<device, rows>>, NEW d \in Device,
             session' = [session EXCEPT ![d] = 0], wire' \subseteq wire
      PROVE  GenerationsGrow'
  BY <1>1, <1>2, <1>4, ReportsAssumption DEF GenerationsGrow, Active, ReportsTypeOK
<1>5. ASSUME NEW d \in Device, MacNext(d)
      PROVE  GenerationsGrow'
  <2>1. CASE Ask(d) \/ AskNothing(d)
    BY <1>3, <2>1 DEF Ask, AskNothing, Pass, relayVars
  <2>2. CASE Send(d)
    <3>1. /\ UNCHANGED <<session, device, rows>> /\ Active(d)
          /\ wire' = wire \cup {[device |-> d, generation |-> session[d], readings |-> Envelope(d),
                                 stage |-> "sent", accepted |-> {}, heard |-> TRUE, alone |-> TRUE]}
      BY <2>2 DEF Send, relayVars
    <3> QED  BY <1>3, <3>1
  <2>3. CASE SendNothing(d) \/ SkipUpload(d) \/ Hear(d)
    BY <1>3, <2>3 DEF SendNothing, SkipUpload, Hear, relayVars
  <2>4. CASE GiveUp(d) \/ Restart(d)
    <3>1. UNCHANGED <<session, device, rows>> /\ Unheard(d)
      BY <2>4 DEF GiveUp, Restart, relayVars
    <3> QED  BY <1>3, <3>1, UnheardLeaves
  <2>5. CASE SignOut(d)
    <3>1. /\ session'[d] = 0 /\ UNCHANGED rows
          /\ \A e \in Device : device'[e].generation = device[e].generation
          /\ \A e \in Device \ {d} : session'[e] = session[e] /\ device'[e] = device[e]
      BY <2>5 DEF SignOut, ReportsTypeOK
    <3>2. \A w \in wire' : \E v \in wire : w.device = v.device /\ w.generation = v.generation
      BY <2>5, UnheardLeaves DEF SignOut
    <3> QED  BY <1>1, <1>2, <3>1, <3>2, ReportsAssumption DEF GenerationsGrow, Active
  <2>6. CASE SignIn(d)
    <3>1. /\ session'[d] = device[d].generation /\ device'[d].current /\ UNCHANGED <<rows, wire>>
          /\ \A e \in Device : device'[e].generation = device[e].generation
          /\ \A e \in Device \ {d} : session'[e] = session[e] /\ device'[e] = device[e]
      BY <2>6 DEF SignIn, ReportsTypeOK
    <3> QED  BY <1>1, <1>2, <3>1, ReportsAssumption DEF GenerationsGrow, Active
  <2>7. CASE DeleteDevice(d)
    <3>1. /\ device'[d].generation = device[d].generation + 1
          /\ rows'[d] = NoReadings /\ UNCHANGED <<session, wire>>
          /\ \A e \in Device \ {d} : rows'[e] = rows[e] /\ device'[e] = device[e]
      BY <2>7 DEF DeleteDevice, macVars, ReportsTypeOK
    <3> QED  BY <1>1, <1>2, <3>1, ReportsAssumption DEF GenerationsGrow, Active
  <2> QED  BY <1>5, <2>1, <2>2, <2>3, <2>4, <2>5, <2>6, <2>7 DEF MacNext
<1>6. ASSUME NEW u \in wire, Check(u)
      PROVE  GenerationsGrow'
  <2>1. UNCHANGED <<session, device, rows>>
    BY <1>6 DEF Check, macVars, relayVars
  <2>2. \A w \in wire' : \E v \in wire : w.device = v.device /\ w.generation = v.generation
    <3>1. u \in Upload
      BY UploadParts
    <3>2. \A S : LET w == [u EXCEPT !.stage = "checked", !.alone = TRUE, !.accepted = S]
                 IN  w.device = u.device /\ w.generation = u.generation
      BY <3>1 DEF Upload
    <3>3. \E S : wire' = (wire \ {u}) \cup
                     {[u EXCEPT !.stage = "checked", !.alone = TRUE, !.accepted = S]}
      BY <1>6 DEF Check
    <3>4. PICK S : wire' = (wire \ {u}) \cup
                     {[u EXCEPT !.stage = "checked", !.alone = TRUE, !.accepted = S]}
      BY <3>3
    <3> DEFINE new == [u EXCEPT !.stage = "checked", !.alone = TRUE, !.accepted = S]
    <3>5. new.device = u.device /\ new.generation = u.generation
      BY <3>2
    <3>6. wire' = (wire \ {u}) \cup {new}
      BY <3>4
    <3> HIDE DEF new
    <3> QED  BY <3>5, <3>6
  <2> QED  BY <1>3, <2>1, <2>2
<1>7. ASSUME NEW u \in wire, Write(u)
      PROVE  GenerationsGrow'
  <2>1. UNCHANGED <<session, device>> /\ u.device \in Device /\ u \in Upload
    BY <1>7, UploadParts DEF Write, macVars
  <2>2. \A w \in wire' : \E v \in wire : w.device = v.device /\ w.generation = v.generation
    <3>1. ASSUME NEW v \in wire
          PROVE  /\ [v EXCEPT !.stage = "written"].device = v.device
                 /\ [v EXCEPT !.stage = "written"].generation = v.generation
                 /\ [v EXCEPT !.alone = @ /\ v.device # u.device].device = v.device
                 /\ [v EXCEPT !.alone = @ /\ v.device # u.device].generation = v.generation
      <4>1. v \in Upload
        BY UploadParts
      <4> QED  BY <4>1 DEF Upload
    <3>2. CASE u.heard
      <4>1. wire' = (wire \ {u}) \cup {[u EXCEPT !.stage = "written"]}
        BY <1>7, <3>2 DEF Write
      <4> QED  BY <3>1, <4>1
    <3>3. CASE ~u.heard
      <4>1. wire' = {[v EXCEPT !.alone = @ /\ v.device # u.device] : v \in wire \ {u}}
        BY <1>7, <3>3 DEF Write
      <4>2. ASSUME NEW w \in wire'
            PROVE  \E v \in wire : w = [v EXCEPT !.alone = @ /\ v.device # u.device]
        BY <4>1
      <4> SUFFICES ASSUME NEW w \in wire'
                   PROVE  \E v \in wire : w.device = v.device /\ w.generation = v.generation
        OBVIOUS
      <4>3. PICK v \in wire : w = [v EXCEPT !.alone = @ /\ v.device # u.device]
        BY <4>2
      <4> QED  BY <3>1, <4>3
    <3> QED  BY <3>2, <3>3
  <2>3. /\ rows' = [rows EXCEPT ![u.device] = [s \in Subscription |-> Stored(u, s)]]
        /\ rows \in [Device -> [Subscription -> OrNone(Reading)]]
    BY <1>7 DEF Write, ReportsTypeOK
  <2>4. \A e \in Device \ {u.device} : rows'[e] = rows[e]
    BY <2>3
  <2>5. ASSUME Active(u.device), session[u.device] # device[u.device].generation
        PROVE  rows'[u.device] = NoReadings
    <3>1. /\ u.generation <= session[u.device] /\ session[u.device] <= device[u.device].generation
          /\ rows[u.device] = NoReadings
      BY <2>1, <2>5 DEF GenerationsGrow
    <3>2. u.generation # device[u.device].generation
      BY <1>1, <1>2, <2>1, <2>5, <3>1, ReportsAssumption
    <3>3. \A s \in Subscription : Stored(u, s) = None
      BY <3>1, <3>2 DEF Stored, Speaks, NoReadings
    <3>4. rows'[u.device] = [s \in Subscription |-> Stored(u, s)]
      BY <2>1, <2>3
    <3> QED  BY <3>3, <3>4 DEF NoReadings
  <2> QED  BY <1>1, <1>2, <2>1, <2>2, <2>4, <2>5 DEF GenerationsGrow, Active
<1>8. ASSUME NEW u \in wire, Refuse(u)
      PROVE  GenerationsGrow'
  <2>1. UNCHANGED <<device, rows>> /\ wire' \subseteq wire /\ u.device \in Device
    BY <1>8, UploadParts DEF Refuse, relayVars
  <2>2. session' = session \/ session' = [session EXCEPT ![u.device] = 0]
    BY <1>8 DEF Refuse
  <2> QED  BY <1>3, <1>4, <2>1, <2>2
<1>9. CASE Tick
  BY <1>3, <1>9 DEF Tick, macVars, relayVars
<1> QED
  BY <1>5, <1>6, <1>7, <1>8, <1>9 DEF ReportsNext, RelayNext

LEMMA HeldInit == ReportsInit => HeldInv
  <1> SUFFICES ASSUME ReportsInit PROVE HeldInv
    OBVIOUS
  <1>1. ReportsTypeOK
    BY TypeInit
  <1>2. \A d \in Device, s \in Subscription :
          /\ report[d].readings[s] = None /\ previous[d].readings[s] = None /\ rows[d][s] = None
          /\ report[d].outcome = "none"
    BY DEF ReportsInit, Nothing, NoReadings
  <1>3. NewestIsHere /\ RowsAreOlder /\ WireIsOlder /\ IdleForgets
    BY <1>2 DEF ReportsInit, NewestIsHere, RowsAreOlder, WireIsOlder, RankedBelow, IdleForgets
  <1>4. SuccessReads
    BY <1>2 DEF ReportsInit, SuccessReads, Nothing
  <1>5. WaitsForOne /\ GenerationsGrow /\ RefusedStays
    BY DEF ReportsInit, WaitsForOne, GenerationsGrow, RefusedStays, Active
  <1>6. CurrentIsKnown /\ ToldIsHeld
    BY <1>2 DEF ReportsInit, CurrentIsKnown, ToldIsHeld, IsCurrent
  <1> QED BY <1>1, <1>3, <1>4, <1>5, <1>6 DEF HeldInv

LEMMA HeldStep == HeldInv /\ [ReportsNext]_reportsVars => HeldInv'
  <1> SUFFICES ASSUME HeldInv, [ReportsNext]_reportsVars PROVE HeldInv'
    OBVIOUS
  <1>1. ReportsTypeOK /\ GenerationsGrow /\ Follows
    BY HeldParts
  <1>2. ReportsTypeOK'
    BY <1>1, TypeStep
  <1>3. ASSUME ReportsNext PROVE Follows'
    <2>1. ASSUME NEW d \in Device, MacNext(d) PROVE Follows'
      BY <1>1, <2>1, AsksFollow, SendFollows, SendNothingFollows, SkipFollows, HearFollows,
         AnswersFollow, SignInFollows, DeleteFollows DEF MacNext
    <2>2. ASSUME NEW u \in wire, Check(u) \/ Write(u) \/ Refuse(u) PROVE Follows'
      BY <1>1, <2>2, CheckFollows, WriteFollows, RefuseFollows
    <2> QED BY <1>1, <1>3, <2>1, <2>2, TickFollows DEF ReportsNext, RelayNext
  <1>4. CASE ReportsNext
    <2>1. GenerationsGrow'
      BY <1>1, <1>4, GenerationsStep
    <2> QED BY <1>2, <1>3, <1>4, <2>1 DEF HeldInv, Follows
  <1>5. CASE UNCHANGED reportsVars
    <2>1. GenerationsGrow'
      BY <1>1, <1>5 DEF GenerationsGrow, Active, reportsVars, macVars, relayVars
    <2> QED BY <1>1, <1>2, <1>5, <2>1, StutterFollows DEF HeldInv, Follows
  <1> QED BY <1>4, <1>5

(***************************************************************************)
(* Whatever uploads are lost, late or repeated, and whenever the Mac is    *)
(* signed out, deleted or restarted: after a refresh that could say what   *)
(* it found, the Account holds of this Mac exactly what it last read, but  *)
(* for what a refresh stopped reading while it could not say so            *)
(* (failure_status_snapshots, recordSnapshot).                             *)
(***************************************************************************)
THEOREM ReportIsHeld == ReportsSpec => []AccountHoldsReport
  <1>1. HeldInv => AccountHoldsReport
    BY DEF HeldInv, ToldIsHeld, AccountHoldsReport
  <1> QED BY HeldInit, HeldStep, <1>1, PTL DEF ReportsSpec
===============================================================================
