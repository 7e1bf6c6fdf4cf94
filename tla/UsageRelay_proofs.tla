-------------------------- MODULE UsageRelay_proofs --------------------------
(***************************************************************************)
(* That the Relay keeps the ledger of UsageLedger, for any devices, hours, *)
(* rows, bounds and number of requests at once.                            *)
(*                                                                         *)
(* The step that needs an invariant is the batch: it runs on what an       *)
(* earlier read allowed.  What that read allowed still holds for as long   *)
(* as the device is at the generation it was made for, because only        *)
(* deletion moves the watermark and deletion moves the generation.         *)
(***************************************************************************)
EXTENDS UsageRelay, TLAPS

Asked(f) == flight[f] # NoRequest

(* No request was made for a generation that is still to come. *)
OfThePast ==
  \A f \in Flight : Asked(f) =>
    flight[f].generation <= devices[flight[f].device].generation

(* Only hours a request carries are accepted. *)
AcceptedWasSent ==
  \A f \in Flight : Asked(f) => flight[f].accepted \subseteq DOMAIN flight[f].hours

(* What a check accepted may still be written while the generation stands. *)
AdmissionStands ==
  \A f \in Flight :
    /\ Asked(f)
    /\ flight[f].stage = "checked"
    /\ flight[f].generation = devices[flight[f].device].generation
    => \A h \in flight[f].accepted : h >= FloorHour(devices[flight[f].device].deletedBefore)

NotAhead == \A d \in Device : devices[d].deletedBefore <= now

RelayInv ==
  /\ RelayTypeOK
  /\ AcceptedWasSent
  /\ OfThePast
  /\ AdmissionStands
  /\ NotAhead
  /\ DeletedStaysDeleted

-------------------------------------------------------------------------------
(* Rounding an instant down to its hour keeps the order of instants. *)
LEMMA FloorMonotone ==
  ASSUME NEW i \in Nat, NEW j \in Nat, i <= j
  PROVE  /\ FloorHour(i) \in Nat
         /\ FloorHour(i) <= FloorHour(j)
  BY DEF FloorHour

LEMMA SignedInRow ==
  ASSUME NEW r \in DeviceRow, NEW s \in 0..LastSerial
  PROVE  [r EXCEPT !.session = s, !.present = TRUE] \in DeviceRow
  BY DEF DeviceRow

LEMMA InitInv == RelayInit => RelayInv
  <1> SUFFICES ASSUME RelayInit PROVE RelayInv
    OBVIOUS
  <1> USE RelayAssumption
  <1>1. RelayTypeOK
    BY DEF RelayInit, RelayTypeOK, DeviceRow, Nothing
  <1>2. AcceptedWasSent /\ OfThePast /\ AdmissionStands
    BY DEF RelayInit, AcceptedWasSent, OfThePast, AdmissionStands, Asked
  <1>3. NotAhead /\ DeletedStaysDeleted
    BY DEF RelayInit, NotAhead, DeletedStaysDeleted, Nothing
  <1> QED BY <1>1, <1>2, <1>3 DEF RelayInv

(***************************************************************************)
(* Type correctness, action by action.                                     *)
(***************************************************************************)
LEMMA TypeStep == RelayTypeOK /\ AcceptedWasSent /\ [RelayNext]_relayVars => RelayTypeOK'
  <1> SUFFICES ASSUME RelayTypeOK, AcceptedWasSent, [RelayNext]_relayVars PROVE RelayTypeOK'
    OBVIOUS
  <1> USE RelayAssumption
  <1>1. ASSUME NEW f \in Flight, AnyUpload(f) PROVE RelayTypeOK'
    <2>0. PICK d \in Device, s \in 1..serial :
            \E g \in 1..devices[d].generation : \E parcel \in Parcel : Send(f, d, s, g, parcel)
      BY <1>1 DEF AnyUpload
    <2>1. PICK g \in 1..devices[d].generation, parcel \in Parcel : Send(f, d, s, g, parcel)
      BY <2>0
    <2>2. s \in 1..LastSerial /\ g \in 1..LastGeneration
      BY <2>1 DEF RelayTypeOK, DeviceRow
    <2>3. [stage |-> "sent", device |-> d, session |-> s, generation |-> g,
           hours |-> parcel, accepted |-> {}, answer |-> "none"] \in Request
      BY <2>2 DEF Request
    <2> QED BY <1>1, <2>1, <2>3 DEF AnyUpload, Send, RelayTypeOK
  <1>2. ASSUME NEW f \in Flight, Handle(f) PROVE RelayTypeOK'
    <2>1. flight[f] \in Request
      BY <1>2 DEF Handle, Refuse, CheckUsage, CommitUsage, RelayTypeOK, NoRequest
    <2>2. ASSUME NEW a \in {"unauthorized", "refused", "written"}, Answer(f, a)
          PROVE  flight' \in [Flight -> Request \cup {NoRequest}]
      <3>1. [flight[f] EXCEPT !.stage = "answered", !.answer = a] \in Request
        BY <2>1 DEF Request
      <3>2. flight' = [flight EXCEPT ![f] = [flight[f] EXCEPT !.stage = "answered", !.answer = a]]
        BY <2>1, <2>2 DEF Answer, RelayTypeOK, Request
      <3> QED BY <3>1, <3>2 DEF RelayTypeOK
    <2>4. CASE Refuse(f)
      BY <2>2, <2>4 DEF Refuse, Refusal, RelayTypeOK
    <2>5. CASE CheckUsage(f)
      <3>1. Newer(f) \subseteq Hour
        BY <2>1 DEF Newer, Request, Parcel
      <3>2. [flight[f] EXCEPT !.stage = "checked", !.accepted = Newer(f)] \in Request
        BY <2>1, <3>1 DEF Request
      <3>3. flight' \in [Flight -> Request \cup {NoRequest}]
        <4>1. CASE Newer(f) = {}
          BY <2>2, <2>5, <4>1 DEF CheckUsage
        <4>2. CASE Newer(f) # {}
          <5>1. flight' = [flight EXCEPT ![f] =
                  [flight[f] EXCEPT !.stage = "checked", !.accepted = Newer(f)]]
            BY <2>1, <2>5, <4>2 DEF CheckUsage, RelayTypeOK, Request
          <5> QED BY <3>2, <5>1 DEF RelayTypeOK
        <4> QED BY <4>1, <4>2
      <3> QED BY <2>5, <3>3 DEF CheckUsage, RelayTypeOK
    <2>6. CASE CommitUsage(f)
      <3> DEFINE d == flight[f].device
      <3> DEFINE W == {h \in flight[f].accepted : NoNewerScan(f, h)}
      <3>1. flight' \in [Flight -> Request \cup {NoRequest}]
        BY <2>2, <2>6 DEF CommitUsage
      <3>2. CASE DeviceIsCurrent(f)
        <4>1. d \in Device
          BY <2>1 DEF Request
        <4>2. devices' \in [Device -> DeviceRow]
          <5>1. [devices[d] EXCEPT !.revision = @ + 1] \in DeviceRow
            BY <4>1 DEF RelayTypeOK, DeviceRow
          <5>2. devices' = [devices EXCEPT ![d] = [devices[d] EXCEPT !.revision = @ + 1]]
            BY <2>6, <3>2, <4>1 DEF CommitUsage, RelayTypeOK, DeviceRow
          <5> QED BY <4>1, <5>1, <5>2 DEF RelayTypeOK
        <4>3. ASSUME NEW h \in Hour
              PROVE  (IF h \in W THEN flight[f].hours[h] ELSE stored[d][h]) \in Reading \cup {Nothing}
          <5>1. CASE h \in W
            <6>1. PICK hs \in SUBSET Hour : flight[f].hours \in [hs -> Reading]
              BY <2>1 DEF Request, Parcel
            <6>2. h \in hs
              BY <2>1, <2>6, <5>1, <6>1 DEF AcceptedWasSent, Asked, CommitUsage, NoRequest
            <6> QED BY <5>1, <6>1, <6>2
          <5>2. CASE h \notin W
            BY <4>1, <5>2 DEF RelayTypeOK
          <5> QED BY <5>1, <5>2
        <4>4. stored' = [stored EXCEPT ![d] =
                [h \in Hour |-> IF h \in W THEN flight[f].hours[h] ELSE stored[d][h]]]
          BY <2>6, <3>2, <4>1 DEF CommitUsage, RelayTypeOK
        <4>5. stored' \in [Device -> [Hour -> Reading \cup {Nothing}]]
          BY <4>1, <4>3, <4>4 DEF RelayTypeOK
        <4> QED BY <2>6, <3>1, <4>2, <4>5 DEF CommitUsage, RelayTypeOK
      <3>3. CASE ~DeviceIsCurrent(f)
        BY <2>6, <3>1, <3>3 DEF CommitUsage, RelayTypeOK
      <3> QED BY <3>2, <3>3
    <2> QED BY <1>2, <2>4, <2>5, <2>6 DEF Handle
  <1>3. ASSUME NEW f \in Flight, GiveUp(f) PROVE RelayTypeOK'
    BY <1>3 DEF GiveUp, Forget, RelayTypeOK
  <1>4. ASSUME NEW d \in Device, SignIn(d) PROVE RelayTypeOK'
    <2>1. serial + 1 \in 0..LastSerial
      BY <1>4 DEF SignIn, RelayTypeOK
    <2>0. devices[d] \in DeviceRow
      BY DEF RelayTypeOK
    <2>2. [devices[d] EXCEPT !.session = serial + 1, !.present = TRUE] \in DeviceRow
      BY <2>0, <2>1, SignedInRow
    <2>3. devices' = [devices EXCEPT ![d] =
            [devices[d] EXCEPT !.session = serial + 1, !.present = TRUE]]
      BY <1>4 DEF SignIn, RelayTypeOK, DeviceRow
    <2> QED BY <1>4, <2>1, <2>2, <2>3 DEF SignIn, RelayTypeOK
  <1>5. ASSUME NEW d \in Device, DeleteDevice(d) PROVE RelayTypeOK'
    <2>1. [generation |-> devices[d].generation + 1, revision |-> devices[d].revision + 1,
           deletedBefore |-> now, session |-> 0, present |-> FALSE] \in DeviceRow
      BY <1>5 DEF DeleteDevice, RelayTypeOK, DeviceRow
    <2> QED BY <1>5, <2>1 DEF DeleteDevice, RelayTypeOK
  <1>6. ASSUME NEW d \in Device, NEW s \in 1..LastSerial, Revoke(d, s) PROVE RelayTypeOK'
    <2>1. [devices[d] EXCEPT !.session = 0] \in DeviceRow
      BY DEF RelayTypeOK, DeviceRow
    <2>2. devices' = [devices EXCEPT ![d] = [devices[d] EXCEPT !.session = 0]]
      BY <1>6 DEF Revoke, RelayTypeOK, DeviceRow
    <2> QED BY <1>6, <2>1, <2>2 DEF Revoke, RelayTypeOK
  <1>7. CASE Tick
    BY <1>7 DEF Tick, RelayTypeOK
  <1>8. CASE UNCHANGED relayVars
    BY <1>8 DEF relayVars, RelayTypeOK
  <1> QED BY <1>1, <1>2, <1>3, <1>4, <1>5, <1>6, <1>7, <1>8 DEF RelayNext

(***************************************************************************)
(* The rest of the invariant.  Each action moves the requests and the      *)
(* device rows in one of four ways, which decide all of it.                *)
(***************************************************************************)
LEMMA InvStep == RelayInv /\ [RelayNext]_relayVars => RelayInv'
  <1> SUFFICES ASSUME RelayInv, [RelayNext]_relayVars PROVE RelayInv'
    OBVIOUS
  <1> USE RelayAssumption
  <1>t. RelayTypeOK /\ RelayTypeOK'
    BY TypeStep DEF RelayInv
  <1> DEFINE Rest == AcceptedWasSent /\ OfThePast /\ AdmissionStands /\ NotAhead /\ DeletedStaysDeleted
  <1>1. ASSUME NEW f \in Flight, AnyUpload(f) PROVE Rest'
    <2>0. PICK d \in Device, s \in 1..serial :
            \E g \in 1..devices[d].generation : \E parcel \in Parcel : Send(f, d, s, g, parcel)
      BY <1>1 DEF AnyUpload
    <2>1. PICK g \in 1..devices[d].generation, parcel \in Parcel : Send(f, d, s, g, parcel)
      BY <2>0
    <2>2. g <= devices[d].generation
      BY <2>1, <1>t DEF RelayTypeOK, DeviceRow
    <2>3. /\ flight'[f].stage = "sent" /\ flight'[f].accepted = {}
          /\ flight'[f].device = d /\ flight'[f].generation = g
          /\ \A e \in Flight \ {f} : flight'[e] = flight[e]
      BY <2>1, <1>t DEF Send, RelayTypeOK
    <2>4. UNCHANGED <<devices, stored, now>>
      BY <1>1 DEF AnyUpload
    <2>5. AcceptedWasSent'
      BY <2>3 DEF RelayInv, AcceptedWasSent, Asked
    <2>6. OfThePast'
      BY <2>2, <2>3, <2>4 DEF RelayInv, OfThePast, Asked
    <2>7. AdmissionStands'
      BY <2>3, <2>4 DEF RelayInv, AdmissionStands, Asked
    <2>8. NotAhead' /\ DeletedStaysDeleted'
      BY <2>4 DEF RelayInv, NotAhead, DeletedStaysDeleted
    <2> QED BY <2>5, <2>6, <2>7, <2>8
  <1>2. ASSUME NEW f \in Flight, Refuse(f) \/ CheckUsage(f) PROVE Rest'
    <2>1. flight[f] \in Request
      BY <1>2, <1>t DEF Refuse, CheckUsage, RelayTypeOK, NoRequest
    <2>2. UNCHANGED <<devices, stored, now>>
      BY <1>2 DEF Refuse, CheckUsage
    <2>3. /\ flight'[f].device = flight[f].device
          /\ flight'[f].generation = flight[f].generation
          /\ flight'[f].hours = flight[f].hours
          /\ \A e \in Flight \ {f} : flight'[e] = flight[e]
      BY <1>2, <1>t, <2>1 DEF Refuse, CheckUsage, Answer, RelayTypeOK, Request
    <2>4. \/ flight'[f].stage = "answered" /\ flight'[f].accepted = flight[f].accepted
          \/ flight'[f].stage = "checked" /\ flight'[f].accepted = Newer(f)
      BY <1>2, <1>t, <2>1 DEF Refuse, CheckUsage, Answer, RelayTypeOK, Request
    <2>5. /\ Newer(f) \subseteq DOMAIN flight[f].hours
          /\ \A h \in Newer(f) : h >= FloorHour(devices[flight[f].device].deletedBefore)
      BY DEF Newer
    <2>6. Asked(f)
      BY <2>1 DEF Asked, NoRequest, Request
    <2>7. AcceptedWasSent'
      BY <2>3, <2>4, <2>5, <2>6 DEF RelayInv, AcceptedWasSent, Asked
    <2>8. OfThePast'
      BY <2>2, <2>3, <2>6 DEF RelayInv, OfThePast, Asked
    <2>9. AdmissionStands'
      BY <2>2, <2>3, <2>4, <2>5, <2>6 DEF RelayInv, AdmissionStands, Asked
    <2>10. NotAhead' /\ DeletedStaysDeleted'
      BY <2>2 DEF RelayInv, NotAhead, DeletedStaysDeleted
    <2> QED BY <2>7, <2>8, <2>9, <2>10
  <1>3. ASSUME NEW f \in Flight, CommitUsage(f) PROVE Rest'
    <2> DEFINE d == flight[f].device
    <2>1. flight[f] \in Request /\ Asked(f) /\ d \in Device
      BY <1>3, <1>t DEF CommitUsage, RelayTypeOK, NoRequest, Request, Asked
    <2>2. now' = now
      BY <1>3 DEF CommitUsage
    <2>3. /\ flight'[f].stage = "answered"
          /\ flight'[f].accepted = flight[f].accepted
          /\ flight'[f].device = flight[f].device
          /\ flight'[f].generation = flight[f].generation
          /\ flight'[f].hours = flight[f].hours
          /\ \A e \in Flight \ {f} : flight'[e] = flight[e]
      BY <1>3, <1>t, <2>1 DEF CommitUsage, Answer, RelayTypeOK, Request
    <2>4. \A e \in Device : /\ devices'[e].generation = devices[e].generation
                            /\ devices'[e].deletedBefore = devices[e].deletedBefore
      BY <1>3, <1>t, <2>1 DEF CommitUsage, RelayTypeOK, DeviceRow
    <2>5. AcceptedWasSent'
      BY <2>1, <2>3 DEF RelayInv, AcceptedWasSent, Asked
    <2>6. \A e \in Flight : Asked(e) => flight[e].device \in Device
      BY <1>t DEF Asked, RelayTypeOK, Request
    <2>7. OfThePast'
      BY <2>1, <2>3, <2>4, <2>6 DEF RelayInv, OfThePast, Asked
    <2>8. AdmissionStands'
      BY <2>1, <2>3, <2>4, <2>6 DEF RelayInv, AdmissionStands, Asked
    <2>9. NotAhead'
      BY <2>2, <2>4 DEF RelayInv, NotAhead
    <2>10. DeletedStaysDeleted'
      <3>1. CASE ~DeviceIsCurrent(f)
        BY <1>3, <3>1 DEF CommitUsage, RelayInv, DeletedStaysDeleted
      <3>2. CASE DeviceIsCurrent(f)
        <4>1. \A h \in flight[f].accepted : h >= FloorHour(devices[d].deletedBefore)
          BY <1>3, <2>1, <3>2 DEF CommitUsage, DeviceIsCurrent, RelayInv, AdmissionStands
        <4>2. \A h \in Hour : h \notin flight[f].accepted => stored'[d][h] = stored[d][h]
          BY <1>3, <1>t, <2>1, <3>2 DEF CommitUsage, RelayTypeOK
        <4>3. \A e \in Device : e # d => stored'[e] = stored[e]
          BY <1>3, <1>t, <2>1, <3>2 DEF CommitUsage, RelayTypeOK
        <4>4. SUFFICES ASSUME NEW e \in Device, NEW h \in Hour,
                              h < FloorHour(devices'[e].deletedBefore)
                       PROVE  stored'[e][h] = Nothing
          BY DEF DeletedStaysDeleted
        <4>5. h < FloorHour(devices[e].deletedBefore) /\ stored[e][h] = Nothing
          BY <2>4, <4>4 DEF RelayInv, DeletedStaysDeleted
        <4>6. CASE e # d
          BY <4>3, <4>5, <4>6
        <4>7. CASE e = d
          <5>1. devices[d].deletedBefore \in Nat
            BY <1>t, <2>1 DEF RelayTypeOK, DeviceRow
          <5>2. FloorHour(devices[d].deletedBefore) \in Nat
            BY <5>1, FloorMonotone
          <5>3. h < FloorHour(devices[d].deletedBefore) /\ h \in Nat
            BY <4>5, <4>7
          <5>4. h \notin flight[f].accepted
            BY <4>1, <5>2, <5>3
          <5> QED BY <4>2, <4>5, <4>7, <5>4
        <4> QED BY <4>6, <4>7
      <3> QED BY <3>1, <3>2
    <2> QED BY <2>5, <2>7, <2>8, <2>9, <2>10
  <1>4. ASSUME NEW f \in Flight, GiveUp(f) PROVE Rest'
    <2>1. UNCHANGED <<devices, stored, now>>
      BY <1>4 DEF GiveUp
    <2>2. \A g \in Flight : flight'[g] # NoRequest => flight[g] # NoRequest /\ flight'[g] = flight[g]
      BY <1>4, <1>t DEF GiveUp, Forget, RelayTypeOK
    <2>3. NotAhead' /\ DeletedStaysDeleted'
      BY <2>1 DEF RelayInv, NotAhead, DeletedStaysDeleted
    <2>4. AcceptedWasSent' /\ OfThePast'
      BY <2>1, <2>2 DEF RelayInv, AcceptedWasSent, OfThePast, Asked
    <2>5. AdmissionStands'
      BY <2>1, <2>2 DEF RelayInv, AdmissionStands, Asked
    <2> QED  BY <2>3, <2>4, <2>5
  <1>5. ASSUME NEW d \in Device, SignIn(d) \/ (\E s \in 1..LastSerial : Revoke(d, s)) PROVE Rest'
    <2>1. UNCHANGED <<stored, flight, now>>
      BY <1>5 DEF SignIn, Revoke
    <2>2. \A e \in Device : /\ devices'[e].generation = devices[e].generation
                            /\ devices'[e].deletedBefore = devices[e].deletedBefore
      <3>1. devices \in [Device -> DeviceRow]
        BY <1>t DEF RelayTypeOK
      <3>2. CASE SignIn(d)
        BY <3>1, <3>2 DEF SignIn, DeviceRow
      <3>3. CASE \E s \in 1..LastSerial : Revoke(d, s)
        BY <3>1, <3>3 DEF Revoke, DeviceRow
      <3> QED  BY <1>5, <3>2, <3>3
    <2>3. \A e \in Flight : Asked(e) => flight[e].device \in Device
      BY <1>t DEF Asked, RelayTypeOK, Request
    <2> QED BY <2>1, <2>2, <2>3 DEF RelayInv, AcceptedWasSent, OfThePast, AdmissionStands,
                                    NotAhead, DeletedStaysDeleted, Asked
  <1>6. ASSUME NEW d \in Device, DeleteDevice(d) PROVE Rest'
    <2>1. flight' = flight /\ now' = now
      BY <1>6 DEF DeleteDevice
    <2>2. /\ devices'[d].generation = devices[d].generation + 1
          /\ devices'[d].deletedBefore = now
          /\ \A e \in Device \ {d} : devices'[e] = devices[e] /\ stored'[e] = stored[e]
          /\ \A h \in Hour : stored'[d][h] = Nothing
      BY <1>6, <1>t DEF DeleteDevice, RelayTypeOK
    <2>3. \A e \in Flight : Asked(e) => /\ flight[e].device \in Device
                                        /\ flight[e].generation \in Nat
      BY <1>t DEF Asked, RelayTypeOK, Request
    <2>4. devices[d].generation \in Nat /\ now \in Nat
      BY <1>t DEF RelayTypeOK, DeviceRow
    <2>5. AcceptedWasSent'
      BY <2>1 DEF RelayInv, AcceptedWasSent, Asked
    <2>6. OfThePast'
      BY <2>1, <2>2, <2>3, <2>4 DEF RelayInv, OfThePast, Asked
    <2>7. ASSUME NEW e \in Flight, Asked(e), flight[e].device = d
          PROVE  flight[e].generation # devices'[d].generation
      BY <2>2, <2>3, <2>4, <2>7 DEF RelayInv, OfThePast
    <2>8. AdmissionStands'
      BY <2>1, <2>2, <2>3, <2>7 DEF RelayInv, AdmissionStands, Asked
    <2>9. NotAhead'
      BY <2>1, <2>2, <2>4 DEF RelayInv, NotAhead
    <2>10. DeletedStaysDeleted'
      BY <2>2 DEF RelayInv, DeletedStaysDeleted
    <2> QED BY <2>5, <2>6, <2>8, <2>9, <2>10
  <1>7. ASSUME Tick PROVE Rest'
    <2>1. UNCHANGED <<devices, stored, flight>>
      BY <1>7 DEF Tick
    <2>2. NotAhead'
      BY <1>7, <1>t DEF Tick, RelayInv, NotAhead, RelayTypeOK, DeviceRow
    <2> QED BY <2>1, <2>2 DEF RelayInv, AcceptedWasSent, OfThePast, AdmissionStands,
                              DeletedStaysDeleted, Asked
  <1>8. ASSUME UNCHANGED relayVars PROVE Rest'
    BY <1>8 DEF relayVars, RelayInv, AcceptedWasSent, OfThePast, AdmissionStands,
                NotAhead, DeletedStaysDeleted, Asked
  <1>9. Rest'
    BY <1>1, <1>2, <1>3, <1>4, <1>5, <1>6, <1>7, <1>8 DEF RelayNext, Handle
  <1> QED BY <1>t, <1>9 DEF RelayInv

(***************************************************************************)
(* The Relay's invariant, and with it what the runs check of it.           *)
(***************************************************************************)
THEOREM RelayInvariant == RelaySpec => []RelayInv
  BY InitInv, InvStep, PTL DEF RelaySpec

(* Nothing is ever held from before the watermark of a device. *)
THEOREM DeletionLasts == RelaySpec => []DeletedStaysDeleted
  <1>1. RelayInv => DeletedStaysDeleted
    BY DEF RelayInv
  <1> QED BY <1>1, RelayInvariant, PTL

-------------------------------------------------------------------------------
(***************************************************************************)
(* The refinement: a commit that writes is the Replace of the ledger, a    *)
(* deletion its Delete, and every other step leaves the ledger as it is.   *)
(***************************************************************************)
LEMMA LedgerInit == RelayInit => Ledger!Init
  BY RelayAssumption DEF RelayInit, Ledger!Init, Ledger!Unwritten, Nothing, FloorHour

LEMMA LedgerStep == RelayInv /\ RelayInv' /\ [RelayNext]_relayVars => [Ledger!Next]_Ledger!vars
  <1> SUFFICES ASSUME RelayInv, RelayInv', [RelayNext]_relayVars
               PROVE  [Ledger!Next]_Ledger!vars
    OBVIOUS
  <1> USE RelayAssumption
  <1>t. RelayTypeOK /\ RelayTypeOK'
    BY DEF RelayInv
  <1>1. ASSUME UNCHANGED stored,
               \A e \in Device : /\ devices'[e].revision = devices[e].revision
                                 /\ devices'[e].generation = devices[e].generation
                                 /\ devices'[e].deletedBefore = devices[e].deletedBefore
        PROVE  UNCHANGED Ledger!vars
    BY <1>1 DEF Ledger!vars
  <1>2. ASSUME NEW f \in Flight,
               AnyUpload(f) \/ Refuse(f) \/ CheckUsage(f) \/ GiveUp(f)
        PROVE  UNCHANGED Ledger!vars
    BY <1>1, <1>2 DEF AnyUpload, Refuse, CheckUsage, GiveUp
  <1>3. ASSUME NEW f \in Flight, CommitUsage(f) PROVE [Ledger!Next]_Ledger!vars
    <2>0. flight[f] \in Request /\ Asked(f)
      BY <1>3, <1>t DEF CommitUsage, RelayTypeOK, NoRequest, Request, Asked
    <2>1. PICK d \in Device : d = flight[f].device
      BY <2>0 DEF Request
    <2>2. CASE ~DeviceIsCurrent(f)
      BY <1>1, <1>3, <2>2 DEF CommitUsage
    <2>3. CASE DeviceIsCurrent(f)
      <3> DEFINE W == {h \in flight[f].accepted : NoNewerScan(f, h)}
      <3>1. W \subseteq Hour
        BY <2>0 DEF Request
      <3>2. \A h \in W : h >= FloorHour(devices[d].deletedBefore)
        BY <1>3, <2>0, <2>1, <2>3 DEF CommitUsage, DeviceIsCurrent, RelayInv, AdmissionStands
      <3>3. /\ \A h \in W : stored'[d][h] = flight[f].hours[h]
            /\ \A h \in Hour \ W : stored'[d][h] = stored[d][h]
            /\ \A e \in Device \ {d} : stored'[e] = stored[e]
            /\ DOMAIN stored' = Device /\ DOMAIN stored'[d] = Hour
        BY <1>3, <1>t, <2>1, <2>3, <3>1 DEF CommitUsage, RelayTypeOK
      <3>4. \A h \in W : stored'[d][h].version > stored[d][h].version
        BY <2>1, <3>3 DEF NoNewerScan
      <3>5. /\ devices'[d].revision = devices[d].revision + 1
            /\ \A e \in Device \ {d} : devices'[e] = devices[e]
            /\ \A e \in Device : /\ devices'[e].generation = devices[e].generation
                                  /\ devices'[e].deletedBefore = devices[e].deletedBefore
        <4>1. devices[d] \in DeviceRow /\ devices' = [devices EXCEPT ![d].revision = @ + 1]
          BY <1>3, <1>t, <2>1, <2>3 DEF CommitUsage, RelayTypeOK
        <4>2. \A e \in Device \ {d} : devices'[e] = devices[e]
          BY <1>t, <2>1, <4>1 DEF RelayTypeOK
        <4>3. /\ devices'[d].revision = devices[d].revision + 1
              /\ devices'[d].generation = devices[d].generation
              /\ devices'[d].deletedBefore = devices[d].deletedBefore
          BY <1>t, <2>1, <4>1 DEF RelayTypeOK, DeviceRow
        <4> QED BY <4>2, <4>3
      <3>6. Ledger!Replace(d)
        BY <2>1, <3>1, <3>2, <3>3, <3>4, <3>5 DEF Ledger!Replace, Ledger!Keeps
      <3>7. Ledger!Next
        BY <3>6 DEF Ledger!Next
      <3> QED BY <3>7
    <2> QED BY <2>2, <2>3
  <1>4. ASSUME NEW d \in Device, SignIn(d) \/ (\E s \in 1..LastSerial : Revoke(d, s))
        PROVE  UNCHANGED Ledger!vars
    <2>1. /\ UNCHANGED stored
          /\ \A e \in Device : /\ devices'[e].revision = devices[e].revision
                                /\ devices'[e].generation = devices[e].generation
                                /\ devices'[e].deletedBefore = devices[e].deletedBefore
      BY <1>4, <1>t DEF SignIn, Revoke, RelayTypeOK, DeviceRow
    <2> QED BY <1>1, <2>1
  <1>5. ASSUME NEW d \in Device, DeleteDevice(d) PROVE Ledger!Next
    <2>1. /\ stored' = [stored EXCEPT ![d] = [h \in Hour |-> Nothing]]
          /\ devices'[d].revision = devices[d].revision + 1
          /\ devices'[d].generation = devices[d].generation + 1
          /\ devices'[d].deletedBefore = now
          /\ \A e \in Device \ {d} : devices'[e] = devices[e]
      BY <1>5, <1>t DEF DeleteDevice, RelayTypeOK
    <2>2. devices[d].deletedBefore \in Nat /\ now \in Nat /\ devices[d].deletedBefore <= now
      BY <1>t DEF RelayInv, NotAhead, RelayTypeOK, DeviceRow
    <2>3. /\ FloorHour(now) >= FloorHour(devices[d].deletedBefore)
      BY <2>2, FloorMonotone
    <2> QED BY <2>1, <2>3 DEF Ledger!Next, Ledger!Delete, Ledger!Keeps, Ledger!Unwritten, Nothing
  <1>6. ASSUME Tick \/ UNCHANGED relayVars PROVE UNCHANGED Ledger!vars
    BY <1>1, <1>6 DEF Tick, relayVars
  <1> QED BY <1>2, <1>3, <1>4, <1>5, <1>6 DEF RelayNext, Handle

(***************************************************************************)
(* The Relay implements the ledger: in every behaviour, for any number of  *)
(* requests at once and whatever they carry.                               *)
(***************************************************************************)
THEOREM RelayKeepsItsLedger == RelaySpec => KeepsItsLedger
  BY LedgerInit, LedgerStep, RelayInvariant, PTL DEF RelaySpec, KeepsItsLedger, Ledger!Spec
===============================================================================
