---------------------------- MODULE Session_proofs ----------------------------
(***************************************************************************)
(* Theorems about Session, for any number of lanes and sign-out threads    *)
(* and any bounds: types; one live family at the Relay; the token in the   *)
(* row works; a sign-out is never undone; a live family is held; only the  *)
(* Relay's decision signs the device out.                                  *)
(***************************************************************************)
EXTENDS Session, TLAPS

(***************************************************************************)
(* StoredTokenWorks and NoRevival hold without three of the mishaps, each  *)
(* of which refutes one of them (README, "Where the code and its words     *)
(* part").  What is said of a live family, of the record of a sign-out and *)
(* of a row that is cleared holds with the four of the second line.        *)
(***************************************************************************)
Orderly == {"late", "race", "again"} \cap Mishaps = {}

Gentle == Mishaps \subseteq {"lost", "tardy", "delete", "cancel"}

-------------------------------------------------------------------------------
(* An actor holds a token exactly while it does something, ... *)
ActorsHold == \A a \in Actor : actor[a].pc = "idle" <=> actor[a].token = None

(* ... and a sign-in from when one was issued. *)
LoginHolds == login.pc \in {"issued", "outcome", "written"} => login.token # None

TypeInv == TypeOK /\ ActorsHold /\ LoginHolds

(* Only a lane rotates, and under the lock. *)
LanesRotate ==
  \A a \in Actor : /\ actor[a].pc \in {"lock", "rotate", "rotated", "send", "answered"} => a \in Lane
                   /\ actor[a].pc \in {"rotate", "rotated"} => lock = a

(* A sign-in that is under way has no row before it, ... *)
NoRowYet == login.pc \in {"checked", "browser", "exchange", "issued", "outcome"} => row = None

(* ... and once its grant is completed nothing of an earlier session is left. *)
Quiet ==
  \/ login.pc \in {"exchange", "issued", "outcome"}
  \/ login.pc = "browser" /\ grant \in {"completed", "outlived"}
  => \A a \in Actor : actor[a].token = None

(* Between its two looks the sign-in's token is the only one there is. *)
Written ==
  login.pc = "written" =>
    /\ ~aged
    /\ row # None => row.token = login.token
    /\ \A a \in Actor : actor[a].token # None =>
         /\ actor[a].token = login.token
         /\ actor[a].pc \notin {"lock", "rotate", "rotated"}

(* What the exchange issued is the current token of its family. *)
LoginToken ==
  login.pc \in {"issued", "outcome", "written"} =>
    login.token[1] \in Opened /\ IsCurrent(login.token)

FamilyOrder ==
  \A f \in Opened : families[f].previous # None => families[f].previous < families[f].current

(* All actors hold tokens of the family of the row. *)
OneFamily ==
  row # None => \A a \in Actor : actor[a].token # None => actor[a].token[1] = row.token[1]

(* No lane is ahead of the row, and one that has its epoch has its token. *)
Behind ==
  row # None => \A a \in Actor : actor[a].pc \in {"lock", "rotate", "send", "answered"} =>
    /\ actor[a].token[2] <= row.token[2]
    /\ Active => actor[a].epoch <= row.epoch
    /\ Active /\ actor[a].epoch = row.epoch => actor[a].token = row.token

(* The row keeps the token that is being rotated, ... *)
Rotating ==
  row # None => \A a \in Actor : actor[a].pc \in {"rotate", "rotated"} =>
    /\ actor[a].epoch <= row.epoch
    /\ actor[a].epoch = row.epoch => Active
    /\ actor[a].pc = "rotate" => actor[a].token = row.token

(* ... and its successor is the current one until it is written. *)
Rotated ==
  \A a \in Actor : actor[a].pc = "rotated" =>
    /\ actor[a].token[1] \in Opened /\ IsCurrent(actor[a].token)
    /\ row # None => row.token[2] < actor[a].token[2]

SessionInv ==
  /\ LanesRotate /\ NoRowYet /\ Quiet /\ Written /\ LoginToken /\ FamilyOrder
  /\ OneFamily /\ Behind /\ Rotating /\ Rotated /\ StoredTokenWorks
  /\ \A r \in late : r.op = "revoke"

-------------------------------------------------------------------------------
(* A live family is the row's, or the sign-in has just been issued it. *)
Held ==
  \A f \in Family : Live(f) =>
    \/ row # None /\ row.token[1] = f
    \/ login.pc \in {"issued", "outcome"} /\ login.token[1] = f

(* A family is refused, and its revocation is done, when it has ended. *)
EndedForCause ==
  \A a \in Actor : actor[a].pc \in {"refused", "revoked"} => ~Live(actor[a].token[1])

(* What a sign-out revokes is what its record names. *)
RevokesTheRow ==
  row # None => \A a \in Actor : actor[a].pc \in {"spawned", "revoke"} =>
    Pending /\ actor[a].token = row.token

(* No request is sent with a token that was replaced, ... *)
SendsCurrent ==
  \A a \in Actor : actor[a].pc = "send" /\ Live(actor[a].token[1]) => IsCurrent(actor[a].token)

(* ... because one that may have been replaced is about to expire. *)
FreshIsCurrent ==
  /\ Active /\ ~aged /\ Live(row.token[1]) => IsCurrent(row.token)
  /\ Active /\ (\E a \in Actor : actor[a].pc \in {"rotate", "rotated"}) => aged

CauseInv == Held /\ EndedForCause /\ RevokesTheRow /\ SendsCurrent /\ FreshIsCurrent

-------------------------------------------------------------------------------
(***************************************************************************)
(* Types.  The Relay's operations first, then one lemma per group of       *)
(* actions.                                                                *)
(***************************************************************************)
LEMMA EndedType ==
  ASSUME RelayTypeOK, NEW opened
  PROVE  Ended(opened) \in [Family -> Row \cup {None}]
  <1>1. \A f \in Family : families[f] # None => [families[f] EXCEPT !.revoked = TRUE] \in Row
    BY DEF RelayTypeOK, Row
  <1> QED BY <1>1 DEF RelayTypeOK, Ended

LEMMA TokensType ==
  ASSUME RelayTypeOK, NEW t \in Token, Rotate(t) \/ Authorize(t) \/ Revoke(t)
  PROVE  RelayTypeOK'
  <1>1. t[1] \in Family /\ t[2] \in Serial
    BY DEF Token
  <1>2. CASE Rotate(t)
    <2>1. families[t[1]] \in Row
      BY <1>1, <1>2 DEF RelayTypeOK, Rotate, CanRotate, Live, Opened
    <2>2. Successor(t)[2] \in Serial
      BY <1>2 DEF Rotate, Token, Successor
    <2>3. families' \in [Family -> Row \cup {None}]
      BY <1>1, <1>2, <2>1, <2>2 DEF RelayTypeOK, Rotate, Row
    <2> QED BY <1>2, <2>3 DEF RelayTypeOK, Rotate
  <1>3. CASE Authorize(t)
    <2>1. families[t[1]] \in Row
      BY <1>1, <1>3 DEF RelayTypeOK, Authorize, IsAuthorized, Live, Opened
    <2>2. families' \in [Family -> Row \cup {None}]
      BY <1>1, <1>3, <2>1 DEF RelayTypeOK, Authorize, Row
    <2> QED BY <1>3, <2>2 DEF RelayTypeOK, Authorize
  <1>4. CASE Revoke(t)
    BY <1>4, EndedType DEF RelayTypeOK, Revoke
  <1> QED BY <1>2, <1>3, <1>4

LEMMA GrantsType ==
  ASSUME RelayTypeOK,
         CreateGrant \/ CompleteGrant \/ ConsumeForNothing \/ DeleteDevice \/ \E f \in Family : Consume(f)
  PROVE  RelayTypeOK'
  <1>1. [current |-> 1, previous |-> None, unspent |-> FALSE, revoked |-> FALSE] \in Row
    BY RelaySessionsAssumption DEF Row, Serial
  <1>2. CASE \E f \in Family : Consume(f)
    BY <1>1, <1>2, EndedType DEF RelayTypeOK, Consume, GrantStates
  <1>3. Ended(Opened) \in [Family -> Row \cup {None}]
    BY EndedType
  <1>4. CASE CreateGrant \/ CompleteGrant
    BY <1>4 DEF RelayTypeOK, CreateGrant, CompleteGrant, GrantStates
  <1>5. CASE ConsumeForNothing
    BY <1>3, <1>5 DEF RelayTypeOK, ConsumeForNothing, GrantStates
  <1>6. CASE DeleteDevice
    BY <1>3, <1>6 DEF RelayTypeOK, DeleteDevice, GrantStates
  <1> QED BY <1>2, <1>4, <1>5, <1>6

(* The copies a device makes of a token or a row. *)
LEMMA CopiesType ==
  /\ NoLogin \in [pc : LoginStep, cancel : BOOLEAN, token : Token \cup {None}]
  /\ Resting \in Holding
  /\ None \notin SessionRow /\ None \notin Token
  BY NoSessionIsNone DEF NoLogin, LoginStep, Resting, Holding, ActorStep

LEMMA WriteType ==
  ASSUME TypeInv, NEW s \in Status, NEW t \in Token, NEW e \in Nat
  PROVE  /\ SessionOf(s, t, e + 1) \in SessionRow
         /\ NextEpoch \in Nat \ {0}
         /\ Write(s, t) => row' \in SessionRow
  <1>1. NextEpoch \in Nat \ {0}
    BY DEF TypeInv, ActorsHold, LoginHolds, TypeOK, NextEpoch, SessionRow
  <1> QED BY <1>1 DEF SessionOf, SessionRow, Write

LEMMA SpawnType ==
  ASSUME TypeInv, NEW t \in Token, Spawn(t)
  PROVE  actor' \in [Actor -> Holding] /\ ActorsHold'
  <1>1. None \notin Token
    BY CopiesType
  <1> QED BY <1>1 DEF TypeInv, ActorsHold, TypeOK, Spawn, Holding, ActorStep, Actor

LEMMA HappensType ==
  ASSUME TypeInv, NEW m, Happens(m)
  PROVE  events' \in 0..MaxEvents
  BY SessionAssumption DEF TypeInv, TypeOK, Happens

LEMMA LoginTypes ==
  ASSUME TypeInv, LoginNext
  PROVE  TypeInv'
  <1> USE DEF relayVars, LoginStep
  <1>1. CASE AskLogin
    BY <1>1, CopiesType DEF TypeInv, ActorsHold, LoginHolds, TypeOK, RelayTypeOK, AskLogin
  <1>2. CASE BeginLogin
    <2>1. RelayTypeOK'
      BY <1>2, GrantsType DEF TypeInv, ActorsHold, LoginHolds, TypeOK, BeginLogin
    <2> QED BY <1>2, <2>1 DEF TypeInv, ActorsHold, LoginHolds, TypeOK, BeginLogin
  <1>3. CASE Cancel
    BY <1>3, HappensType DEF TypeInv, ActorsHold, LoginHolds, TypeOK, RelayTypeOK, Cancel
  <1>4. CASE Complete
    <2>1. RelayTypeOK'
      BY <1>4, GrantsType DEF TypeInv, ActorsHold, LoginHolds, TypeOK, Complete
    <2> QED BY <1>4, <2>1 DEF TypeInv, ActorsHold, LoginHolds, TypeOK, Complete, deviceVars
  <1>5. CASE Callback
    BY <1>5 DEF TypeInv, ActorsHold, LoginHolds, TypeOK, RelayTypeOK, Callback
  <1>6. CASE ExchangeArrives
    <2>1. RelayTypeOK'
      BY <1>6, GrantsType DEF TypeInv, ActorsHold, LoginHolds, TypeOK, ExchangeArrives
    <2>2. \A f \in Family : <<f, 1>> \in Token
      BY RelaySessionsAssumption DEF Token, Serial
    <2>3. login' \in [pc : LoginStep, cancel : BOOLEAN, token : Token \cup {None}]
      BY <1>6, <2>2 DEF TypeInv, TypeOK, ExchangeArrives
    <2>4. events' \in 0..MaxEvents
      BY <1>6, HappensType DEF TypeInv, TypeOK, ExchangeArrives
    <2>5. LoginHolds'
      <3>1. \A f \in Family : <<f, 1>> # None
        BY <2>2, CopiesType
      <3>2. \/ login'.pc = "failed"
            \/ \E f \in Family : login'.token = <<f, 1>>
        BY <1>6 DEF TypeInv, TypeOK, ExchangeArrives
      <3> QED BY <3>1, <3>2 DEF LoginHolds
    <2> QED BY <1>6, <2>1, <2>3, <2>4, <2>5 DEF TypeInv, ActorsHold, TypeOK, ExchangeArrives
  <1>7. CASE ExchangeIsLost
    BY <1>7, HappensType DEF TypeInv, ActorsHold, LoginHolds, TypeOK, RelayTypeOK, ExchangeIsLost
  <1>8. CASE Finalize
    <2>1. row' \in SessionRow \cup {None}
      BY <1>8, WriteType DEF Finalize, Status, TypeInv, ActorsHold, LoginHolds, TypeOK
    <2> QED BY <1>8, <2>1 DEF TypeInv, ActorsHold, LoginHolds, TypeOK, RelayTypeOK, Finalize
  <1>9. CASE Install
    <2>1. row' \in SessionRow \cup {None}
      BY <1>9, WriteType DEF Install, Status, TypeInv, ActorsHold, LoginHolds, TypeOK
    <2>2. actor' \in [Actor -> Holding] /\ ActorsHold'
      BY <1>9, SpawnType DEF Install, TypeInv, ActorsHold, LoginHolds, TypeOK
    <2> QED BY <1>9, <2>1, <2>2, CopiesType DEF TypeInv, ActorsHold, LoginHolds, TypeOK, RelayTypeOK, Install, NoLogin
  <1>10. CASE LookAgain
    <2>1. row' \in SessionRow \cup {None}
      BY <1>10, WriteType DEF LookAgain, Status, TypeInv, ActorsHold, LoginHolds, TypeOK
    <2>2. actor' \in [Actor -> Holding] /\ ActorsHold'
      BY <1>10, SpawnType DEF LookAgain, TypeInv, ActorsHold, LoginHolds, TypeOK
    <2> QED BY <1>10, <2>1, <2>2, CopiesType DEF TypeInv, ActorsHold, LoginHolds, TypeOK, RelayTypeOK, LookAgain, NoLogin
  <1>11. CASE LoginFails
    <2>1. actor' \in [Actor -> Holding] /\ ActorsHold'
      BY <1>11, SpawnType DEF LoginFails, TypeInv, ActorsHold, LoginHolds, TypeOK, SessionRow, Pending, HasStatus
    <2> QED BY <1>11, <2>1, CopiesType DEF TypeInv, ActorsHold, LoginHolds, TypeOK, RelayTypeOK, LoginFails, NoLogin
  <1> QED BY <1>1, <1>2, <1>3, <1>4, <1>5, <1>6, <1>7, <1>8, <1>9, <1>10, <1>11 DEF LoginNext

LEMMA LogoutTypes ==
  ASSUME TypeInv, LogoutNext
  PROVE  TypeInv'
  <1> USE DEF relayVars
  <1>1. CASE AskLogout
    BY <1>1 DEF TypeInv, ActorsHold, LoginHolds, TypeOK, RelayTypeOK, AskLogout
  <1>2. CASE MarkPending
    <2>1. leaving.token \in Token
      BY <1>2 DEF TypeInv, TypeOK, MarkPending, SessionRow
    <2>2. row' \in SessionRow \cup {None}
      BY <1>2, <2>1, WriteType DEF MarkPending, Status
    <2>3. actor' \in [Actor -> Holding] /\ ActorsHold'
      BY <1>2, <2>1, SpawnType DEF MarkPending
    <2> QED BY <1>2, <2>2, <2>3 DEF TypeInv, LoginHolds, TypeOK, RelayTypeOK, MarkPending
  <1>3. CASE RetryLogout
    <2>1. Full \in Actor /\ row.token \in Token
      BY <1>3, SessionAssumption DEF TypeInv, TypeOK, RetryLogout, Pending, HasStatus, SessionRow, Actor
    <2>2. actor' \in [Actor -> Holding] /\ ActorsHold'
      BY <1>3, <2>1, CopiesType DEF TypeInv, ActorsHold, TypeOK, RetryLogout, Holding, ActorStep
    <2> QED BY <1>3, <2>2 DEF TypeInv, LoginHolds, TypeOK, RelayTypeOK, RetryLogout
  <1>4. CASE ClearPending
    <2>1. actor' \in [Actor -> Holding] /\ ActorsHold'
      BY <1>4, CopiesType DEF TypeInv, ActorsHold, TypeOK, ClearPending, Rest, Resting
    <2> QED BY <1>4, <2>1 DEF TypeInv, LoginHolds, TypeOK, RelayTypeOK, ClearPending
  <1>5. ASSUME NEW a \in Thread, ReadEpoch(a) PROVE TypeInv'
    <2>1. (IF Pending THEN row.epoch ELSE 0) \in Nat
      BY DEF TypeInv, TypeOK, Pending, HasStatus, SessionRow
    <2>2. a \in Actor
      BY DEF Actor
    <2>3. /\ actor' = [actor EXCEPT ![a].pc = "revoke", ![a].epoch = IF Pending THEN row.epoch ELSE 0]
          /\ actor \in [Actor -> Holding] /\ actor[a].pc = "spawned"
      BY <1>5 DEF ReadEpoch, TypeInv, TypeOK
    <2>4. actor' \in [Actor -> Holding]
      BY <2>1, <2>2, <2>3 DEF Holding, ActorStep
    <2>5. \A b \in Actor : /\ actor'[b].token = actor[b].token
                           /\ actor'[b].pc = "idle" <=> actor[b].pc = "idle"
      BY <2>2, <2>3 DEF Holding
    <2>6. ActorsHold'
      BY <2>5 DEF TypeInv, ActorsHold
    <2> QED BY <1>5, <2>4, <2>6 DEF TypeInv, LoginHolds, TypeOK, RelayTypeOK, ReadEpoch
  <1>6. ASSUME NEW a \in Thread, FinishLogout(a) PROVE TypeInv'
    <2>1. actor' \in [Actor -> Holding] /\ ActorsHold'
      BY <1>6, CopiesType DEF TypeInv, ActorsHold, TypeOK, FinishLogout, Rest, Resting
    <2> QED BY <1>6, <2>1 DEF TypeInv, LoginHolds, TypeOK, RelayTypeOK, FinishLogout, ClearIf
  <1> QED BY <1>1, <1>2, <1>3, <1>4, <1>5, <1>6 DEF LogoutNext

(* A step or a rest of an actor keeps its type. *)
LEMMA ActorMoves ==
  ASSUME TypeInv, NEW a \in Actor
  PROVE  /\ Rest(a) => actor' \in [Actor -> Holding] /\ ActorsHold'
         /\ actor[a].pc # "idle" => \A pc \in ActorStep \ {"idle"} :
              Step(a, pc) => actor' \in [Actor -> Holding] /\ ActorsHold'
         /\ \A pc \in ActorStep \ {"idle"}, t \in Token, e \in Nat :
              Hold(a, pc, t, e) => actor' \in [Actor -> Holding] /\ ActorsHold'
  <1>1. Rest(a) => actor' \in [Actor -> Holding] /\ ActorsHold'
    BY CopiesType DEF TypeInv, ActorsHold, TypeOK, Rest, Resting
  <1>2. ASSUME actor[a].pc # "idle", NEW pc \in ActorStep \ {"idle"}, Step(a, pc)
        PROVE  actor' \in [Actor -> Holding] /\ ActorsHold'
    BY <1>2 DEF TypeInv, ActorsHold, TypeOK, Step, Holding
  <1>3. ASSUME NEW pc \in ActorStep \ {"idle"}, NEW t \in Token, NEW e \in Nat, Hold(a, pc, t, e)
        PROVE  actor' \in [Actor -> Holding] /\ ActorsHold'
    <2>1. t # None
      BY CopiesType
    <2> QED BY <1>3, <2>1 DEF TypeInv, ActorsHold, TypeOK, Hold, Holding
  <1> QED BY <1>1, <1>2, <1>3

(* What an actor holds. *)
LEMMA HeldType ==
  ASSUME TypeInv, NEW a \in Actor, actor[a].pc # "idle"
  PROVE  actor[a].token \in Token /\ actor[a].epoch \in Nat
  BY DEF TypeInv, ActorsHold, TypeOK, Holding

LEMMA LaneTypes ==
  ASSUME TypeInv, LaneNext
  PROVE  TypeInv'
  <1> USE DEF relayVars
  <1>1. Lane \subseteq Actor /\ Full \in Actor
    BY SessionAssumption DEF Actor
  <1>2. row # None => row.token \in Token /\ row.epoch \in Nat
    BY DEF TypeInv, TypeOK, SessionRow
  <1>3. CASE SyncControl
    <2>1. actor[Full].token \in Token /\ actor[Full].epoch \in Nat
      BY <1>1, <1>3, HeldType DEF SyncControl
    <2>2. row' \in SessionRow \cup {None}
      BY <1>3, <2>1, WriteType DEF SyncControl, Status, TypeInv, TypeOK
    <2> QED BY <1>1, <1>3, <2>2, ActorMoves DEF TypeInv, LoginHolds, TypeOK, RelayTypeOK, SyncControl
  <1>4. ASSUME NEW a \in Lane, Snapshot(a) PROVE TypeInv'
    <2>1. actor' \in [Actor -> Holding] /\ ActorsHold'
      BY <1>1, <1>2, <1>4, ActorMoves DEF Snapshot, ActorStep, Active, HasStatus
    <2> QED BY <1>4, <2>1 DEF TypeInv, LoginHolds, TypeOK, RelayTypeOK, Snapshot
  <1>5. ASSUME NEW a \in Lane, TakeLock(a) PROVE TypeInv'
    <2>1. actor' \in [Actor -> Holding] /\ ActorsHold'
      BY <1>1, <1>2, <1>5, ActorMoves DEF TakeLock, ActorStep, Active, HasStatus
    <2> QED BY <1>5, <2>1 DEF TypeInv, LoginHolds, TypeOK, RelayTypeOK, TakeLock
  <1>6. ASSUME NEW a \in Lane, RotateArrives(a) PROVE TypeInv'
    <2>1. actor[a].token \in Token /\ actor[a].epoch \in Nat
      BY <1>1, <1>6, HeldType DEF RotateArrives
    <2>2. RelayTypeOK'
      BY <1>6, <2>1, TokensType DEF TypeInv, TypeOK, RelayTypeOK, RotateArrives
    <2>3. actor' \in [Actor -> Holding] /\ ActorsHold'
      BY <1>1, <1>6, <2>1, ActorMoves DEF RotateArrives, ActorStep, Rotate
    <2>4. events' \in 0..MaxEvents
      BY <1>6, HappensType DEF TypeInv, TypeOK, RotateArrives
    <2>5. lock' \in Lane \cup {None}
      BY <1>6 DEF TypeInv, TypeOK, RotateArrives, Release
    <2> QED BY <1>6, <2>2, <2>3, <2>4, <2>5 DEF TypeInv, LoginHolds, TypeOK, RotateArrives
  <1>7. ASSUME NEW a \in Lane, RotateIsLost(a) PROVE TypeInv'
    <2>1. actor[a].token \in Token
      BY <1>1, <1>7, HeldType DEF RotateIsLost
    <2>2. late' \in SUBSET Request
      BY <1>7, <2>1 DEF TypeInv, TypeOK, RotateIsLost, MayBeLate, Request
    <2>3. lock' \in Lane \cup {None}
      BY <1>7 DEF TypeInv, TypeOK, RotateIsLost, Release
    <2>4. events' \in 0..MaxEvents
      BY <1>7, HappensType DEF RotateIsLost
    <2> QED BY <1>1, <1>7, <2>2, <2>3, <2>4, ActorMoves
            DEF TypeInv, LoginHolds, TypeOK, RelayTypeOK, RotateIsLost
  <1>8. ASSUME NEW a \in Lane, KeepRotation(a) PROVE TypeInv'
    <2>1. actor[a].token \in Token /\ actor[a].epoch \in Nat
      BY <1>1, <1>8, HeldType DEF KeepRotation
    <2>2. row' \in SessionRow \cup {None}
      BY <1>8, <2>1, WriteType DEF KeepRotation, Status, TypeInv, TypeOK
    <2>3. actor' \in [Actor -> Holding] /\ ActorsHold'
      BY <1>1, <1>8, <2>1, ActorMoves DEF KeepRotation, ActorStep
    <2>4. lock' \in Lane \cup {None}
      BY <1>8 DEF TypeInv, TypeOK, KeepRotation, Release
    <2> QED BY <1>8, <2>2, <2>3, <2>4 DEF TypeInv, LoginHolds, TypeOK, RelayTypeOK, KeepRotation
  <1>9. ASSUME NEW a \in Lane, RequestArrives(a) PROVE TypeInv'
    <2>1. actor[a].token \in Token
      BY <1>1, <1>9, HeldType DEF RequestArrives
    <2>2. RelayTypeOK'
      BY <1>9, <2>1, TokensType DEF TypeInv, TypeOK, RelayTypeOK, RequestArrives
    <2>3. actor' \in [Actor -> Holding] /\ ActorsHold'
      BY <1>1, <1>9, ActorMoves DEF RequestArrives, ActorStep
    <2>4. events' \in 0..MaxEvents
      BY <1>9, HappensType DEF TypeInv, TypeOK, RequestArrives
    <2> QED BY <1>9, <2>2, <2>3, <2>4 DEF TypeInv, LoginHolds, TypeOK, RequestArrives
  <1>10. ASSUME NEW a \in Lane, RequestIsLost(a) PROVE TypeInv'
    BY <1>1, <1>10, ActorMoves, HappensType
       DEF TypeInv, LoginHolds, TypeOK, RelayTypeOK, RequestIsLost
  <1>11. ASSUME NEW a \in Lane, Refused(a) \/ Answered(a) PROVE TypeInv'
    BY <1>1, <1>11, ActorMoves DEF TypeInv, LoginHolds, TypeOK, RelayTypeOK, Refused, Answered, ClearIf
  <1> QED BY <1>3, <1>4, <1>5, <1>6, <1>7, <1>8, <1>9, <1>10, <1>11 DEF LaneNext

LEMMA WireTypes ==
  ASSUME TypeInv, WireNext
  PROVE  TypeInv'
  <1> USE DEF relayVars
  <1>1. ASSUME NEW a \in Actor, RevokeArrives(a) PROVE TypeInv'
    <2>1. actor[a].token \in Token
      BY <1>1, HeldType DEF RevokeArrives
    <2>2. RelayTypeOK'
      BY <1>1, <2>1, TokensType DEF TypeInv, TypeOK, RevokeArrives
    <2>3. actor' \in [Actor -> Holding] /\ ActorsHold'
      BY <1>1, ActorMoves DEF RevokeArrives, ActorStep
    <2>4. events' \in 0..MaxEvents
      BY <1>1, HappensType DEF TypeInv, TypeOK, RevokeArrives
    <2> QED BY <1>1, <2>2, <2>3, <2>4 DEF TypeInv, LoginHolds, TypeOK, RevokeArrives
  <1>2. ASSUME NEW a \in Actor, RevokeIsLost(a) PROVE TypeInv'
    <2>1. actor[a].token \in Token
      BY <1>2, HeldType DEF RevokeIsLost
    <2>2. late' \in SUBSET Request
      BY <1>2, <2>1 DEF TypeInv, TypeOK, RevokeIsLost, MayBeLate, Request
    <2>3. events' \in 0..MaxEvents
      BY <1>2, HappensType DEF RevokeIsLost
    <2> QED BY <1>2, <2>2, <2>3, ActorMoves DEF TypeInv, LoginHolds, TypeOK, RelayTypeOK, RevokeIsLost
  <1>3. ASSUME NEW r \in Request, ArrivesLate(r) PROVE TypeInv'
    <2>1. r.token \in Token
      BY DEF Request
    <2>2. RelayTypeOK'
      BY <1>3, <2>1, TokensType DEF TypeInv, TypeOK, RelayTypeOK, ArrivesLate, Serve
    <2> QED BY <1>3, <2>2 DEF TypeInv, ActorsHold, LoginHolds, TypeOK, ArrivesLate
  <1> QED BY <1>1, <1>2, <1>3 DEF WireNext

LEMMA TypeStep == TypeInv /\ [Next]_vars => TypeInv'
  <1> SUFFICES ASSUME TypeInv, [Next]_vars PROVE TypeInv'
    OBVIOUS
  <1>1. CASE Age
    BY <1>1 DEF TypeInv, ActorsHold, LoginHolds, TypeOK, RelayTypeOK, Age, relayVars
  <1>2. CASE Restart
    <2>1. actor' \in [Actor -> Holding] /\ ActorsHold'
      BY <1>2, CopiesType DEF Restart, ActorsHold, Resting
    <2> QED BY <1>2, <2>1, CopiesType, HappensType
            DEF TypeInv, LoginHolds, TypeOK, RelayTypeOK, Restart, NoLogin, relayVars
  <1>3. CASE Delete
    <2>1. RelayTypeOK'
      BY <1>3, GrantsType DEF TypeInv, TypeOK, Delete
    <2> QED BY <1>3, <2>1, HappensType DEF TypeInv, ActorsHold, LoginHolds, TypeOK, Delete
  <1>4. CASE UNCHANGED vars
    BY <1>4 DEF TypeInv, ActorsHold, LoginHolds, TypeOK, RelayTypeOK, vars, relayVars, deviceVars
  <1> QED BY <1>1, <1>2, <1>3, <1>4, LoginTypes, LogoutTypes, LaneTypes, WireTypes DEF Next

LEMMA TypeInit == Init => TypeInv
  <1> SUFFICES ASSUME Init PROVE TypeInv
    OBVIOUS
  <1>1. RelayTypeOK
    BY DEF Init, RelayInit, RelayTypeOK, GrantStates
  <1>2. ActorsHold /\ LoginHolds
    BY DEF Init, ActorsHold, LoginHolds, NoLogin, Resting
  <1>3. events \in 0..MaxEvents
    BY SessionAssumption DEF Init
  <1> QED BY <1>1, <1>2, <1>3, CopiesType DEF Init, TypeInv, TypeOK

(***************************************************************************)
(* Every variable of Session and of the Relay's half keeps its type.       *)
(***************************************************************************)
THEOREM SessionTypes == Spec => []TypeOK
  <1>1. TypeInv => TypeOK
    BY DEF TypeInv
  <1> QED BY <1>1, TypeInit, TypeStep, PTL DEF Spec

-------------------------------------------------------------------------------
(***************************************************************************)
(* What each operation of the Relay does to the families.                  *)
(***************************************************************************)
SameLife ==
  Opened' = Opened /\ \A f \in Family : Live(f)' <=> Live(f)

SameTokens ==
  \A f \in Opened : /\ families'[f].current = families[f].current
                    /\ families'[f].previous = families[f].previous

LEMMA EndedFacts ==
  ASSUME RelayTypeOK, NEW S, families' = Ended(S)
  PROVE  /\ Opened' = Opened /\ SameTokens
         /\ \A f \in Opened : families'[f].unspent = families[f].unspent
         /\ \A f \in Family : Live(f)' <=> Live(f) /\ f \notin S
  <1>1. \A f \in Family : families[f] \in Row \cup {None}
    BY DEF RelayTypeOK
  <1>2. \A f \in Family : families[f] # None => [families[f] EXCEPT !.revoked = TRUE] # None
    BY <1>1, NoRowIsNone DEF Row
  <1> QED BY <1>1, <1>2 DEF Ended, Opened, Live, SameTokens, Row

LEMMA RotateFacts ==
  ASSUME RelayTypeOK, NEW t \in Token, Rotate(t)
  PROVE  /\ SameLife /\ device' = device /\ grant' = grant
         /\ t[1] \in Opened /\ Presented(t) /\ Live(t[1])
         /\ families'[t[1]].current = families[t[1]].current + 1
         /\ families'[t[1]].previous = t[2] /\ families'[t[1]].unspent = TRUE
         /\ \A f \in Family \ {t[1]} : families'[f] = families[f]
  <1>1. t[1] \in Family /\ t[1] \in Opened /\ Live(t[1])
    BY DEF Token, Rotate, CanRotate, Live
  <1>2. families[t[1]] \in Row
    BY <1>1 DEF RelayTypeOK, Opened
  <1>3. /\ families'[t[1]].current = families[t[1]].current + 1
        /\ families'[t[1]].previous = t[2] /\ families'[t[1]].unspent = TRUE
        /\ families'[t[1]].revoked = families[t[1]].revoked
        /\ \A f \in Family \ {t[1]} : families'[f] = families[f]
    BY <1>1, <1>2 DEF RelayTypeOK, Rotate, Row, Successor
  <1>4. families'[t[1]] # None
    <2>1. families' = [families EXCEPT ![t[1]] = [families[t[1]] EXCEPT
                         !.current = Successor(t)[2], !.previous = t[2], !.unspent = TRUE]]
      BY <1>1, <1>2 DEF Rotate, RelayTypeOK, Row
    <2>2. Successor(t)[2] \in Serial /\ t[2] \in Serial
      BY DEF Rotate, Token, Successor
    <2>3. families'[t[1]] \in Row
      BY <1>1, <1>2, <2>1, <2>2 DEF RelayTypeOK, Row
    <2> QED BY <2>3, NoRowIsNone
  <1> QED BY <1>1, <1>3, <1>4 DEF Rotate, CanRotate, SameLife, Opened, Live

LEMMA AuthorizeFacts ==
  ASSUME RelayTypeOK, NEW t \in Token, Authorize(t)
  PROVE  /\ SameLife /\ SameTokens /\ device' = device /\ grant' = grant
         /\ t[1] \in Opened /\ Live(t[1]) /\ IsCurrent(t)
         /\ \A f \in Family \ {t[1]} : families'[f] = families[f]
  <1>1. t[1] \in Family /\ t[1] \in Opened /\ Live(t[1])
    BY DEF Token, Authorize, IsAuthorized, Live
  <1>2. families[t[1]] \in Row
    BY <1>1 DEF RelayTypeOK, Opened
  <1>3. /\ families'[t[1]].current = families[t[1]].current
        /\ families'[t[1]].previous = families[t[1]].previous
        /\ families'[t[1]].revoked = families[t[1]].revoked
        /\ families'[t[1]] \in Row
        /\ \A f \in Family \ {t[1]} : families'[f] = families[f]
    BY <1>1, <1>2 DEF RelayTypeOK, Authorize, Row
  <1>4. families'[t[1]] # None
    BY <1>3, NoRowIsNone
  <1> QED BY <1>1, <1>3, <1>4 DEF Authorize, IsAuthorized, SameLife, SameTokens, Opened, Live

LEMMA RevokeFacts ==
  ASSUME RelayTypeOK, NEW t \in Token, Revoke(t)
  PROVE  /\ Opened' = Opened /\ SameTokens /\ grant' = grant
         /\ \A f \in Opened : families'[f].unspent = families[f].unspent
         /\ \A f \in Family : Live(f)' <=> Live(f) /\ ~(Presented(t) /\ f = t[1])
         /\ (device' = device \/ (Presented(t) /\ Live(t[1])))
  <1>1. CASE Presented(t)
    <2>1. families' = Ended({t[1]})
      BY <1>1 DEF Revoke
    <2>2. /\ Opened' = Opened /\ SameTokens
          /\ \A f \in Opened : families'[f].unspent = families[f].unspent
          /\ \A f \in Family : Live(f)' <=> Live(f) /\ f \notin {t[1]}
      BY <2>1, EndedFacts
    <2>3. grant' = grant /\ (device' = device \/ Live(t[1]))
      BY <1>1 DEF Revoke, SignsOut
    <2>4. \A f \in Family : Live(f)' <=> Live(f) /\ ~(Presented(t) /\ f = t[1])
      BY <1>1, <2>2
    <2>5. (device' = device \/ (Presented(t) /\ Live(t[1])))
      BY <1>1, <2>3
    <2> QED BY <2>2, <2>3, <2>4, <2>5
  <1>2. CASE ~Presented(t)
    <2>1. families' = families /\ device' = device /\ grant' = grant
      BY <1>2 DEF Revoke
    <2>2. Opened' = Opened /\ SameTokens /\ \A f \in Family : Live(f)' <=> Live(f)
      BY <2>1 DEF Opened, Live, SameTokens
    <2>3. \A f \in Family : Live(f)' <=> Live(f) /\ ~(Presented(t) /\ f = t[1])
      BY <1>2, <2>2
    <2> QED BY <2>1, <2>2, <2>3
  <1> QED BY <1>1, <1>2

LEMMA EndAllFacts ==
  ASSUME RelayTypeOK, ConsumeForNothing \/ DeleteDevice
  PROVE  /\ Opened' = Opened /\ SameTokens
         /\ \A f \in Opened : families'[f].unspent = families[f].unspent
         /\ \A f \in Family : ~Live(f)'
  <1>1. families' = Ended(Opened)
    BY DEF ConsumeForNothing, DeleteDevice
  <1> QED BY <1>1, EndedFacts DEF Live

LEMMA ConsumeFacts ==
  ASSUME RelayTypeOK, NEW f \in Family, Consume(f)
  PROVE  /\ f \notin Opened /\ Opened' = Opened \cup {f} /\ SameTokens
         /\ \A g \in Opened : families'[g].unspent = families[g].unspent
         /\ families'[f].current = 1 /\ families'[f].previous = None
         /\ \A g \in Family : Live(g)' <=> g = f
         /\ DeviceIsCurrent'
  <1> DEFINE row1 == [current |-> 1, previous |-> None, unspent |-> FALSE, revoked |-> FALSE]
  <1>1. Ended(Opened) \in [Family -> Row \cup {None}]
    BY EndedType
  <1>2. families'[f] = row1 /\ \A g \in Family \ {f} : families'[g] = Ended(Opened)[g]
    <2>1. families' = [Ended(Opened) EXCEPT ![f] = row1]
      BY DEF Consume, OpenedBefore
    <2> QED BY <1>1, <2>1
  <1>3. row1 \in Row /\ row1 # None
    <2>1. 1 \in Serial
      BY RelaySessionsAssumption DEF Serial
    <2>2. row1 \in Row
      BY <2>1 DEF Row
    <2> QED BY <2>2, NoRowIsNone
  <1>4. \A g \in Opened : /\ Ended(Opened)[g] # None
                          /\ Ended(Opened)[g] = [families[g] EXCEPT !.revoked = TRUE]
                          /\ families[g] \in Row
    <2>1. \A g \in Opened : families[g] \in Row
      BY DEF Opened, RelayTypeOK
    <2>2. \A g \in Opened : [families[g] EXCEPT !.revoked = TRUE] # None
      BY <2>1, NoRowIsNone DEF Row
    <2> QED BY <2>1, <2>2 DEF Ended, Opened
  <1>5. \A g \in Family \ Opened : Ended(Opened)[g] = None
    BY DEF Ended, Opened
  <1>6. f \notin Opened /\ DeviceIsCurrent'
    BY DEF Consume, DeviceIsCurrent
  <1>7. Opened' = Opened \cup {f}
    BY <1>2, <1>3, <1>4, <1>5, <1>6 DEF Opened
  <1>8. \A g \in Opened : /\ families'[g].current = families[g].current
                          /\ families'[g].previous = families[g].previous
                          /\ families'[g].unspent = families[g].unspent
                          /\ families'[g].revoked
    <2>1. \A g \in Opened : families'[g] = [families[g] EXCEPT !.revoked = TRUE] /\ families[g] \in Row
      BY <1>2, <1>4, <1>6 DEF Opened
    <2> QED BY <2>1 DEF Row
  <1> QED BY <1>2, <1>6, <1>7, <1>8 DEF SameTokens, Live

(* Everything a step of the system can do to the Relay. *)
LEMMA RelayMoves ==
  ASSUME TypeInv, [Next]_vars
  PROVE  \/ UNCHANGED <<families, device>>
         \/ \E t \in Token : Rotate(t) \/ Authorize(t) \/ Revoke(t)
         \/ ConsumeForNothing \/ DeleteDevice
         \/ \E f \in Family : Consume(f)
  <1> USE DEF relayVars
  <1>1. CASE LoginNext
    BY <1>1 DEF LoginNext, AskLogin, BeginLogin, CreateGrant, Cancel, Complete, CompleteGrant,
                Callback, ExchangeArrives, ExchangeIsLost, Finalize, Install, LookAgain, LoginFails
  <1>2. CASE LogoutNext
    BY <1>2 DEF LogoutNext, AskLogout, MarkPending, RetryLogout, ClearPending, ReadEpoch, FinishLogout
  <1>3. CASE LaneNext
    <2>1. ASSUME NEW a \in Lane, RotateArrives(a) \/ RequestArrives(a)
          PROVE  \/ UNCHANGED <<families, device>>
                 \/ \E t \in Token : Rotate(t) \/ Authorize(t)
      <3>1. actor[a].token \in Token
        BY <2>1, HeldType DEF RotateArrives, RequestArrives, Actor
      <3> QED BY <2>1, <3>1 DEF RotateArrives, RequestArrives
    <2> QED BY <1>3, <2>1 DEF LaneNext, SyncControl, Snapshot, TakeLock, RotateIsLost, KeepRotation,
                              RequestIsLost, Refused, Answered
  <1>4. CASE WireNext
    <2>1. ASSUME NEW a \in Actor, RevokeArrives(a) PROVE \E t \in Token : Revoke(t)
      BY <2>1, HeldType DEF RevokeArrives
    <2>2. ASSUME NEW r \in Request, ArrivesLate(r)
          PROVE  UNCHANGED <<families, device>> \/ \E t \in Token : Rotate(t) \/ Revoke(t)
      BY <2>2 DEF ArrivesLate, Serve, Request
    <2> QED BY <1>4, <2>1, <2>2 DEF WireNext, RevokeIsLost
  <1>5. CASE Age \/ Restart \/ Delete \/ UNCHANGED vars
    BY <1>5 DEF Age, Restart, Delete, vars
  <1> QED BY <1>1, <1>2, <1>3, <1>4, <1>5 DEF Next

(***************************************************************************)
(* One live family.  Families are opened in order, so the one that opens   *)
(* is the newest, and its opening ends all others.                         *)
(***************************************************************************)
InOrder == \A g \in Opened, h \in Family : h < g => h \in Opened

LiveInv == InOrder /\ OneLiveFamily

LEMMA LiveStep ==
  ASSUME TypeInv, LiveInv, [Next]_vars
  PROVE  LiveInv'
  <1>1. RelayTypeOK
    BY DEF TypeInv, TypeOK
  <1>2. Opened \subseteq Family /\ Family \subseteq Nat
    BY RelaySessionsAssumption DEF Opened, Family
  <1>3. CASE UNCHANGED <<families, device>>
    BY <1>3 DEF LiveInv, InOrder, OneLiveFamily, Opened, Live, DeviceIsCurrent
  <1>4. ASSUME NEW t \in Token, Rotate(t) \/ Authorize(t) PROVE LiveInv'
    <2>1. SameLife /\ device' = device
      BY <1>1, <1>4, RotateFacts, AuthorizeFacts
    <2> QED BY <2>1 DEF SameLife, LiveInv, InOrder, OneLiveFamily, DeviceIsCurrent
  <1>5. ASSUME NEW t \in Token, Revoke(t) PROVE LiveInv'
    <2>1. /\ Opened' = Opened
          /\ \A f \in Family : Live(f)' <=> Live(f) /\ ~(Presented(t) /\ f = t[1])
          /\ (device' = device \/ (Presented(t) /\ Live(t[1])))
      BY <1>1, <1>5, RevokeFacts
    <2>2. ASSUME NEW f \in Family, Live(f)' PROVE DeviceIsCurrent' /\ \A g \in Opened : g <= f
      <3>1. Live(f) /\ ~(Presented(t) /\ f = t[1])
        BY <2>1, <2>2
      <3>2. DeviceIsCurrent /\ \A g \in Opened : g <= f
        BY <3>1 DEF LiveInv, OneLiveFamily
      <3>3. Live(t[1]) => t[1] = f
        <4>1. t[1] \in Family
          BY DEF Token
        <4>2. Live(t[1]) => f <= t[1] /\ t[1] <= f
          BY <3>1, <3>2, <4>1 DEF LiveInv, OneLiveFamily, Live
        <4>3. f \in Nat /\ t[1] \in Nat
          BY <1>2, <4>1
        <4> QED BY <4>2, <4>3
      <3>4. device' = device
        BY <1>5, <2>1, <3>1, <3>3
      <3> QED BY <3>2, <3>4 DEF DeviceIsCurrent
    <2> QED BY <2>1, <2>2 DEF LiveInv, InOrder, OneLiveFamily
  <1>6. CASE ConsumeForNothing \/ DeleteDevice
    BY <1>1, <1>6, EndAllFacts DEF LiveInv, InOrder, OneLiveFamily
  <1>7. ASSUME NEW f \in Family, Consume(f) PROVE LiveInv'
    <2>1. /\ f \notin Opened /\ Opened' = Opened \cup {f} /\ DeviceIsCurrent'
          /\ \A g \in Family : Live(g)' <=> g = f
      BY <1>1, <1>7, ConsumeFacts
    <2>2. \A g \in Family : g < f => g \in Opened
      BY <1>7 DEF Consume
    <2>3. \A g \in Opened : g <= f
      BY <1>2, <2>1 DEF LiveInv, InOrder
    <2> QED BY <1>2, <2>1, <2>2, <2>3 DEF LiveInv, InOrder, OneLiveFamily
  <1> QED BY <1>3, <1>4, <1>5, <1>6, <1>7, RelayMoves

LEMMA LiveInit == Init => LiveInv
  BY DEF Init, RelayInit, LiveInv, InOrder, OneLiveFamily, Opened, Live

(***************************************************************************)
(* However sign-ins, late revocations, lost answers and deletions cross,   *)
(* at most one family lives, it is the newest, and the device it speaks    *)
(* for is signed in (consumeLoginGrant, revokeRefreshSession).             *)
(***************************************************************************)
THEOREM OneFamilyLives == Spec => []OneLiveFamily
  <1>1. Init => TypeInv /\ LiveInv
    BY TypeInit, LiveInit
  <1>2. TypeInv /\ LiveInv /\ [Next]_vars => TypeInv' /\ LiveInv'
    BY TypeStep, LiveStep
  <1>3. LiveInv => OneLiveFamily
    BY DEF LiveInv
  <1> QED BY <1>1, <1>2, <1>3, PTL DEF Spec

-------------------------------------------------------------------------------
(***************************************************************************)
(* The token in the row.  What the copies look like after each move of an  *)
(* actor, first.                                                           *)
(***************************************************************************)
LEMMA StepFacts ==
  ASSUME TypeInv, NEW a \in Actor, NEW pc, Step(a, pc)
  PROVE  /\ actor'[a].pc = pc
         /\ \A b \in Actor : actor'[b].token = actor[b].token /\ actor'[b].epoch = actor[b].epoch
         /\ \A b \in Actor : b # a => actor'[b].pc = actor[b].pc
  BY DEF TypeInv, TypeOK, Step, Holding

LEMMA RestFacts ==
  ASSUME TypeInv, NEW a \in Actor, Rest(a)
  PROVE  /\ actor'[a].pc = "idle" /\ actor'[a].token = None
         /\ \A b \in Actor : b # a => actor'[b] = actor[b]
  BY DEF TypeInv, TypeOK, Rest, Resting

LEMMA HoldFacts ==
  ASSUME TypeInv, NEW a \in Actor, NEW pc, NEW t, NEW e, Hold(a, pc, t, e)
  PROVE  /\ actor'[a].pc = pc /\ actor'[a].token = t /\ actor'[a].epoch = e
         /\ \A b \in Actor : b # a => actor'[b] = actor[b]
  BY DEF TypeInv, TypeOK, Hold

LEMMA SpawnFacts ==
  ASSUME TypeInv, NEW t, Spawn(t)
  PROVE  \E a \in Thread :
           /\ a \in Actor /\ actor[a].pc = "idle"
           /\ actor'[a].pc = "spawned" /\ actor'[a].token = t
           /\ \A b \in Actor : b # a => actor'[b] = actor[b]
  BY DEF TypeInv, TypeOK, Spawn, Actor

LEMMA WriteFacts ==
  ASSUME TypeInv, NEW s \in Status, NEW t \in Token, Write(s, t)
  PROVE  /\ row' # None /\ row'.status = s /\ row'.token = t
         /\ row # None => row'.epoch = row.epoch + 1
  <1>1. row' \in SessionRow
    BY WriteType, 0 \in Nat
  <1>2. row' # None
    BY <1>1, CopiesType
  <1> QED BY <1>2 DEF Write, SessionOf, NextEpoch

(* What the types say of the numbers the argument compares. *)
LEMMA Numbers ==
  ASSUME TypeInv
  PROVE  /\ row # None => /\ row.token \in Token /\ row.token[1] \in Family
                          /\ row.token[2] \in Nat /\ row.epoch \in Nat
         /\ \A a \in Actor : /\ actor[a].epoch \in Nat
                             /\ actor[a].pc # "idle" =>
                                  /\ actor[a].token \in Token /\ actor[a].token[1] \in Family
                                  /\ actor[a].token[2] \in Nat
         /\ \A f \in Opened : /\ families[f].current \in Nat
                              /\ families[f].previous # None => families[f].previous \in Nat
  <1>1. \A t \in Token : t[1] \in Family /\ t[2] \in Nat
    BY RelaySessionsAssumption DEF Token, Serial
  <1>2. row # None => row.token \in Token /\ row.epoch \in Nat
    BY DEF TypeInv, TypeOK, SessionRow
  <1>3. \A a \in Actor : /\ actor[a].epoch \in Nat
                         /\ actor[a].pc # "idle" => actor[a].token \in Token
    BY HeldType DEF TypeInv, TypeOK, Holding
  <1>4. \A f \in Opened : families[f] \in Row
    BY DEF TypeInv, TypeOK, RelayTypeOK, Opened
  <1>5. \A f \in Opened : /\ families[f].current \in Nat
                          /\ families[f].previous # None => families[f].previous \in Nat
    BY <1>4, RelaySessionsAssumption DEF Row, Serial
  <1> QED BY <1>1, <1>2, <1>3, <1>5

LEMMA SameFamilies ==
  ASSUME families' = families
  PROVE  Opened' = Opened /\ FamilyOrder' = FamilyOrder
  BY DEF Opened, FamilyOrder

(* A family's tokens are issued in order. *)
LEMMA OrderStep ==
  ASSUME TypeInv, FamilyOrder, [Next]_vars
  PROVE  FamilyOrder'
  <1>1. RelayTypeOK
    BY DEF TypeInv, TypeOK
  <1>2. \A f \in Opened : f \in Family
    BY DEF Opened
  <1>3. CASE UNCHANGED <<families, device>>
    BY <1>3, SameFamilies
  <1>4. ASSUME NEW t \in Token, Rotate(t) PROVE FamilyOrder'
    <2>1. /\ Opened' = Opened /\ t[1] \in Opened /\ Presented(t)
          /\ families'[t[1]].current = families[t[1]].current + 1
          /\ families'[t[1]].previous = t[2]
          /\ \A f \in Family \ {t[1]} : families'[f] = families[f]
      BY <1>1, <1>4, RotateFacts DEF SameLife
    <2>2. t[2] <= families[t[1]].current /\ t[2] \in Nat /\ families[t[1]].current \in Nat
      <3>1. t[2] \in Nat
        BY RelaySessionsAssumption DEF Token, Serial
      <3>2. t[2] # None
        BY <3>1, RelaySessionsAssumption
      <3> QED BY <2>1, <3>1, <3>2, Numbers DEF FamilyOrder, Presented, IsCurrent, IsUnspentPrevious
    <2> QED BY <1>2, <2>1, <2>2 DEF FamilyOrder
  <1>5. ASSUME NEW t \in Token, Authorize(t) \/ Revoke(t) PROVE FamilyOrder'
    <2>1. Opened' = Opened /\ SameTokens
      BY <1>1, <1>5, AuthorizeFacts, RevokeFacts DEF SameLife
    <2> QED BY <2>1 DEF FamilyOrder, SameTokens
  <1>6. CASE ConsumeForNothing \/ DeleteDevice
    BY <1>1, <1>6, EndAllFacts DEF FamilyOrder, SameTokens
  <1>7. ASSUME NEW f \in Family, Consume(f) PROVE FamilyOrder'
    BY <1>1, <1>7, ConsumeFacts DEF FamilyOrder, SameTokens
  <1> QED BY <1>3, <1>4, <1>5, <1>6, <1>7, RelayMoves

LEMMA LoginKeeps ==
  ASSUME TypeInv, Orderly, SessionInv, LoginNext, FamilyOrder'
  PROVE  SessionInv'
  <1> USE DEF relayVars, SessionInv, LanesRotate, NoRowYet, Quiet, Written, LoginToken, OneFamily,
              Behind, Rotating, Rotated, StoredTokenWorks,
              Presented, IsCurrent, IsUnspentPrevious, Live
  <1>0. login \in [pc : LoginStep, cancel : BOOLEAN, token : Token \cup {None}]
    BY DEF TypeInv, TypeOK
  <1>1. CASE AskLogin
    BY <1>1, SameFamilies DEF AskLogin, NoLogin
  <1>2. CASE BeginLogin
    BY <1>0, <1>2, SameFamilies DEF BeginLogin, CreateGrant
  <1>3. CASE Cancel
    BY <1>0, <1>3, SameFamilies DEF Cancel, Active, HasStatus
  <1>4. CASE Complete
    BY <1>4, SameFamilies DEF Complete, CompleteGrant, deviceVars, HeldBefore, Orderly
  <1>5. CASE Callback
    BY <1>0, <1>5, SameFamilies DEF Callback
  <1>6. CASE ExchangeArrives
    <2>1. row = None /\ \A a \in Actor : actor[a].token = None /\ actor[a].pc = "idle"
      BY <1>6 DEF ExchangeArrives, TypeInv, ActorsHold
    <2>2. CASE login'.pc = "failed"
      BY <1>6, <2>1, <2>2 DEF ExchangeArrives
    <2>3. CASE login'.pc # "failed"
      <3>1. PICK f \in Family : Consume(f) /\ login'.token = <<f, 1>> /\ login'.pc = "issued"
        BY <1>0, <1>6, <2>3 DEF ExchangeArrives
      <3>2. RelayTypeOK
        BY DEF TypeInv, TypeOK
      <3>3. f \in Opened' /\ families'[f].current = 1
        BY <3>1, <3>2, ConsumeFacts
      <3>4. UNCHANGED <<row, actor, lock, late>>
        BY <1>6 DEF ExchangeArrives
      <3>5. login'.token[1] = f /\ login'.token[2] = 1
        BY <3>1
      <3> QED BY <2>1, <3>1, <3>3, <3>4, <3>5
    <2> QED BY <2>2, <2>3
  <1>7. CASE ExchangeIsLost
    BY <1>0, <1>7, SameFamilies DEF ExchangeIsLost
  <1>8. CASE Finalize
    <2>1. login.token \in Token /\ \A a \in Actor : actor[a].token = None /\ actor[a].pc = "idle"
      BY <1>0, <1>8 DEF Finalize, TypeInv, ActorsHold, LoginHolds
    <2>2. login.cancel => row' # None /\ row'.status = "logout_pending" /\ row'.token = login.token
      BY <1>8, <2>1, WriteFacts DEF Finalize, Status
    <2> QED BY <1>0, <1>8, <2>1, <2>2, SameFamilies DEF Finalize
  <1>9. CASE Install
    <2>1. login.token \in Token /\ \A a \in Actor : actor[a].token = None /\ actor[a].pc = "idle"
      BY <1>0, <1>9 DEF Install, TypeInv, ActorsHold, LoginHolds
    <2>2. row' # None /\ row'.token = login.token
      BY <1>9, <2>1, WriteFacts DEF Install, Status
    <2>3. CASE login.cancel
      <3>1. PICK a \in Thread : /\ a \in Actor /\ actor'[a].pc = "spawned" /\ actor'[a].token = login.token
                                /\ \A b \in Actor : b # a => actor'[b] = actor[b]
        BY <1>9, <2>3, SpawnFacts DEF Install
      <3> QED BY <1>9, <2>1, <2>2, <2>3, <3>1, SameFamilies DEF Install, NoLogin
    <2>4. CASE ~login.cancel
      BY <1>0, <1>9, <2>1, <2>2, <2>4, SameFamilies DEF Install
    <2> QED BY <2>3, <2>4
  <1>10. CASE LookAgain
    <2>1. login.token \in Token
      BY <1>0, <1>10 DEF LookAgain, TypeInv, LoginHolds
    <2>2. CASE login.cancel
      <3>1. row' # None /\ row'.status = "logout_pending" /\ row'.token = login.token
        BY <1>10, <2>1, <2>2, WriteFacts DEF LookAgain, Status
      <3>2. PICK a \in Thread : /\ a \in Actor /\ actor'[a].pc = "spawned" /\ actor'[a].token = login.token
                                /\ \A b \in Actor : b # a => actor'[b] = actor[b]
        BY <1>10, <2>2, SpawnFacts DEF LookAgain
      <3>3. login.token[2] \in Nat
        BY <2>1, RelaySessionsAssumption DEF Token, Serial
      <3> QED BY <1>10, <3>1, <3>2, <3>3, SameFamilies DEF LookAgain, NoLogin, Active, HasStatus, TypeInv, ActorsHold
    <2>3. CASE ~login.cancel
      BY <1>10, <2>3, SameFamilies DEF LookAgain, NoLogin, Active, HasStatus
    <2> QED BY <2>2, <2>3
  <1>11. CASE LoginFails
    <2>1. CASE Pending
      <3>1. PICK a \in Thread : /\ a \in Actor /\ actor'[a].pc = "spawned" /\ actor'[a].token = row.token
                                /\ \A b \in Actor : b # a => actor'[b] = actor[b]
        BY <1>11, <2>1, SpawnFacts DEF LoginFails
      <3> QED BY <1>11, <2>1, <3>1, SameFamilies DEF LoginFails, NoLogin, Pending, Active, HasStatus
    <2>2. CASE ~Pending
      BY <1>11, <2>2, SameFamilies DEF LoginFails, NoLogin, Active, HasStatus
    <2> QED BY <2>1, <2>2
  <1> QED BY <1>1, <1>2, <1>3, <1>4, <1>5, <1>6, <1>7, <1>8, <1>9, <1>10, <1>11 DEF LoginNext

LEMMA LogoutKeeps ==
  ASSUME TypeInv, Orderly, SessionInv, LogoutNext, FamilyOrder'
  PROVE  SessionInv'
  <1> USE DEF relayVars, SessionInv, LanesRotate, NoRowYet, Quiet, Written, LoginToken, OneFamily,
              Behind, Rotating, Rotated, StoredTokenWorks,
              Presented, IsCurrent, IsUnspentPrevious, Live, Active, Pending, HasStatus
  <1>0. Full \in Actor /\ Thread \subseteq Actor
    BY SessionAssumption DEF Actor
  <1>1. CASE AskLogout
    BY <1>1, SameFamilies DEF AskLogout
  <1>2. CASE MarkPending
    <2>1. row = leaving /\ row # None /\ row.token \in Token
      BY <1>2 DEF MarkPending, Orderly, TypeInv, TypeOK, SessionRow
    <2>2. /\ row' # None /\ row'.status = "logout_pending" /\ row'.token = row.token
          /\ row'.epoch = row.epoch + 1
      BY <1>2, <2>1, WriteFacts DEF MarkPending, Status
    <2>3. PICK a \in Thread : /\ a \in Actor /\ actor'[a].pc = "spawned" /\ actor'[a].token = row.token
                              /\ \A b \in Actor : b # a => actor'[b] = actor[b]
      BY <1>2, <2>1, SpawnFacts DEF MarkPending
    <2> QED BY <1>2, <2>1, <2>2, <2>3, Numbers, SameFamilies DEF MarkPending
  <1>3. CASE RetryLogout
    <2>1. /\ row # None /\ actor'[Full].pc = "revoke" /\ actor'[Full].token = row.token
          /\ \A b \in Actor : b # Full => actor'[b] = actor[b]
      BY <1>0, <1>3 DEF RetryLogout, TypeInv, TypeOK
    <2> QED BY <1>3, <2>1, SameFamilies DEF RetryLogout
  <1>4. CASE ClearPending
    <2>1. /\ actor'[Full].pc = "idle" /\ actor'[Full].token = None
          /\ \A b \in Actor : b # Full => actor'[b] = actor[b]
      BY <1>0, <1>4, RestFacts DEF ClearPending
    <2> QED BY <1>4, <2>1, SameFamilies DEF ClearPending
  <1>5. ASSUME NEW a \in Thread, ReadEpoch(a) PROVE SessionInv'
    <2>1. /\ actor'[a].pc = "revoke" /\ actor'[a].token = actor[a].token
          /\ \A b \in Actor : b # a => actor'[b] = actor[b]
      BY <1>0, <1>5 DEF ReadEpoch, TypeInv, TypeOK, Holding
    <2>2. UNCHANGED <<relayVars, row, aged, login, lock, late>> /\ actor[a].pc = "spawned"
      BY <1>5 DEF ReadEpoch
    <2> QED BY <1>0, <2>1, <2>2, SameFamilies
  <1>6. ASSUME NEW a \in Thread, FinishLogout(a) PROVE SessionInv'
    <2>1. /\ actor'[a].pc = "idle" /\ actor'[a].token = None
          /\ \A b \in Actor : b # a => actor'[b] = actor[b]
      BY <1>0, <1>6, RestFacts DEF FinishLogout
    <2> QED BY <1>6, <2>1, SameFamilies DEF FinishLogout, ClearIf
  <1> QED BY <1>1, <1>2, <1>3, <1>4, <1>5, <1>6 DEF LogoutNext

LEMMA LaneKeeps ==
  ASSUME TypeInv, Orderly, SessionInv, LaneNext, FamilyOrder'
  PROVE  SessionInv'
  <1> USE DEF relayVars, SessionInv, LanesRotate, NoRowYet, Quiet, Written, LoginToken, OneFamily,
              Behind, Rotating, Rotated, StoredTokenWorks,
              Presented, IsCurrent, IsUnspentPrevious, Live, Active, Pending, HasStatus
  <1>0. Full \in Actor /\ Lane \subseteq Actor /\ None \notin Lane /\ RelayTypeOK
    BY SessionAssumption DEF Actor, TypeInv, TypeOK
  <1>1. CASE SyncControl
    <2>1. /\ actor'[Full].pc = "idle" /\ actor'[Full].token = None
          /\ \A b \in Actor : b # Full => actor'[b] = actor[b]
      BY <1>0, <1>1, RestFacts DEF SyncControl
    <2>2. UNCHANGED <<relayVars, aged, login, lock, late>> /\ actor[Full].pc = "answered"
      BY <1>1 DEF SyncControl
    <2>3. CASE row' = row
      BY <1>0, <2>1, <2>2, <2>3, SameFamilies
    <2>4. CASE row' # row
      <3>1. /\ Active /\ row.epoch = actor[Full].epoch
            /\ row' = SessionOf("active", actor[Full].token, actor[Full].epoch + 1)
        BY <1>1, <2>4 DEF SyncControl, AtEpoch
      <3>2. actor[Full].token = row.token /\ row.token \in Token /\ row.epoch \in Nat
        BY <1>0, <2>2, <3>1, Numbers
      <3>3. row' \in SessionRow
        BY <3>1, <3>2, WriteType DEF Status
      <3>4. row' # None /\ row'.status = "active" /\ row'.token = row.token /\ row'.epoch = row.epoch + 1
        BY <3>1, <3>2, <3>3, CopiesType DEF SessionOf
      <3>5. LanesRotate' /\ NoRowYet' /\ Quiet' /\ Written' /\ LoginToken' /\ FamilyOrder'
        BY <1>0, <2>1, <2>2, <3>1, <3>4, SameFamilies
      <3>6. OneFamily' /\ Behind' /\ Rotating'
        BY <1>0, <2>1, <2>2, <3>1, <3>4, Numbers, SameFamilies
      <3>7. Rotated' /\ StoredTokenWorks'
        BY <1>0, <2>1, <2>2, <3>1, <3>4, Numbers, SameFamilies
      <3> QED BY <2>2, <3>5, <3>6, <3>7
    <2> QED BY <2>3, <2>4
  <1>2. ASSUME NEW a \in Lane, Snapshot(a) PROVE SessionInv'
    <2>1. /\ actor'[a].pc \in {"lock", "send"} /\ (~aged => actor'[a].pc = "send")
          /\ actor'[a].token = row.token /\ actor'[a].epoch = row.epoch
          /\ \A b \in Actor : b # a => actor'[b] = actor[b]
      BY <1>0, <1>2, HoldFacts DEF Snapshot
    <2>2. UNCHANGED <<relayVars, row, aged, login, lock, late>> /\ row # None /\ row.status = "active"
      BY <1>2 DEF Snapshot
    <2> QED BY <1>0, <2>1, <2>2, Numbers, SameFamilies
  <1>3. ASSUME NEW a \in Lane, TakeLock(a) PROVE SessionInv'
    <2>1. UNCHANGED <<relayVars, row, aged, login, late>> /\ lock = None /\ actor[a].pc = "lock"
      BY <1>3 DEF TakeLock, LockIsFree
    <2>2. \A b \in Actor : actor[b].pc \notin {"rotate", "rotated"}
      BY <1>0, <2>1
    <2>3. CASE Rest(a) /\ lock' = lock
      <3>1. /\ actor'[a].pc = "idle" /\ actor'[a].token = None
            /\ \A b \in Actor : b # a => actor'[b] = actor[b]
        BY <1>0, <2>3, RestFacts
      <3> QED BY <1>0, <2>1, <2>3, <3>1, SameFamilies
    <2>4. CASE Active /\ ~aged /\ Hold(a, "send", row.token, row.epoch) /\ lock' = lock
      <3>1. /\ actor'[a].pc = "send" /\ actor'[a].token = row.token /\ actor'[a].epoch = row.epoch
            /\ \A b \in Actor : b # a => actor'[b] = actor[b]
        BY <1>0, <2>4, HoldFacts
      <3> QED BY <1>0, <2>1, <2>4, <3>1, Numbers, SameFamilies
    <2>5. CASE Active /\ aged /\ Hold(a, "rotate", row.token, row.epoch) /\ lock' = a
      <3>1. /\ actor'[a].pc = "rotate" /\ actor'[a].token = row.token /\ actor'[a].epoch = row.epoch
            /\ \A b \in Actor : b # a => actor'[b] = actor[b]
        BY <1>0, <2>5, HoldFacts
      <3> QED BY <1>0, <2>1, <2>2, <2>5, <3>1, Numbers, SameFamilies
    <2> QED BY <1>3, <2>3, <2>4, <2>5 DEF TakeLock
  <1>4. ASSUME NEW a \in Lane, RotateArrives(a) PROVE SessionInv'
    <2> DEFINE t == actor[a].token
    <2>1. /\ UNCHANGED <<row, aged, login, late>> /\ actor[a].pc = "rotate" /\ lock = a
          /\ t \in Token /\ (row # None => t = row.token)
      BY <1>0, <1>4, HeldType DEF RotateArrives
    <2>2. \A b \in Actor : actor[b].pc \in {"rotate", "rotated"} => b = a
      BY <2>1
    <2>3. login.pc \notin {"exchange", "issued", "outcome", "written"}
      BY <1>0, <2>1, CopiesType
    <2>4. CASE UNCHANGED relayVars /\ Rest(a) /\ Release(a)
      <3>1. /\ actor'[a].pc = "idle" /\ actor'[a].token = None
            /\ \A b \in Actor : b # a => actor'[b] = actor[b]
        BY <1>0, <2>4, RestFacts
      <3> QED BY <1>0, <2>1, <2>2, <2>4, <3>1, SameFamilies DEF Release
    <2>5. CASE UNCHANGED relayVars /\ Step(a, "refused") /\ Release(a)
      <3>1. /\ actor'[a].pc = "refused" /\ actor'[a].token = t /\ actor'[a].epoch = actor[a].epoch
            /\ \A b \in Actor : /\ actor'[b].token = actor[b].token /\ actor'[b].epoch = actor[b].epoch
                                /\ b # a => actor'[b].pc = actor[b].pc
        BY <1>0, <2>5, StepFacts
      <3> QED BY <1>0, <2>1, <2>2, <2>3, <2>5, <3>1, SameFamilies DEF Release
    <2>6. CASE Rotate(t)
      <3>1. /\ Opened' = Opened /\ grant' = grant /\ t[1] \in Opened /\ Presented(t)
            /\ families'[t[1]].current = families[t[1]].current + 1
            /\ families'[t[1]].previous = t[2] /\ families'[t[1]].unspent = TRUE
        BY <1>0, <2>1, <2>6, RotateFacts DEF SameLife
      <3>2. t[2] <= families[t[1]].current
        <4>1. t[2] \in Nat /\ families[t[1]].current \in Nat /\ t[2] # None
          BY <1>0, <2>1, <3>1, Numbers, RelaySessionsAssumption
        <4> QED BY <3>1, <4>1 DEF FamilyOrder
      <3>3. CASE Hold(a, "rotated", Successor(t), actor[a].epoch) /\ lock' = lock
        <4>1. /\ actor'[a].pc = "rotated" /\ actor'[a].token = Successor(t)
              /\ actor'[a].epoch = actor[a].epoch
              /\ \A b \in Actor : b # a => actor'[b] = actor[b]
          BY <1>0, <3>3, HoldFacts
        <4>2. /\ actor'[a].token[1] = t[1] /\ actor'[a].token[2] = families[t[1]].current + 1
              /\ actor'[a].token # None
          <5>1. Successor(t) \in Token
            BY <2>6 DEF Rotate
          <5>2. Successor(t)[1] = t[1] /\ Successor(t)[2] = families[t[1]].current + 1
            BY DEF Successor
          <5> QED BY <4>1, <5>1, <5>2, CopiesType
        <4>3. t[2] < families[t[1]].current + 1
          BY <1>0, <2>1, <3>1, <3>2, Numbers
        <4>4. StoredTokenWorks' /\ Rotated'
          BY <1>0, <2>1, <2>2, <3>1, <4>1, <4>2, <4>3
        <4>5. LanesRotate' /\ NoRowYet' /\ Quiet' /\ Written' /\ LoginToken'
          <5>1. t # None
            BY <2>1, CopiesType
          <5> QED BY <1>0, <2>1, <2>2, <2>3, <3>1, <3>3, <4>1, <5>1
        <4>6. OneFamily' /\ Behind' /\ Rotating'
          BY <1>0, <2>1, <2>2, <3>1, <4>1, <4>2
        <4> QED BY <2>1, <4>4, <4>5, <4>6
      <3>4. CASE Rest(a) /\ Release(a)
        <4>1. /\ actor'[a].pc = "idle" /\ actor'[a].token = None
              /\ \A b \in Actor : b # a => actor'[b] = actor[b]
          BY <1>0, <3>4, RestFacts
        <4> QED BY <1>0, <2>1, <2>2, <2>3, <3>1, <3>4, <4>1 DEF Release
      <3> QED BY <1>4, <2>6, <3>3, <3>4 DEF RotateArrives, Rotate
    <2> QED BY <1>4, <2>4, <2>5, <2>6 DEF RotateArrives
  <1>5. ASSUME NEW a \in Lane, RotateIsLost(a) PROVE SessionInv'
    <2>1. /\ actor'[a].pc = "idle" /\ actor'[a].token = None
          /\ \A b \in Actor : b # a => actor'[b] = actor[b]
      BY <1>0, <1>5, RestFacts DEF RotateIsLost
    <2>2. UNCHANGED <<relayVars, row, aged, login, late>> /\ Release(a)
      BY <1>5 DEF RotateIsLost, MayBeLate, Orderly
    <2> QED BY <1>0, <2>1, <2>2, SameFamilies DEF Release
  <1>6. ASSUME NEW a \in Lane, KeepRotation(a) PROVE SessionInv'
    <2>1. UNCHANGED <<relayVars, login, late>> /\ Release(a) /\ actor[a].pc = "rotated" /\ lock = a
      BY <1>0, <1>6 DEF KeepRotation
    <2>2. \A b \in Actor : actor[b].pc \in {"rotate", "rotated"} => b = a
      BY <2>1
    <2>3. CASE ~AtEpoch(actor[a].epoch)
      <3>1. /\ actor'[a].pc = "idle" /\ actor'[a].token = None
            /\ \A b \in Actor : b # a => actor'[b] = actor[b]
        BY <1>0, <1>6, <2>3, RestFacts DEF KeepRotation
      <3>2. UNCHANGED <<row, aged>>
        BY <1>6, <2>3 DEF KeepRotation
      <3> QED BY <1>0, <2>1, <2>2, <3>1, <3>2, SameFamilies DEF Release
    <2>4. CASE AtEpoch(actor[a].epoch)
      <3> DEFINE t == actor[a].token
      <3>1. /\ row # None /\ Active /\ row.epoch = actor[a].epoch
            /\ t[1] = row.token[1] /\ row.token[2] < t[2] /\ IsCurrent(t) /\ t[1] \in Opened
            /\ t # None /\ t \in Token
        BY <1>0, <2>1, <2>4, HeldType, CopiesType DEF AtEpoch
      <3>2. row' = SessionOf("active", t, row.epoch + 1) /\ row' \in SessionRow
        BY <1>6, <2>4, <3>1, Numbers, WriteType DEF KeepRotation, Status
      <3>3. /\ row' # None /\ row'.status = "active" /\ row'.token = t /\ row'.epoch = row.epoch + 1
            /\ aged' = FALSE
        BY <1>6, <2>4, <3>2, CopiesType DEF SessionOf, KeepRotation
      <3>4. /\ actor'[a].pc = "send" /\ actor'[a].token = t /\ actor'[a].epoch = row.epoch + 1
            /\ \A b \in Actor : b # a => actor'[b] = actor[b]
        BY <1>0, <1>6, <2>4, <3>1, HoldFacts DEF KeepRotation
      <3>5. Opened' = Opened /\ families' = families
        BY <2>1, SameFamilies
      <3>6. login.pc \notin {"checked", "browser", "exchange", "issued", "outcome", "written"}
        BY <1>0, <2>1, <3>1
      <3>7. LanesRotate' /\ NoRowYet' /\ Quiet' /\ Written' /\ LoginToken'
        BY <1>0, <2>1, <2>2, <3>4, <3>6 DEF Release
      <3>8. OneFamily'
        BY <1>0, <3>1, <3>3, <3>4
      <3>9. Behind'
        <4>1. \A b \in Actor \ {a} : actor[b].pc \in {"lock", "rotate", "send", "answered"} =>
                actor[b].token[2] <= t[2] /\ actor[b].epoch <= row.epoch /\ actor[b].epoch # row.epoch + 1
          BY <1>0, <3>1, Numbers
        <4> QED BY <1>0, <3>1, <3>3, <3>4, <4>1, Numbers
      <3>10. Rotating' /\ Rotated' /\ StoredTokenWorks'
        BY <1>0, <2>2, <3>1, <3>3, <3>4, <3>5
      <3> QED BY <2>1, <3>7, <3>8, <3>9, <3>10
    <2> QED BY <2>3, <2>4
  <1>7. ASSUME NEW a \in Lane, RequestArrives(a) PROVE SessionInv'
    <2> DEFINE t == actor[a].token
    <2>1. UNCHANGED <<row, aged, login, lock, late>> /\ actor[a].pc = "send" /\ t \in Token /\ t # None
      BY <1>0, <1>7, HeldType, CopiesType DEF RequestArrives
    <2>2. \/ actor'[a].pc = "idle" /\ actor'[a].token = None
          \/ /\ actor'[a].pc \in {"answered", "refused"}
             /\ actor'[a].token = t /\ actor'[a].epoch = actor[a].epoch
      BY <1>0, <1>7, RestFacts, StepFacts DEF RequestArrives
    <2>3. \A b \in Actor : b # a => /\ actor'[b].pc = actor[b].pc /\ actor'[b].token = actor[b].token
                                    /\ actor'[b].epoch = actor[b].epoch
      BY <1>0, <1>7, RestFacts, StepFacts DEF RequestArrives
    <2>4. CASE UNCHANGED relayVars
      BY <1>0, <2>1, <2>2, <2>3, <2>4, SameFamilies
    <2>5. CASE Authorize(t)
      <3>1. /\ Opened' = Opened /\ SameTokens /\ grant' = grant /\ t[1] \in Opened /\ IsCurrent(t)
            /\ \A f \in Family : Live(f)' <=> Live(f)
            /\ \A f \in Family \ {t[1]} : families'[f] = families[f]
        BY <1>0, <2>1, <2>5, AuthorizeFacts DEF SameLife
      <3>2. row # None => row.token[1] = t[1] /\ t[2] <= row.token[2]
        BY <1>0, <2>1
      <3>3. row # None /\ row.token[1] \in Opened /\ ~IsCurrent(row.token) => ~Presented(row.token)
        BY <3>1, <3>2, Numbers, RelaySessionsAssumption DEF FamilyOrder
      <3>4. StoredTokenWorks'
        BY <2>1, <3>1, <3>3, Numbers DEF SameTokens
      <3>5. LanesRotate' /\ NoRowYet' /\ Quiet' /\ Written' /\ LoginToken'
        BY <1>0, <2>1, <2>2, <2>3, <3>1 DEF SameTokens
      <3>6. OneFamily' /\ Behind' /\ Rotating' /\ Rotated'
        BY <1>0, <2>1, <2>2, <2>3, <3>1 DEF SameTokens
      <3> QED BY <2>1, <3>4, <3>5, <3>6
    <2> QED BY <1>7, <2>4, <2>5 DEF RequestArrives
  <1>8. ASSUME NEW a \in Lane, RequestIsLost(a) \/ Refused(a) \/ Answered(a) PROVE SessionInv'
    <2>1. /\ actor'[a].pc = "idle" /\ actor'[a].token = None
          /\ \A b \in Actor : b # a => actor'[b] = actor[b]
      BY <1>0, <1>8, RestFacts DEF RequestIsLost, Refused, Answered
    <2>2. UNCHANGED <<relayVars, aged, login, lock, late>> /\ (row' = row \/ row' = None)
      BY <1>8 DEF RequestIsLost, Refused, Answered, ClearIf
    <2> QED BY <1>0, <2>1, <2>2, SameFamilies
  <1> QED BY <1>1, <1>2, <1>3, <1>4, <1>5, <1>6, <1>7, <1>8 DEF LaneNext

LEMMA WireKeeps ==
  ASSUME TypeInv, Orderly, SessionInv, WireNext, FamilyOrder'
  PROVE  SessionInv'
  <1> USE DEF relayVars, SessionInv, LanesRotate, NoRowYet, Quiet, Written, LoginToken, OneFamily,
              Behind, Rotating, Rotated, StoredTokenWorks,
              Presented, IsCurrent, IsUnspentPrevious, Active, Pending, HasStatus
  <1>1. ASSUME NEW a \in Actor, RevokeArrives(a) PROVE SessionInv'
    <2>1. UNCHANGED <<row, aged, login, lock, late>> /\ actor[a].pc = "revoke"
      BY <1>1 DEF RevokeArrives
    <2>2. Revoke(actor[a].token) /\ actor[a].token \in Token /\ RelayTypeOK
      BY <1>1, HeldType DEF RevokeArrives, TypeInv, TypeOK
    <2>3. /\ Opened' = Opened /\ SameTokens /\ grant' = grant
          /\ \A f \in Opened : families'[f].unspent = families[f].unspent
          /\ \A f \in Family : Live(f)' => Live(f)
      BY <2>2, RevokeFacts
    <2>4. /\ actor'[a].pc \in {"idle", "revoked"} /\ (actor'[a].token = None \/ actor'[a].token = actor[a].token)
          /\ \A b \in Actor : b # a => /\ actor'[b].pc = actor[b].pc /\ actor'[b].token = actor[b].token
                                       /\ actor'[b].epoch = actor[b].epoch
      BY <1>1, RestFacts, StepFacts DEF RevokeArrives
    <2>5. StoredTokenWorks'
      BY <2>1, <2>3, Numbers DEF SameTokens
    <2>6. LanesRotate' /\ NoRowYet' /\ Quiet' /\ Written' /\ LoginToken'
      BY <2>1, <2>3, <2>4 DEF SameTokens
    <2>7. OneFamily' /\ Behind' /\ Rotating' /\ Rotated'
      BY <2>1, <2>3, <2>4 DEF SameTokens
    <2> QED BY <2>1, <2>5, <2>6, <2>7
  <1>2. ASSUME NEW a \in Actor, RevokeIsLost(a) PROVE SessionInv'
    <2>1. /\ actor'[a].pc = "idle" /\ actor'[a].token = None
          /\ \A b \in Actor : b # a => actor'[b] = actor[b]
      BY <1>2, RestFacts DEF RevokeIsLost
    <2>2. UNCHANGED <<relayVars, row, aged, login, lock>> /\ \A r \in late' : r.op = "revoke"
      BY <1>2 DEF RevokeIsLost, MayBeLate
    <2> QED BY <2>1, <2>2, SameFamilies DEF Live
  <1>3. ASSUME NEW r \in Request, ArrivesLate(r) PROVE SessionInv'
    <2>1. UNCHANGED <<row, aged, login, lock, actor>> /\ \A s \in late' : s.op = "revoke"
      BY <1>3 DEF ArrivesLate
    <2>2. Revoke(r.token) /\ r.token \in Token /\ RelayTypeOK
      BY <1>3 DEF ArrivesLate, Serve, Request, TypeInv, TypeOK
    <2>3. /\ Opened' = Opened /\ SameTokens /\ grant' = grant
          /\ \A f \in Opened : families'[f].unspent = families[f].unspent
          /\ \A f \in Family : Live(f)' => Live(f)
      BY <2>2, RevokeFacts
    <2>4. StoredTokenWorks'
      BY <2>1, <2>3, Numbers DEF SameTokens
    <2> QED BY <2>1, <2>3, <2>4 DEF SameTokens
  <1> QED BY <1>1, <1>2, <1>3 DEF WireNext

(* The session's part of the system keeps its invariant, step by step. *)
LEMMA SessionStep ==
  ASSUME TypeInv, Orderly, SessionInv, [Next]_vars
  PROVE  SessionInv'
  <1> USE DEF relayVars, SessionInv, LanesRotate, NoRowYet, Quiet, Written, LoginToken, OneFamily,
              Behind, Rotating, Rotated, StoredTokenWorks,
              Presented, IsCurrent, IsUnspentPrevious, Active, Pending, HasStatus
  <1>0. FamilyOrder'
    BY OrderStep
  <1>1. CASE Age
    BY <1>1, SameFamilies DEF Age, Live
  <1>2. CASE Restart
    <2>1. \A a \in Actor : actor'[a].pc = "idle" /\ actor'[a].token = None
      BY <1>2 DEF Restart, Resting
    <2>2. (row' = row \/ row' = None) /\ UNCHANGED <<relayVars, late>> /\ login' = NoLogin
      BY <1>2 DEF Restart
    <2> QED BY <2>1, <2>2, SameFamilies DEF NoLogin, Live
  <1>3. CASE Delete
    <2>1. /\ UNCHANGED <<row, aged, login, leaving, actor, lock, late>>
          /\ grant' = IF grant = "completed" THEN "outlived" ELSE grant
      BY <1>3 DEF Delete, DeleteDevice
    <2>2. /\ Opened' = Opened /\ SameTokens
          /\ \A f \in Opened : families'[f].unspent = families[f].unspent
          /\ \A f \in Family : ~Live(f)'
      BY <1>3, EndAllFacts DEF Delete, TypeInv, TypeOK
    <2>3. StoredTokenWorks'
      BY <2>1, <2>2, Numbers
    <2> QED BY <1>0, <2>1, <2>2, <2>3 DEF SameTokens
  <1>4. CASE UNCHANGED vars
    BY <1>4, SameFamilies DEF vars, deviceVars, Live
  <1> QED BY <1>0, <1>1, <1>2, <1>3, <1>4, LoginKeeps, LogoutKeeps, LaneKeeps, WireKeeps DEF Next

LEMMA SessionInit == Init => SessionInv
  BY NoSessionIsNone DEF Init, RelayInit, SessionInv, LanesRotate, NoRowYet, Quiet, Written, LoginToken,
     FamilyOrder, OneFamily, Behind, Rotating, Rotated, StoredTokenWorks, NoLogin, Resting, Opened

(***************************************************************************)
(* Without the three orders of events the code does not foresee, the token *)
(* in the row opens its session or the Relay has ended the family, whatever*)
(* answers are lost and whenever the service restarts (ADR 0030).          *)
(***************************************************************************)
THEOREM StoredTokenOpens ==
  ASSUME Orderly
  PROVE  Spec => []StoredTokenWorks
  <1>1. Init => TypeInv /\ SessionInv
    BY TypeInit, SessionInit
  <1>2. TypeInv /\ SessionInv /\ [Next]_vars => TypeInv' /\ SessionInv'
    BY TypeStep, SessionStep
  <1>3. SessionInv => StoredTokenWorks
    BY DEF SessionInv
  <1> QED BY <1>1, <1>2, <1>3, PTL DEF Spec

-------------------------------------------------------------------------------
(* What a step may write into a row there is. *)
SameSession ==
  row # None /\ row' # None =>
    row'.token[1] = row.token[1] /\ (row.status = "logout_pending" => row'.status = "logout_pending")

LEMMA RowMoves ==
  ASSUME TypeInv, Orderly, SessionInv, [Next]_vars
  PROVE  SameSession
  <1> USE DEF SameSession
  <1>1. CASE LoginNext
    <2>1. CASE Finalize \/ Install
      BY <2>1 DEF Finalize, Install, SessionInv, NoRowYet
    <2>2. CASE LookAgain
      <3>1. login.token \in Token
        BY <2>2 DEF LookAgain, TypeInv, TypeOK, LoginHolds
      <3> QED BY <2>2, <3>1, WriteFacts DEF LookAgain, SessionInv, Written, Status
    <2> QED BY <1>1, <2>1, <2>2 DEF LoginNext, AskLogin, BeginLogin, Cancel, Complete, Callback, ExchangeArrives,
               ExchangeIsLost, LoginFails, deviceVars
  <1>2. CASE LogoutNext
    <2>1. CASE MarkPending
      <3>1. row = leaving /\ leaving.token \in Token
        BY <2>1 DEF MarkPending, Orderly, TypeInv, TypeOK, SessionRow
      <3> QED BY <2>1, <3>1, WriteFacts DEF MarkPending, Status
    <2> QED BY <1>2, <2>1 DEF LogoutNext, AskLogout, RetryLogout, ClearPending, ReadEpoch, FinishLogout, ClearIf
  <1>3. CASE LaneNext
    <2>1. CASE SyncControl
      <3>1. Full \in Actor /\ (row' # row => Active /\ row' = SessionOf("active", row.token, row.epoch + 1))
        BY <2>1, SessionAssumption
           DEF SyncControl, Actor, SessionInv, Behind, Active, HasStatus, AtEpoch
      <3> QED BY <3>1 DEF SessionOf, Active, HasStatus
    <2>2. ASSUME NEW a \in Lane, KeepRotation(a) PROVE SameSession
      <3>1. a \in Actor /\ actor[a].token # None
        BY <2>2, HeldType, CopiesType DEF KeepRotation, Actor
      <3>2. row # None /\ row' # row =>
              /\ Active /\ actor[a].token[1] = row.token[1]
              /\ row' = SessionOf("active", actor[a].token, actor[a].epoch + 1)
        BY <2>2, <3>1 DEF KeepRotation, SessionInv, Rotating, OneFamily, AtEpoch
      <3> QED BY <3>2 DEF SessionOf, Active, HasStatus
    <2> QED BY <1>3, <2>1, <2>2 DEF LaneNext, Snapshot, TakeLock, RotateArrives, RotateIsLost, RequestArrives,
               RequestIsLost, Refused, Answered, ClearIf
  <1>4. CASE WireNext
    BY <1>4 DEF WireNext, RevokeArrives, RevokeIsLost, ArrivesLate
  <1>5. CASE Age \/ Restart \/ Delete \/ UNCHANGED vars
    BY <1>5 DEF Age, Restart, Delete, vars, deviceVars
  <1> QED BY <1>1, <1>2, <1>3, <1>4, <1>5 DEF Next

(***************************************************************************)
(* Without the three orders of events the code does not foresee, no step   *)
(* replaces the row by one of an earlier sign-in, and none undoes a        *)
(* sign-out (docs/security.md).                                            *)
(***************************************************************************)
THEOREM SessionsAreNotRevived ==
  ASSUME Orderly
  PROVE  Spec => NoRevival
  <1>1. Init => TypeInv /\ SessionInv
    BY TypeInit, SessionInit
  <1>2. TypeInv /\ SessionInv /\ [Next]_vars => TypeInv' /\ SessionInv'
    BY TypeStep, SessionStep
  <1> DEFINE Kept ==
        (row # None /\ row' # None) =>
          /\ row'.token[1] >= row.token[1]
          /\ (row.status = "logout_pending" /\ row'.status = "active") =>
                row'.token[1] > row.token[1]
  <1>3. TypeInv /\ SessionInv /\ [Next]_vars => [Kept]_vars
    <2> SUFFICES ASSUME TypeInv, SessionInv, [Next]_vars PROVE Kept
      OBVIOUS
    <2>1. SameSession
      BY RowMoves
    <2>2. row # None => row.token[1] \in Nat
      BY Numbers DEF Family
    <2> QED BY <2>1, <2>2 DEF SameSession
  <1> QED BY <1>1, <1>2, <1>3, PTL DEF Spec, NoRevival

-------------------------------------------------------------------------------
(***************************************************************************)
(* What a device signs out for.  When rotations are not overtaken and the  *)
(* answer to a sign-in arrives, the live family is the row's, and what an  *)
(* actor was refused, or has revoked, has ended.                           *)
(***************************************************************************)
LEMMA GentleIsOrderly == Gentle => Orderly
  BY DEF Gentle, Orderly

(* A live family whose token is held is the row's, and the row's token opens it. *)
LEMMA HeldIsPresented ==
  ASSUME TypeInv, LiveInv, SessionInv, Held, NEW a \in Actor, actor[a].token # None, Live(actor[a].token[1])
  PROVE  /\ row # None /\ row.token[1] = actor[a].token[1]
         /\ Presented(row.token) /\ DeviceIsCurrent
  <1>1. actor[a].token[1] \in Family
    BY DEF Live, Opened
  <1>2. login.pc \notin {"issued", "outcome"}
    BY DEF SessionInv, Quiet
  <1>3. row # None /\ row.token[1] = actor[a].token[1]
    BY <1>1, <1>2 DEF Held
  <1>4. Presented(row.token)
    BY <1>3 DEF SessionInv, StoredTokenWorks
  <1> QED BY <1>1, <1>3, <1>4 DEF LiveInv, OneLiveFamily

LEMMA LoginIsForCause ==
  ASSUME TypeInv, Gentle, LiveInv, SessionInv, CauseInv, LoginNext
  PROVE  CauseInv'
  <1> USE DEF relayVars, CauseInv, Held, EndedForCause, RevokesTheRow, SendsCurrent, FreshIsCurrent,
              Active, Pending, HasStatus, IsCurrent, Live
  <1>0. /\ login \in [pc : LoginStep, cancel : BOOLEAN, token : Token \cup {None}]
        /\ row # None => row.status \in {"active", "logout_pending"}
        /\ RelayTypeOK
    BY DEF TypeInv, TypeOK, SessionRow, Status
  <1>1. CASE AskLogin
    BY <1>0, <1>1, SameFamilies DEF AskLogin, NoLogin, Usable, Gentle, SessionInv, NoRowYet
  <1>2. CASE BeginLogin
    BY <1>0, <1>2, SameFamilies DEF BeginLogin, CreateGrant
  <1>3. CASE Cancel
    BY <1>0, <1>3, SameFamilies DEF Cancel
  <1>4. CASE Complete
    BY <1>4, SameFamilies DEF Complete, CompleteGrant, deviceVars
  <1>5. CASE Callback
    BY <1>0, <1>5, SameFamilies DEF Callback
  <1>6. CASE ExchangeArrives
    <2>1. row = None /\ \A a \in Actor : actor[a].token = None /\ actor[a].pc = "idle"
      BY <1>6 DEF ExchangeArrives, TypeInv, ActorsHold, SessionInv, NoRowYet, Quiet
    <2>2. UNCHANGED <<row, actor>>
      BY <1>6 DEF ExchangeArrives
    <2>3. ASSUME NEW f \in Family, Consume(f), login' = [login EXCEPT !.pc = "issued", !.token = <<f, 1>>]
          PROVE  CauseInv'
      <3>1. \A g \in Family : Live(g)' <=> g = f
        BY <1>0, <2>3, ConsumeFacts
      <3>2. login'.pc = "issued" /\ login'.token[1] = f
        BY <1>0, <2>3
      <3> QED BY <2>1, <2>2, <3>1, <3>2
    <2>4. CASE ConsumeForNothing
      <3>1. \A g \in Family : ~Live(g)'
        BY <1>0, <2>4, EndAllFacts
      <3> QED BY <2>1, <2>2, <3>1
    <2> QED BY <1>6, <2>3, <2>4 DEF ExchangeArrives, Happens, Gentle
  <1>7. CASE ExchangeIsLost
    BY <1>0, <1>7, SameFamilies DEF ExchangeIsLost
  <1>8. CASE Finalize
    <2>1. login.token \in Token /\ \A a \in Actor : actor[a].token = None /\ actor[a].pc = "idle"
      BY <1>0, <1>8 DEF Finalize, TypeInv, ActorsHold, LoginHolds, SessionInv, Quiet
    <2>2. login.cancel => row' # None /\ row'.status = "logout_pending" /\ row'.token = login.token
      BY <1>8, <2>1, WriteFacts DEF Finalize, Status
    <2>3. row = None
      BY <1>8 DEF Finalize, SessionInv, NoRowYet
    <2> QED BY <1>0, <1>8, <2>1, <2>2, <2>3, SameFamilies DEF Finalize
  <1>9. CASE Install
    <2>1. login.token \in Token /\ \A a \in Actor : actor[a].token = None /\ actor[a].pc = "idle"
      BY <1>0, <1>9 DEF Install, TypeInv, ActorsHold, LoginHolds, SessionInv, Quiet
    <2>2. row' # None /\ row'.token = login.token /\ (login.cancel => row'.status = "logout_pending")
      BY <1>9, <2>1, WriteFacts DEF Install, Status
    <2>3. row = None /\ IsCurrent(login.token)
      BY <1>9 DEF Install, SessionInv, NoRowYet, LoginToken
    <2>4. CASE login.cancel
      <3>1. PICK a \in Thread : /\ a \in Actor /\ actor'[a].pc = "spawned" /\ actor'[a].token = login.token
                                /\ \A b \in Actor : b # a => actor'[b] = actor[b]
        BY <1>9, <2>4, SpawnFacts DEF Install
      <3> QED BY <1>9, <2>1, <2>2, <2>3, <2>4, <3>1, SameFamilies DEF Install, NoLogin
    <2>5. CASE ~login.cancel
      BY <1>0, <1>9, <2>1, <2>2, <2>3, <2>5, SameFamilies DEF Install
    <2> QED BY <2>4, <2>5
  <1>10. CASE LookAgain
    <2>1. /\ login.token \in Token /\ (row # None => row.token = login.token)
          /\ \A a \in Actor : actor[a].token # None => actor[a].token = login.token
      BY <1>0, <1>10 DEF LookAgain, TypeInv, LoginHolds, SessionInv, Written
    <2>2. CASE login.cancel
      <3>1. row' # None /\ row'.status = "logout_pending" /\ row'.token = login.token
        BY <1>10, <2>1, <2>2, WriteFacts DEF LookAgain, Status
      <3>2. PICK a \in Thread : /\ a \in Actor /\ actor'[a].pc = "spawned" /\ actor'[a].token = login.token
                                /\ \A b \in Actor : b # a => actor'[b] = actor[b]
        BY <1>10, <2>2, SpawnFacts DEF LookAgain
      <3> QED BY <1>10, <2>1, <3>1, <3>2, SameFamilies DEF LookAgain, NoLogin, TypeInv, ActorsHold
    <2>3. CASE ~login.cancel
      BY <1>10, <2>3, SameFamilies DEF LookAgain, NoLogin
    <2> QED BY <2>2, <2>3
  <1>11. CASE LoginFails
    <2>1. CASE Pending
      <3>1. PICK a \in Thread : /\ a \in Actor /\ actor'[a].pc = "spawned" /\ actor'[a].token = row.token
                                /\ \A b \in Actor : b # a => actor'[b] = actor[b]
        BY <1>11, <2>1, SpawnFacts DEF LoginFails
      <3> QED BY <1>11, <2>1, <3>1, SameFamilies DEF LoginFails, NoLogin
    <2>2. CASE ~Pending
      BY <1>11, <2>2, SameFamilies DEF LoginFails, NoLogin
    <2> QED BY <2>1, <2>2
  <1> QED BY <1>1, <1>2, <1>3, <1>4, <1>5, <1>6, <1>7, <1>8, <1>9, <1>10, <1>11 DEF LoginNext

LEMMA LogoutIsForCause ==
  ASSUME TypeInv, Gentle, LiveInv, SessionInv, CauseInv, LogoutNext
  PROVE  CauseInv'
  <1> USE DEF relayVars, CauseInv, Held, EndedForCause, RevokesTheRow, SendsCurrent, FreshIsCurrent,
              Active, Pending, HasStatus, IsCurrent, Live
  <1>0. Full \in Actor /\ Thread \subseteq Actor
    BY SessionAssumption DEF Actor
  <1>1. CASE AskLogout
    BY <1>1, SameFamilies DEF AskLogout
  <1>2. CASE MarkPending
    <2>1. row = leaving /\ row # None /\ row.token \in Token
      BY <1>2, GentleIsOrderly DEF MarkPending, Orderly, TypeInv, TypeOK, SessionRow
    <2>2. row' # None /\ row'.status = "logout_pending" /\ row'.token = row.token
      BY <1>2, <2>1, WriteFacts DEF MarkPending, Status
    <2>3. PICK a \in Thread : /\ a \in Actor /\ actor'[a].pc = "spawned" /\ actor'[a].token = row.token
                              /\ \A b \in Actor : b # a => actor'[b] = actor[b]
      BY <1>2, <2>1, SpawnFacts DEF MarkPending
    <2> QED BY <1>2, <2>1, <2>2, <2>3, SameFamilies DEF MarkPending
  <1>3. CASE RetryLogout
    <2>1. /\ row # None /\ actor'[Full].pc = "revoke" /\ actor'[Full].token = row.token
          /\ \A b \in Actor : b # Full => actor'[b] = actor[b]
      BY <1>0, <1>3 DEF RetryLogout, TypeInv, TypeOK
    <2> QED BY <1>3, <2>1, SameFamilies DEF RetryLogout
  <1>4. CASE ClearPending
    <2>1. /\ actor'[Full].pc = "idle" /\ actor'[Full].token = None
          /\ \A b \in Actor : b # Full => actor'[b] = actor[b]
      BY <1>0, <1>4, RestFacts DEF ClearPending
    <2>2. row' # row => row' = None /\ ~Live(row.token[1])
      <3>1. actor[Full].token # None /\ ~Live(actor[Full].token[1])
        BY <1>0, <1>4, HeldType, CopiesType DEF ClearPending
      <3> QED BY <1>0, <1>4, <3>1 DEF ClearPending, SessionInv, OneFamily
    <2> QED BY <1>4, <2>1, <2>2, SameFamilies DEF ClearPending
  <1>5. ASSUME NEW a \in Thread, ReadEpoch(a) PROVE CauseInv'
    <2>1. /\ actor'[a].pc = "revoke" /\ actor'[a].token = actor[a].token
          /\ \A b \in Actor : b # a => actor'[b] = actor[b]
      BY <1>0, <1>5 DEF ReadEpoch, TypeInv, TypeOK, Holding
    <2>2. UNCHANGED <<relayVars, row, aged, login, lock, late>> /\ actor[a].pc = "spawned"
      BY <1>5 DEF ReadEpoch
    <2> QED BY <1>0, <2>1, <2>2, SameFamilies
  <1>6. ASSUME NEW a \in Thread, FinishLogout(a) PROVE CauseInv'
    <2>1. /\ actor'[a].pc = "idle" /\ actor'[a].token = None
          /\ \A b \in Actor : b # a => actor'[b] = actor[b]
      BY <1>0, <1>6, RestFacts DEF FinishLogout
    <2>2. row' # row => row' = None /\ ~Live(row.token[1])
      <3>1. actor[a].token # None /\ ~Live(actor[a].token[1])
        BY <1>0, <1>6, HeldType, CopiesType DEF FinishLogout
      <3> QED BY <1>0, <1>6, <3>1 DEF FinishLogout, ClearIf, AtEpoch, SessionInv, OneFamily
    <2> QED BY <1>6, <2>1, <2>2, SameFamilies DEF FinishLogout
  <1> QED BY <1>1, <1>2, <1>3, <1>4, <1>5, <1>6 DEF LogoutNext

LEMMA LaneIsForCause ==
  ASSUME TypeInv, Gentle, LiveInv, SessionInv, CauseInv, LaneNext
  PROVE  CauseInv'
  <1> USE DEF relayVars, CauseInv, Held, EndedForCause, RevokesTheRow, SendsCurrent, FreshIsCurrent,
              Active, Pending, HasStatus, IsCurrent, Live
  <1>0. Full \in Actor /\ Lane \subseteq Actor /\ None \notin Lane /\ RelayTypeOK
    BY SessionAssumption DEF Actor, TypeInv, TypeOK
  <1>1. CASE SyncControl
    <2>1. /\ actor'[Full].pc = "idle" /\ actor'[Full].token = None
          /\ \A b \in Actor : b # Full => actor'[b] = actor[b]
      BY <1>0, <1>1, RestFacts DEF SyncControl
    <2>2. UNCHANGED <<relayVars, aged, login, lock, late>>
      BY <1>1 DEF SyncControl
    <2>3. CASE row' = row
      BY <1>0, <2>1, <2>2, <2>3, SameFamilies
    <2>4. CASE row' # row
      <3>1. Active /\ row' = SessionOf("active", row.token, row.epoch + 1)
        BY <1>0, <1>1, <2>4 DEF SyncControl, AtEpoch, SessionInv, Behind
      <3>2. row.token \in Token /\ row.epoch \in Nat
        BY <3>1, Numbers
      <3>3. row' # None /\ row'.status = "active" /\ row'.token = row.token
        BY <3>1, <3>2, WriteType, CopiesType DEF SessionOf, Status
      <3> QED BY <1>0, <2>1, <2>2, <3>1, <3>3, SameFamilies
    <2> QED BY <2>3, <2>4
  <1>2. ASSUME NEW a \in Lane, Snapshot(a) PROVE CauseInv'
    <2>1. /\ actor'[a].pc \in {"lock", "send"} /\ (aged => actor'[a].pc = "lock")
          /\ actor'[a].token = row.token
          /\ \A b \in Actor : b # a => actor'[b] = actor[b]
      BY <1>0, <1>2, HoldFacts DEF Snapshot
    <2>2. UNCHANGED <<relayVars, row, aged, login, lock, late>> /\ row # None /\ row.status = "active"
      BY <1>2 DEF Snapshot
    <2> QED BY <1>0, <2>1, <2>2, SameFamilies
  <1>3. ASSUME NEW a \in Lane, TakeLock(a) PROVE CauseInv'
    <2>1. UNCHANGED <<relayVars, row, aged, login, late>>
      BY <1>3 DEF TakeLock
    <2>2. \/ actor'[a].pc = "idle" /\ actor'[a].token = None
          \/ Active /\ ~aged /\ actor'[a].pc = "send" /\ actor'[a].token = row.token
          \/ Active /\ aged /\ actor'[a].pc = "rotate" /\ actor'[a].token = row.token
      BY <1>0, <1>3, RestFacts, HoldFacts DEF TakeLock
    <2>3. \A b \in Actor : b # a => actor'[b] = actor[b]
      BY <1>0, <1>3, RestFacts, HoldFacts DEF TakeLock
    <2> QED BY <1>0, <2>1, <2>2, <2>3, SameFamilies
  <1>4. ASSUME NEW a \in Lane, RotateArrives(a) PROVE CauseInv'
    <2> DEFINE t == actor[a].token
    <2>1. /\ UNCHANGED <<row, aged, login, late>> /\ actor[a].pc = "rotate"
          /\ t \in Token /\ t # None /\ (row # None => t = row.token)
      BY <1>0, <1>4, HeldType, CopiesType DEF RotateArrives, SessionInv, Rotating
    <2>2. CASE UNCHANGED relayVars /\ Rest(a)
      <3>1. /\ actor'[a].pc = "idle" /\ actor'[a].token = None
            /\ \A b \in Actor : b # a => actor'[b] = actor[b]
        BY <1>0, <2>2, RestFacts
      <3> QED BY <1>0, <2>1, <2>2, <3>1, SameFamilies
    <2>3. CASE UNCHANGED relayVars /\ ~CanRotate(t) /\ Step(a, "refused")
      <3>1. /\ actor'[a].pc = "refused" /\ actor'[a].token = t
            /\ \A b \in Actor : /\ actor'[b].token = actor[b].token
                                /\ b # a => actor'[b].pc = actor[b].pc
        BY <1>0, <2>3, StepFacts
      <3>2. ~Live(t[1])
        BY <1>0, <2>1, <2>3, HeldIsPresented DEF CanRotate
      <3> QED BY <1>0, <2>1, <2>3, <3>1, <3>2, SameFamilies
    <2>4. CASE Rotate(t)
      <3>1. /\ Opened' = Opened /\ t[1] \in Family
            /\ \A f \in Family : Live(f)' <=> Live(f)
            /\ \A f \in Family \ {t[1]} : families'[f] = families[f]
        BY <1>0, <2>1, <2>4, RotateFacts DEF SameLife, Token
      <3>2. /\ actor'[a].pc \in {"rotated", "idle"}
            /\ \A b \in Actor : b # a => actor'[b] = actor[b]
        <4>1. CASE Rest(a)
          BY <1>0, <4>1, RestFacts
        <4>2. CASE Hold(a, "rotated", Successor(t), actor[a].epoch)
          BY <1>0, <4>2, HoldFacts
        <4>3. CanRotate(t) /\ Successor(t) \in Token
          BY <2>4 DEF Rotate
        <4> QED BY <1>4, <4>1, <4>2, <4>3 DEF RotateArrives
      <3>3. \A b \in Actor : actor[b].pc = "send" => actor[b].token[1] # t[1]
        <4>1. ~InFlight(t[1])
          BY <1>4 DEF RotateArrives, Gentle
        <4>2. \A b \in Actor : actor[b].pc = "send" => b \in Lane
          BY DEF SessionInv, LanesRotate
        <4> QED BY <4>1, <4>2 DEF InFlight
      <3>4. Active => aged
        BY <1>0, <2>1
      <3>5. Held' /\ EndedForCause' /\ RevokesTheRow'
        BY <1>0, <2>1, <3>1, <3>2 DEF Opened
      <3>6. SendsCurrent' /\ FreshIsCurrent'
        BY <1>0, <2>1, <3>1, <3>2, <3>3, <3>4 DEF Opened
      <3> QED BY <3>5, <3>6
    <2> QED BY <1>4, <2>2, <2>3, <2>4 DEF RotateArrives
  <1>5. ASSUME NEW a \in Lane, RotateIsLost(a) PROVE CauseInv'
    <2>1. /\ actor'[a].pc = "idle" /\ actor'[a].token = None
          /\ \A b \in Actor : b # a => actor'[b] = actor[b]
      BY <1>0, <1>5, RestFacts DEF RotateIsLost
    <2>2. UNCHANGED <<relayVars, row, aged, login>>
      BY <1>5 DEF RotateIsLost
    <2> QED BY <1>0, <2>1, <2>2, SameFamilies
  <1>6. ASSUME NEW a \in Lane, KeepRotation(a) PROVE CauseInv'
    <2>1. UNCHANGED <<relayVars, login, late>> /\ actor[a].pc = "rotated"
      BY <1>6 DEF KeepRotation
    <2>2. \A b \in Actor : actor[b].pc \in {"rotate", "rotated"} => b = a
      BY <1>0, <2>1 DEF SessionInv, LanesRotate
    <2>3. CASE ~AtEpoch(actor[a].epoch)
      <3>1. /\ actor'[a].pc = "idle" /\ actor'[a].token = None
            /\ \A b \in Actor : b # a => actor'[b] = actor[b]
        BY <1>0, <1>6, <2>3, RestFacts DEF KeepRotation
      <3>2. UNCHANGED <<row, aged>>
        BY <1>6, <2>3 DEF KeepRotation
      <3> QED BY <1>0, <2>1, <3>1, <3>2, SameFamilies
    <2>4. CASE AtEpoch(actor[a].epoch)
      <3> DEFINE t == actor[a].token
      <3>1. /\ row # None /\ Active /\ row.epoch = actor[a].epoch
            /\ t[1] = row.token[1] /\ IsCurrent(t) /\ t \in Token
        BY <1>0, <2>1, <2>4, HeldType, CopiesType DEF AtEpoch, SessionInv, Rotating, Rotated, OneFamily
      <3>2. row' = SessionOf("active", t, row.epoch + 1) /\ row' \in SessionRow
        BY <1>6, <2>4, <3>1, Numbers, WriteType DEF KeepRotation, Status
      <3>3. row' # None /\ row'.status = "active" /\ row'.token = t /\ aged' = FALSE
        BY <1>6, <2>4, <3>2, CopiesType DEF SessionOf, KeepRotation
      <3>4. /\ actor'[a].pc = "send" /\ actor'[a].token = t
            /\ \A b \in Actor : b # a => actor'[b] = actor[b]
        BY <1>0, <1>6, <2>4, <3>1, HoldFacts DEF KeepRotation
      <3> QED BY <1>0, <2>1, <2>2, <3>1, <3>3, <3>4, SameFamilies
    <2> QED BY <2>3, <2>4
  <1>7. ASSUME NEW a \in Lane, RequestArrives(a) PROVE CauseInv'
    <2> DEFINE t == actor[a].token
    <2>1. UNCHANGED <<row, aged, login, lock, late>> /\ actor[a].pc = "send" /\ t \in Token /\ t # None
      BY <1>0, <1>7, HeldType, CopiesType DEF RequestArrives
    <2>2. \A b \in Actor : b # a => actor'[b].pc = actor[b].pc /\ actor'[b].token = actor[b].token
      BY <1>0, <1>7, RestFacts, StepFacts DEF RequestArrives
    <2>3. CASE UNCHANGED relayVars /\ ~IsAuthorized(t) /\ Step(a, "refused")
      <3>1. actor'[a].pc = "refused" /\ actor'[a].token = t
        BY <1>0, <2>3, StepFacts
      <3>2. ~Live(t[1])
        BY <1>0, <2>1, <2>3, HeldIsPresented DEF IsAuthorized
      <3> QED BY <1>0, <2>1, <2>2, <2>3, <3>1, <3>2, SameFamilies
    <2>4. CASE Authorize(t)
      <3>1. /\ Opened' = Opened /\ SameTokens /\ \A f \in Family : Live(f)' <=> Live(f)
        BY <1>0, <2>1, <2>4, AuthorizeFacts DEF SameLife
      <3>2. actor'[a].pc \in {"answered", "idle"}
        BY <1>0, <1>7, <2>4, RestFacts, StepFacts DEF RequestArrives, Authorize
      <3>3. Held' /\ EndedForCause' /\ RevokesTheRow'
        BY <1>0, <2>1, <2>2, <3>1, <3>2 DEF Opened
      <3>4. SendsCurrent' /\ FreshIsCurrent'
        BY <1>0, <2>1, <2>2, <3>1, <3>2 DEF Opened, SameTokens
      <3> QED BY <3>3, <3>4
    <2> QED BY <1>7, <2>3, <2>4 DEF RequestArrives
  <1>8. ASSUME NEW a \in Lane, RequestIsLost(a) \/ Answered(a) PROVE CauseInv'
    <2>1. /\ actor'[a].pc = "idle" /\ actor'[a].token = None
          /\ \A b \in Actor : b # a => actor'[b] = actor[b]
      BY <1>0, <1>8, RestFacts DEF RequestIsLost, Answered
    <2>2. UNCHANGED <<relayVars, aged, login, row>>
      BY <1>8 DEF RequestIsLost, Answered
    <2> QED BY <1>0, <2>1, <2>2, SameFamilies
  <1>9. ASSUME NEW a \in Lane, Refused(a) PROVE CauseInv'
    <2>1. /\ actor'[a].pc = "idle" /\ actor'[a].token = None
          /\ \A b \in Actor : b # a => actor'[b] = actor[b]
      BY <1>0, <1>9, RestFacts DEF Refused
    <2>2. row' # row => row' = None /\ ~Live(row.token[1])
      <3>1. actor[a].token # None /\ ~Live(actor[a].token[1])
        BY <1>0, <1>9, HeldType, CopiesType DEF Refused
      <3> QED BY <1>0, <1>9, <3>1 DEF Refused, ClearIf, AtEpoch, SessionInv, OneFamily
    <2>3. UNCHANGED <<relayVars, aged, login>>
      BY <1>9 DEF Refused
    <2> QED BY <1>0, <2>1, <2>2, <2>3, SameFamilies
  <1> QED BY <1>1, <1>2, <1>3, <1>4, <1>5, <1>6, <1>7, <1>8, <1>9 DEF LaneNext

LEMMA WireIsForCause ==
  ASSUME TypeInv, Gentle, LiveInv, SessionInv, CauseInv, WireNext
  PROVE  CauseInv'
  <1> USE DEF relayVars, CauseInv, Held, EndedForCause, RevokesTheRow, SendsCurrent, FreshIsCurrent,
              Active, Pending, HasStatus, IsCurrent, Live
  <1>1. ASSUME NEW a \in Actor, RevokeArrives(a) PROVE CauseInv'
    <2> DEFINE t == actor[a].token
    <2>1. UNCHANGED <<row, aged, login, lock, late>> /\ actor[a].pc = "revoke"
      BY <1>1 DEF RevokeArrives
    <2>2. Revoke(t) /\ t \in Token /\ t # None /\ RelayTypeOK /\ t[1] \in Family
      BY <1>1, HeldType, CopiesType DEF RevokeArrives, TypeInv, TypeOK, Token
    <2>3. /\ Opened' = Opened /\ SameTokens
          /\ \A f \in Family : Live(f)' <=> Live(f) /\ ~(Presented(t) /\ f = t[1])
      BY <2>2, RevokeFacts
    <2>4. /\ actor'[a].pc = "idle" \/ (actor'[a].pc = "revoked" /\ actor'[a].token = t)
          /\ \A b \in Actor : b # a => actor'[b].pc = actor[b].pc /\ actor'[b].token = actor[b].token
      BY <1>1, RestFacts, StepFacts DEF RevokeArrives
    <2>5. t[1] \in Opened' => families'[t[1]].revoked
      <3>1. Live(t[1]) => row # None /\ Presented(row.token)
        BY <2>2, HeldIsPresented
      <3>2. row # None => row.token = t
        BY <2>1
      <3>3. ~Live(t[1]) \/ Presented(t)
        BY <3>1, <3>2 DEF Presented, IsUnspentPrevious
      <3> QED BY <2>2, <2>3, <3>3
    <2>6. Held' /\ RevokesTheRow'
      BY <2>1, <2>3, <2>4 DEF Opened
    <2>7. EndedForCause'
      BY <2>2, <2>3, <2>4, <2>5 DEF Opened
    <2>8. SendsCurrent' /\ FreshIsCurrent'
      BY <2>1, <2>3, <2>4 DEF Opened, SameTokens
    <2> QED BY <2>6, <2>7, <2>8
  <1>2. ASSUME NEW a \in Actor, RevokeIsLost(a) PROVE CauseInv'
    <2>1. /\ actor'[a].pc = "idle" /\ actor'[a].token = None
          /\ \A b \in Actor : b # a => actor'[b] = actor[b]
      BY <1>2, RestFacts DEF RevokeIsLost
    <2>2. UNCHANGED <<relayVars, row, aged, login>>
      BY <1>2 DEF RevokeIsLost
    <2> QED BY <2>1, <2>2, SameFamilies
  <1>3. ASSUME NEW r \in Request, ArrivesLate(r) PROVE CauseInv'
    <2>1. UNCHANGED <<row, aged, login, actor>>
      BY <1>3 DEF ArrivesLate
    <2>2. Revoke(r.token) /\ r.token \in Token /\ RelayTypeOK
      BY <1>3 DEF ArrivesLate, Serve, Request, TypeInv, TypeOK, SessionInv
    <2>3. Opened' = Opened /\ SameTokens /\ \A f \in Family : Live(f)' => Live(f)
      BY <2>2, RevokeFacts
    <2> QED BY <2>1, <2>3 DEF Opened, SameTokens
  <1> QED BY <1>1, <1>2, <1>3 DEF WireNext

LEMMA CauseStep ==
  ASSUME TypeInv, Gentle, LiveInv, SessionInv, CauseInv, [Next]_vars
  PROVE  CauseInv'
  <1> USE DEF relayVars, CauseInv, Held, EndedForCause, RevokesTheRow, SendsCurrent, FreshIsCurrent,
              Active, Pending, HasStatus, IsCurrent, Live
  <1>1. CASE Age
    BY <1>1, SameFamilies DEF Age
  <1>2. CASE Restart
    BY <1>2 DEF Restart, Happens, Gentle
  <1>3. CASE Delete
    <2>1. UNCHANGED <<row, aged, login, actor>>
      BY <1>3 DEF Delete
    <2>2. Opened' = Opened /\ \A f \in Family : ~Live(f)'
      BY <1>3, EndAllFacts DEF Delete, TypeInv, TypeOK
    <2> QED BY <2>1, <2>2 DEF Opened
  <1>4. CASE UNCHANGED vars
    BY <1>4, SameFamilies DEF vars, deviceVars
  <1> QED BY <1>1, <1>2, <1>3, <1>4, LoginIsForCause, LogoutIsForCause, LaneIsForCause, WireIsForCause
          DEF Next

LEMMA CauseInit == Init => CauseInv
  BY DEF Init, RelayInit, CauseInv, Held, EndedForCause, RevokesTheRow, SendsCurrent, FreshIsCurrent,
     Active, HasStatus, Resting, Live, Opened

(* The three invariants and the types together. *)
AllInv == TypeInv /\ LiveInv /\ SessionInv /\ CauseInv

LEMMA AllHold ==
  ASSUME Gentle
  PROVE  Spec => []AllInv
  <1>1. Init => AllInv
    BY TypeInit, LiveInit, SessionInit, CauseInit DEF AllInv
  <1>2. AllInv /\ [Next]_vars => AllInv'
    BY GentleIsOrderly, TypeStep, LiveStep, SessionStep, CauseStep DEF AllInv
  <1> QED BY <1>1, <1>2, PTL DEF Spec

(***************************************************************************)
(* Where answers to a sign-in arrive and no rotation is overtaken, a live  *)
(* family can always be ended from the device: the row has a token of it   *)
(* the Relay takes, or the sign-in still has it (install_login_session).   *)
(***************************************************************************)
THEOREM FamiliesAreHeld ==
  ASSUME Gentle
  PROVE  Spec => []LiveFamilyIsHeld
  <1>1. AllInv => LiveFamilyIsHeld
    <2> SUFFICES ASSUME AllInv, NEW f \in Family, Live(f)
                 PROVE  \/ row # None /\ row.token[1] = f /\ Presented(row.token)
                        \/ login.token # None /\ login.token[1] = f /\ Presented(login.token)
      BY DEF LiveFamilyIsHeld
    <2>1. CASE row # None /\ row.token[1] = f
      BY <2>1 DEF AllInv, SessionInv, StoredTokenWorks
    <2>2. CASE login.pc \in {"issued", "outcome"} /\ login.token[1] = f
      BY <2>2 DEF AllInv, SessionInv, LoginToken, TypeInv, LoginHolds, Presented
    <2> QED BY <2>1, <2>2 DEF AllInv, CauseInv, Held
  <1> QED BY <1>1, AllHold, PTL

(* The row is cleared only when its family has ended. *)
LEMMA ClearedForCause ==
  ASSUME Gentle, AllInv, [Next]_vars, row # None, row' = None
  PROVE  ~Live(row.token[1])
  <1> USE DEF AllInv
  <1>0. Full \in Actor /\ Lane \subseteq Actor /\ Thread \subseteq Actor
    BY SessionAssumption DEF Actor
  <1>1. ASSUME NEW a \in Actor, actor[a].pc \in {"refused", "revoked"} PROVE ~Live(row.token[1])
    <2>1. actor[a].token # None
      BY <1>1, HeldType, CopiesType
    <2> QED BY <1>1, <2>1 DEF CauseInv, EndedForCause, SessionInv, OneFamily
  <1>2. CASE LoginNext
    <2>1. ASSUME NEW s \in Status, NEW t \in Token, Write(s, t) PROVE FALSE
      BY <2>1, WriteFacts
    <2>2. login.pc \in {"issued", "outcome", "written"} => login.token \in Token
      BY DEF TypeInv, TypeOK, LoginHolds
    <2>3. CASE AskLogin
      BY <2>3 DEF AskLogin, Usable, Active, Pending, HasStatus, Gentle, TypeInv, TypeOK, SessionRow, Status
    <2>4. CASE Finalize \/ Install \/ LookAgain
      BY <2>1, <2>2, <2>4 DEF Finalize, Install, LookAgain, Status
    <2> QED BY <1>2, <2>3, <2>4 DEF LoginNext, BeginLogin, Cancel, Complete, Callback, ExchangeArrives,
               ExchangeIsLost, LoginFails, deviceVars
  <1>3. CASE LogoutNext
    <2>1. CASE MarkPending
      <3>1. leaving.token \in Token
        BY <2>1 DEF MarkPending, TypeInv, TypeOK, SessionRow
      <3> QED BY <2>1, <3>1, WriteFacts DEF MarkPending, Status
    <2>2. CASE ClearPending
      BY <1>0, <1>1, <2>2 DEF ClearPending
    <2>3. ASSUME NEW a \in Thread, FinishLogout(a) PROVE ~Live(row.token[1])
      BY <1>0, <1>1, <2>3 DEF FinishLogout
    <2> QED BY <1>3, <2>1, <2>2, <2>3 DEF LogoutNext, AskLogout, RetryLogout, ReadEpoch
  <1>4. CASE LaneNext
    <2>1. ASSUME NEW a \in Actor, actor[a].pc # "idle", row' = SessionOf("active", actor[a].token, actor[a].epoch + 1)
          PROVE  FALSE
      BY <2>1, HeldType, WriteType, CopiesType DEF Status
    <2>2. ASSUME NEW a \in Lane, Refused(a) PROVE ~Live(row.token[1])
      BY <1>0, <1>1, <2>2 DEF Refused
    <2>3. ASSUME NEW a \in Lane, KeepRotation(a) PROVE FALSE
      BY <1>0, <2>1, <2>3 DEF KeepRotation
    <2>4. ~SyncControl
      BY <1>0, <2>1 DEF SyncControl
    <2> QED BY <1>4, <2>2, <2>3, <2>4 DEF LaneNext, Snapshot, TakeLock, RotateArrives, RotateIsLost,
               RequestArrives, RequestIsLost, Answered
  <1>5. CASE WireNext
    BY <1>5 DEF WireNext, RevokeArrives, RevokeIsLost, ArrivesLate
  <1>6. CASE Age \/ Restart \/ Delete \/ UNCHANGED vars
    BY <1>6 DEF Age, Restart, Delete, Happens, Gentle, vars, deviceVars
  <1> QED BY <1>2, <1>3, <1>4, <1>5, <1>6 DEF Next

(***************************************************************************)
(* Under the same conditions the record of a sign-out leaves the row only  *)
(* when the Relay has ended the family it names (spawn_logout_retry,       *)
(* retry_pending_logout): the revoke job is durable.                       *)
(***************************************************************************)
THEOREM RecordsAreRevoked ==
  ASSUME Gentle
  PROVE  Spec => PendingIsRevoked
  <1> DEFINE Done == (Pending /\ (row' = None \/ row'.token[1] # row.token[1])) => ~Live(row.token[1])
  <1>1. AllInv /\ [Next]_vars => [Done]_vars
    <2> SUFFICES ASSUME AllInv, [Next]_vars PROVE Done
      OBVIOUS
    <2>1. SameSession
      BY RowMoves, GentleIsOrderly DEF AllInv
    <2> QED BY <2>1, ClearedForCause DEF SameSession, Pending, HasStatus
  <1> QED BY <1>1, AllHold, PTL DEF Spec, PendingIsRevoked

(***************************************************************************)
(* ... and an active row is cleared only when the Relay has ended its      *)
(* family (clear_session_if_rejected): no lane signs the device out for an *)
(* answer that was about another token.                                    *)
(***************************************************************************)
THEOREM ClearedByTheRelay ==
  ASSUME Gentle
  PROVE  Spec => SignedOutForCause
  <1> DEFINE Done == (Active /\ row' = None) => ~Live(row.token[1])
  <1>1. AllInv /\ [Next]_vars => [Done]_vars
    BY ClearedForCause DEF Active, HasStatus
  <1> QED BY <1>1, AllHold, PTL DEF Spec, SignedOutForCause
===============================================================================
